---------------------------- MODULE WriteProofs ----------------------------
(***************************************************************************)
(* Proofs about WriteCommit, for every set of statements, every number of  *)
(* attempts and retries and any number of faults: the state is well typed, *)
(* a statement is applied at most once and its answer is true, no file of  *)
(* the table is deleted, no row is doubled and no change is lost, each     *)
(* under the faults and for the mixes of statements it holds for.          *)
(***************************************************************************)
EXTENDS WriteCommit, TLAPS

-----------------------------------------------------------------------------
(* The records. *)

\* The parts of a well typed table.
LEMMA TableParts ==
  ASSUME NEW t \in Tables
  PROVE  /\ t.ver \in Nat /\ t.files \subseteq Paths /\ t.rows \subseteq Rows
         /\ t.deletes \subseteq Deletes
BY DEF Tables

\* A table of well typed parts is well typed, and keeps them.
LEMMA TableType ==
  ASSUME NEW v \in Nat, NEW fs \in SUBSET Paths, NEW rs \in SUBSET Rows,
         NEW ds \in SUBSET Deletes
  PROVE  /\ Table(v, fs, rs, ds) \in Tables
         /\ Table(v, fs, rs, ds).ver = v
         /\ Table(v, fs, rs, ds).files = fs
         /\ Table(v, fs, rs, ds).rows = rs
         /\ Table(v, fs, rs, ds).deletes = ds
BY DEF Table, Tables

\* The parts of a well typed row.
LEMMA RowParts ==
  ASSUME NEW r \in Rows
  PROVE  r.file \in Paths /\ r.key \in Stmts \cup {Seed} /\ r.by \subseteq Stmts
BY DEF Rows

\* A row of well typed parts is well typed, and keeps them.
LEMMA RowType ==
  ASSUME NEW f \in Paths, NEW k \in Stmts \cup {Seed}, NEW b \in SUBSET Stmts
  PROVE  /\ Row(f, k, b) \in Rows
         /\ Row(f, k, b).file = f
         /\ Row(f, k, b).key = k
         /\ Row(f, k, b).by = b
BY DEF Row, Rows

\* The two tables a behaviour may start with.
LEMMA FirstTables ==
  /\ EmptyTable \in Tables /\ EmptyTable.files = {} /\ EmptyTable.rows = {}
  /\ EmptyTable.ver = 0 /\ EmptyTable.deletes = {}
  /\ SeedTable \in Tables /\ SeedTable.files = {<<Seed, 0>>} /\ SeedTable.ver = 0
  /\ SeedTable.deletes = {}
  /\ SeedTable.rows = {Row(<<Seed, 0>>, Seed, {})}
  /\ Row(<<Seed, 0>>, Seed, {}) \in Rows
<1>1. <<Seed, 0>> \in Paths
  BY DEF Paths
<1>2. Row(<<Seed, 0>>, Seed, {}) \in Rows
  BY <1>1, RowType
<1>3. /\ {<<Seed, 0>>} \in SUBSET Paths /\ {Row(<<Seed, 0>>, Seed, {})} \in SUBSET Rows
      /\ {} \in SUBSET Deletes
  BY <1>1, <1>2
<1> QED
  BY <1>2, <1>3, TableType DEF EmptyTable, SeedTable

\* The bounds.
LEMMA Bounds ==
  /\ MaxAttempts \in Nat /\ MaxAttempts >= 1 /\ 1 \in 1..MaxAttempts
  /\ MaxInner \in Nat /\ 0 \in 0..MaxInner
  /\ MaxFaults \in Nat
BY WriteAssumption

\* The file a statement writes is a path of its own.
LEMMA FileOfType ==
  ASSUME NEW s \in Stmts, attempt[s] \in 1..MaxAttempts
  PROVE  FileOf(s) \in Paths /\ FileOf(s) # <<Seed, 0>> /\ FileOf(s)[1] = s
<1>1. FileOf(s) = <<s, IF Rewrites(s) THEN attempt[s] ELSE 1>>
  BY DEF FileOf
<1>2. PICK n : n \in 0..MaxAttempts /\ FileOf(s) = <<s, n>>
  BY <1>1, Bounds
<1>3. s # Seed
  BY WriteAssumption
<1> QED
  BY <1>2, <1>3 DEF Paths

-----------------------------------------------------------------------------
(* What a commit request changes. *)

\* The change a statement of each kind asks for.
LEMMA ChangeParts ==
  ASSUME NEW s \in Stmts, kind[s] \in Kinds
  PROVE  /\ kind[s] # "posdelete" => Change(s).adds = {FileOf(s)}
         /\ kind[s] = "posdelete" => Change(s).adds = {} /\ Change(s).rows = {}
         /\ kind[s] = "append" => Change(s).rows = {Row(FileOf(s), s, {s})}
         /\ kind[s] = "rewrite" => /\ Change(s).rows = Updated(s, loaded[s].rows)
                                   /\ Change(s).drops = loaded[s].files
         /\ kind[s] = "delta" => Change(s).rows = Updated(s, seen[s].rows)
         /\ kind[s] = "compact" => /\ Change(s).rows = Moved(s, loaded[s].rows)
                                   /\ Change(s).drops = loaded[s].files
                                   /\ Change(s).pins = {loaded[s].ver}
         /\ kind[s] # "compact" => Change(s).pins = {}
         /\ kind[s] \notin {"rewrite", "compact"} => Change(s).drops = {}
         /\ kind[s] = "delta" => Change(s).keys = Keys(seen[s].rows)
         /\ kind[s] # "delta" => Change(s).keys = {}
         /\ kind[s] = "posdelete" => Change(s).cells = Cells(seen[s].rows)
         /\ kind[s] # "posdelete" => Change(s).cells = {}
<1>1. CASE kind[s] = "append"
  BY <1>1 DEF Change, Rewrites
<1>2. CASE kind[s] = "rewrite"
  BY <1>2 DEF Change, Rewrites
<1>3. CASE kind[s] = "delta"
  BY <1>3 DEF Change, Rewrites
<1>4. CASE kind[s] = "posdelete"
  BY <1>4 DEF Change, Rewrites
<1>5. CASE kind[s] = "compact"
  BY <1>5 DEF Change, Rewrites
<1> QED
  BY <1>1, <1>2, <1>3, <1>4, <1>5 DEF Kinds

\* The rows a statement writes are well typed, one for each row it read.
LEMMA WrittenRows ==
  ASSUME NEW s \in Stmts, attempt[s] \in 1..MaxAttempts, NEW rs \in SUBSET Rows
  PROVE  /\ Updated(s, rs) \subseteq Rows /\ Moved(s, rs) \subseteq Rows
         /\ \A q \in Updated(s, rs) :
              q.file = FileOf(s) /\ s \in q.by /\ \E r \in rs : q = Row(FileOf(s), r.key, r.by \cup {s})
         /\ \A q \in Moved(s, rs) :
              q.file = FileOf(s) /\ \E r \in rs : q = Row(FileOf(s), r.key, r.by)
         /\ Keys(Updated(s, rs)) = Keys(rs) /\ Keys(Moved(s, rs)) = Keys(rs)
<1>1. FileOf(s) \in Paths
  BY FileOfType
<1>2. \A r \in rs : /\ r.key \in Stmts \cup {Seed}
                    /\ r.by \cup {s} \in SUBSET Stmts /\ r.by \in SUBSET Stmts
  BY RowParts
<1>3. ASSUME NEW r \in rs
      PROVE  /\ Row(FileOf(s), r.key, r.by \cup {s}) \in Rows
             /\ Row(FileOf(s), r.key, r.by \cup {s}).file = FileOf(s)
             /\ Row(FileOf(s), r.key, r.by \cup {s}).key = r.key
             /\ s \in Row(FileOf(s), r.key, r.by \cup {s}).by
             /\ Row(FileOf(s), r.key, r.by) \in Rows
             /\ Row(FileOf(s), r.key, r.by).file = FileOf(s)
             /\ Row(FileOf(s), r.key, r.by).key = r.key
  BY <1>1, <1>2, RowType
<1>4. /\ Updated(s, rs) \subseteq Rows
      /\ \A q \in Updated(s, rs) : q.file = FileOf(s) /\ s \in q.by /\ \E r \in rs : q = Row(FileOf(s), r.key, r.by \cup {s})
      /\ Keys(Updated(s, rs)) = Keys(rs)
  <2>1. ASSUME NEW q \in Updated(s, rs)
        PROVE  q \in Rows /\ q.file = FileOf(s) /\ s \in q.by /\ q.key \in Keys(rs)
               /\ \E r \in rs : q = Row(FileOf(s), r.key, r.by \cup {s})
    <3>1. PICK r \in rs : q = Row(FileOf(s), r.key, r.by \cup {s})
      BY DEF Updated
    <3> QED
      BY <1>3, <3>1 DEF Keys
  <2>2. ASSUME NEW k \in Keys(rs)
        PROVE  k \in Keys(Updated(s, rs))
    <3>1. PICK r \in rs : k = r.key
      BY DEF Keys
    <3>2. Row(FileOf(s), r.key, r.by \cup {s}) \in Updated(s, rs)
      BY DEF Updated
    <3> QED
      BY <1>3, <3>1, <3>2 DEF Keys
  <2>3. \A k \in Keys(Updated(s, rs)) : k \in Keys(rs)
    BY <2>1 DEF Keys
  <2> QED
    BY <2>1, <2>2, <2>3
<1>5. /\ Moved(s, rs) \subseteq Rows
      /\ \A q \in Moved(s, rs) : q.file = FileOf(s) /\ \E r \in rs : q = Row(FileOf(s), r.key, r.by)
      /\ Keys(Moved(s, rs)) = Keys(rs)
  <2>1. ASSUME NEW q \in Moved(s, rs)
        PROVE  q \in Rows /\ q.file = FileOf(s) /\ q.key \in Keys(rs)
               /\ \E r \in rs : q = Row(FileOf(s), r.key, r.by)
    <3>1. PICK r \in rs : q = Row(FileOf(s), r.key, r.by)
      BY DEF Moved
    <3> QED
      BY <1>3, <3>1 DEF Keys
  <2>2. ASSUME NEW k \in Keys(rs)
        PROVE  k \in Keys(Moved(s, rs))
    <3>1. PICK r \in rs : k = r.key
      BY DEF Keys
    <3>2. Row(FileOf(s), r.key, r.by) \in Moved(s, rs)
      BY DEF Moved
    <3> QED
      BY <1>3, <3>1, <3>2 DEF Keys
  <2>3. \A k \in Keys(Moved(s, rs)) : k \in Keys(rs)
    BY <2>1 DEF Keys
  <2> QED
    BY <2>1, <2>2, <2>3
<1> QED
  BY <1>4, <1>5
\* Every change is well typed.
LEMMA ChangeType ==
  ASSUME TypeOK, NEW s \in Stmts
  PROVE  Change(s) \in Changes
<1>1. /\ kind[s] \in Kinds /\ attempt[s] \in 1..MaxAttempts /\ table \in Tables
      /\ seen[s] \in Tables /\ loaded[s] \in Tables
  BY DEF TypeOK
<1>2. FileOf(s) \in Paths
  BY <1>1, FileOfType
<1>3. Row(FileOf(s), s, {s}) \in Rows
  BY <1>2, RowType
<1>4. /\ Updated(s, loaded[s].rows) \subseteq Rows /\ Updated(s, seen[s].rows) \subseteq Rows
      /\ Moved(s, loaded[s].rows) \subseteq Rows
  BY <1>1, TableParts, WrittenRows
<1>5. loaded[s].files \subseteq Paths /\ loaded[s].ver \in Nat
  BY <1>1, TableParts
<1>6. seen[s].rows \subseteq Rows
  BY <1>1, TableParts
<1>7. \A r \in seen[s].rows : r.file \in Paths /\ r.key \in Stmts \cup {Seed}
  BY <1>6, RowParts
<1>8. Keys(seen[s].rows) \subseteq Stmts \cup {Seed}
  BY <1>7 DEF Keys
<1>9. Cells(seen[s].rows) \subseteq Paths \X (Stmts \cup {Seed})
  BY <1>7 DEF Cells
<1>10. Change(s).adds \subseteq Paths
  BY <1>1, <1>2, ChangeParts, ZenonT(60)
<1>11. Change(s).rows \subseteq Rows
  BY <1>1, <1>3, <1>4, ChangeParts DEF Kinds
<1>12. Change(s).drops \subseteq Paths
  BY <1>1, <1>5, ChangeParts DEF Kinds
<1>13. Change(s).keys \subseteq Stmts \cup {Seed}
  BY <1>1, <1>8, ChangeParts
<1>14. Change(s).cells \subseteq Paths \X (Stmts \cup {Seed})
  BY <1>1, <1>9, ChangeParts
<1>19. Change(s).pins \subseteq Nat
  <2>1. Change(s).pins = IF kind[s] = "compact" THEN {loaded[s].ver} ELSE {}
    BY DEF Change
  <2> QED
    BY <1>5, <2>1
<1>15. Change(s) = [adds |-> Change(s).adds, rows |-> Change(s).rows, drops |-> Change(s).drops,
                    keys |-> Change(s).keys, cells |-> Change(s).cells, pins |-> Change(s).pins]
  BY DEF Change
<1> DEFINE c == Change(s)
<1> HIDE DEF c
<1>16. c.adds \in SUBSET Paths /\ c.rows \in SUBSET Rows /\ c.drops \in SUBSET Paths
       /\ c.keys \in SUBSET (Stmts \cup {Seed})
       /\ c.cells \in SUBSET (Paths \X (Stmts \cup {Seed})) /\ c.pins \in SUBSET Nat
  BY <1>10, <1>11, <1>12, <1>13, <1>14, <1>19 DEF c
<1>17. c = [adds |-> c.adds, rows |-> c.rows, drops |-> c.drops,
            keys |-> c.keys, cells |-> c.cells, pins |-> c.pins]
  BY <1>15 DEF c
<1>18. c \in Changes
  BY <1>16, <1>17 DEF Changes
<1> QED
  BY <1>18 DEF c

\* The rows a request adds, as the table shows them: all of them, unless
\* their file is pinned to an older version.
LEMMA ShownParts ==
  ASSUME NEW t, NEW c
  PROVE  /\ \A r : r \in Shown(t, c) <=>
              r \in c.rows /\ \A v \in c.pins : \A d \in Later(t, v) : r.key \notin d.keys
         /\ c.pins = {} => Shown(t, c) = c.rows
<1>1. \A r : r \in Shown(t, c) <=>
        r \in c.rows /\ \A v \in c.pins : \A d \in Later(t, v) : r.key \notin d.keys
  BY DEF Shown
<1>2. ASSUME c.pins = {}
      PROVE  Shown(t, c) = c.rows
  <2>1. \A r : r \in Shown(t, c) <=> r \in c.rows
    BY <1>1, <1>2
  <2> QED
    BY <2>1
<1> QED
  BY <1>1, <1>2

\* The delete file a request adds, if any: of the new version, with the
\* request's keys and the files of its cells.
LEMMA AddedParts ==
  ASSUME NEW t \in Tables, NEW c \in Changes
  PROVE  /\ Added(t, c) \subseteq Deletes
         /\ \A d \in Added(t, c) : d.ver = t.ver + 1 /\ d.keys = c.keys
         /\ \A k \in c.keys : \E d \in Added(t, c) : k \in d.keys
         /\ \A x \in c.cells : \E d \in Added(t, c) : x[1] \in d.files
<1> DEFINE fs == {x[1] : x \in c.cells}
           n == [ver |-> t.ver + 1, keys |-> c.keys, files |-> fs]
<1>1. t.ver \in Nat /\ c.keys \subseteq Stmts \cup {Seed} /\ c.cells \subseteq Paths \X (Stmts \cup {Seed})
  BY TableParts DEF Changes
<1>2. fs \in SUBSET Paths /\ \A x \in c.cells : x[1] \in fs
  BY <1>1
<1>3. n \in Deletes /\ n.ver = t.ver + 1 /\ n.keys = c.keys /\ n.files = fs
  BY <1>1, <1>2 DEF Deletes
<1>4. Added(t, c) = {d \in {n} : d.keys # {} \/ d.files # {}}
  BY DEF Added
<1> HIDE DEF n, fs
<1>5. \A d : d \in Added(t, c) <=> d = n /\ (d.keys # {} \/ d.files # {})
  BY <1>4
<1> QED
  BY <1>2, <1>3, <1>5

\* What the catalog makes of a table and a change.
LEMMA ApplyParts ==
  ASSUME NEW t \in Tables, NEW c \in Changes
  PROVE  /\ Apply(t, c) \in Tables
         /\ Apply(t, c).ver = t.ver + 1
         /\ Apply(t, c).files = (t.files \ c.drops) \cup c.adds
         /\ \A r : r \in Apply(t, c).rows <=>
              \/ r \in Shown(t, c)
              \/ r \in t.rows /\ r.file \notin c.drops /\ r.key \notin c.keys
                   /\ <<r.file, r.key>> \notin c.cells
         /\ Apply(t, c).deletes = t.deletes \cup Added(t, c)
<1> DEFINE fs == (t.files \ c.drops) \cup c.adds
           rs == {r \in t.rows : /\ r.file \notin c.drops
                                 /\ r.key \notin c.keys
                                 /\ <<r.file, r.key>> \notin c.cells} \cup Shown(t, c)
           ds == t.deletes \cup Added(t, c)
<1>1. /\ t.ver \in Nat /\ t.files \subseteq Paths /\ t.rows \subseteq Rows
      /\ t.deletes \subseteq Deletes
  BY TableParts
<1>2. c.adds \subseteq Paths /\ c.rows \subseteq Rows
  BY DEF Changes
<1>7. Shown(t, c) \subseteq Rows /\ Added(t, c) \subseteq Deletes
  BY <1>2, ShownParts, AddedParts
<1>3. fs \in SUBSET Paths /\ rs \in SUBSET Rows /\ ds \in SUBSET Deletes /\ t.ver + 1 \in Nat
  BY <1>1, <1>2, <1>7
<1>4. Apply(t, c) = Table(t.ver + 1, fs, rs, ds)
  BY DEF Apply
<1>5. \A r : r \in rs <=>
              \/ r \in Shown(t, c)
              \/ r \in t.rows /\ r.file \notin c.drops /\ r.key \notin c.keys
                   /\ <<r.file, r.key>> \notin c.cells
  OBVIOUS
<1> HIDE DEF fs, rs, ds
<1>6. /\ Apply(t, c) \in Tables /\ Apply(t, c).ver = t.ver + 1
      /\ Apply(t, c).files = fs /\ Apply(t, c).rows = rs /\ Apply(t, c).deletes = ds
  BY <1>3, <1>4, TableType
<1> QED
  BY <1>5, <1>6 DEF fs, ds

\* A part of a table.
LEMMA PartParts ==
  ASSUME NEW t \in Tables, NEW fs \in SUBSET t.files
  PROVE  /\ Part(t, fs) \in Tables /\ Part(t, fs).ver = t.ver /\ Part(t, fs).files = fs
         /\ \A r : r \in Part(t, fs).rows <=> r \in t.rows /\ r.file \in fs
<1> DEFINE rs == {r \in t.rows : r.file \in fs}
<1>1. t.ver \in Nat /\ t.deletes \in SUBSET Deletes /\ fs \in SUBSET Paths /\ rs \in SUBSET Rows
  BY TableParts
<1>2. Part(t, fs) = Table(t.ver, fs, rs, t.deletes)
  BY DEF Part
<1>3. \A r : r \in rs <=> r \in t.rows /\ r.file \in fs
  OBVIOUS
<1> HIDE DEF rs
<1> QED
  BY <1>1, <1>2, <1>3, TableType

\* What a statement may load: the table, or a part of it for a compaction.
LEMMA InputParts ==
  ASSUME TypeOK, NEW s \in Stmts, NEW t \in Inputs(s)
  PROVE  /\ t \in Tables /\ t.ver = table.ver /\ t.files \subseteq table.files
         /\ \A r : r \in t.rows => r \in table.rows
         /\ \A r \in table.rows : r.file \in t.files => r \in t.rows
         /\ kind[s] # "compact" => t = table
         /\ kind[s] = "compact" => \A r \in t.rows : r.file \in t.files
<1>1. table \in Tables
  BY DEF TypeOK
<1>2. CASE kind[s] # "compact"
  <2>1. t = table
    BY <1>2 DEF Inputs
  <2> QED
    BY <1>1, <1>2, <2>1
<1>3. CASE kind[s] = "compact"
  <2>1. PICK fs \in SUBSET table.files : t = Part(table, fs)
    BY <1>3 DEF Inputs
  <2> QED
    BY <1>1, <1>3, <2>1, PartParts
<1> QED
  BY <1>2, <1>3

-----------------------------------------------------------------------------
(* The shapes of a statement's steps. *)

\* The statement ends: what it answers, what its guards delete and what the
\* catalog did with its request.
Closes(s, a, d) ==
  /\ End(s, a, d)
  /\ UNCHANGED kind /\ faults' \in 0..MaxFaults
  /\ \/ a = "ok" /\ pc[s] = "post" /\ Take(s) /\ d = {}
     \/ a = "failed" /\ pc[s] = "post" /\ Take(s) /\ d = {} /\ kind[s] = "compact"
     \/ a = "empty" /\ pc[s] = "plan" /\ NoCommit /\ d = {}
     \/ a = "empty" /\ pc[s] = "load" /\ NoCommit /\ Unmoved(s) /\ d = held[s]
     \/ a = "unknown" /\ pc[s] = "load" /\ NoCommit /\ ~Unmoved(s) /\ d = {}
     \/ /\ a = "failed" /\ pc[s] \in {"load", "prepare", "post"} /\ NoCommit
        /\ unk[s] = {} /\ d = Guarded(s)
     \/ /\ a = "unknown" /\ pc[s] \in {"load", "prepare", "post"} /\ NoCommit
        /\ unk[s] # {} /\ d = IF kind[s] = "rewrite" THEN Guarded(s) ELSE {}
     \/ a = "unknown" /\ pc[s] = "post" /\ Vanish(s) /\ d = {}
     \/ /\ a \in {"failed", "unknown"} /\ pc[s] = "post" /\ "transport" \in Faults
        /\ Vanish(s) /\ d \subseteq Guarded(s)
     \/ /\ a = "cancelled" /\ pc[s] \in {"load", "prepare", "post"} /\ "cancel" \in Faults
        /\ (NoCommit \/ (pc[s] = "post" /\ Vanish(s)))
        /\ d = Guarded(s) \cup held[s]

\* The statement starts over: after a conflict or a refused ticket nothing
\* was applied, after an unknown outcome anything may have been.
Repeats(s, u, h, d) ==
  /\ Again(s, u, h, d)
  /\ attempt[s] < MaxAttempts
  /\ UNCHANGED kind /\ faults' \in 0..MaxFaults
  /\ \/ /\ NoCommit /\ pc[s] \in {"prepare", "post"} /\ u = unk[s] /\ h = held[s]
        /\ d = IF Rewrites(s) THEN Guarded(s) ELSE {}
     \/ /\ Vanish(s) /\ pc[s] = "post" /\ d = {} /\ kind[s] # "compact"
        /\ u = IF unk[s] = {} THEN {loaded[s].ver} ELSE unk[s]
        /\ h = IF kind[s] = "rewrite" THEN Guarded(s) ELSE {}

\* What GiveUp and Retry are, in these terms.
LEMMA GiveUpShape ==
  ASSUME NEW s \in Stmts, GiveUp(s), NoCommit, UNCHANGED kind, faults' \in 0..MaxFaults,
         pc[s] \in {"load", "prepare", "post"}
  PROVE  \E a, d : Closes(s, a, d)
<1>1. CASE unk[s] = {}
  <2>1. Closes(s, "failed", Guarded(s))
    BY <1>1 DEF GiveUp, Closes
  <2> QED
    BY <2>1
<1>2. CASE unk[s] # {}
  <2>1. Closes(s, "unknown", IF kind[s] = "rewrite" THEN Guarded(s) ELSE {})
    BY <1>2 DEF GiveUp, Closes
  <2> QED
    BY <2>1
<1> QED
  BY <1>1, <1>2

LEMMA RetryShape ==
  ASSUME NEW s \in Stmts, Retry(s), NoCommit, UNCHANGED kind, faults' \in 0..MaxFaults,
         pc[s] \in {"prepare", "post"}
  PROVE  \/ \E a, d : Closes(s, a, d)
         \/ \E u, h, d : Repeats(s, u, h, d)
<1>1. CASE attempt[s] < MaxAttempts
  <2>1. Repeats(s, unk[s], held[s], IF Rewrites(s) THEN Guarded(s) ELSE {})
    BY <1>1 DEF Retry, Repeats
  <2> QED
    BY <2>1
<1>2. CASE ~(attempt[s] < MaxAttempts)
  BY <1>2, GiveUpShape DEF Retry
<1> QED
  BY <1>1, <1>2

\* Every step of a statement has one of these shapes.
LEMMA StepShapes ==
  ASSUME NEW s \in Stmts, faults \in 0..MaxFaults, Step(s) \/ Failure(s)
  PROVE  \/ Plan(s) \/ Load(s) \/ Prepare(s) \/ Rebase(s)
         \/ \E a, d : Closes(s, a, d)
         \/ \E u, h, d : Repeats(s, u, h, d)
<1>1. ASSUME NEW f, Fault(f)
      PROVE  faults' \in 0..MaxFaults
  BY <1>1, Bounds DEF Fault
<1>2. NoFault => UNCHANGED kind /\ faults' \in 0..MaxFaults
  BY DEF NoFault
<1>3. CASE PlanNothing(s)
  <2>1. Closes(s, "empty", {})
    BY <1>2, <1>3 DEF PlanNothing, Closes
  <2> QED
    BY <2>1
<1>4. CASE LoadNothing(s)
  <2>1. Closes(s, "empty", held[s])
    BY <1>2, <1>4 DEF LoadNothing, Closes
  <2> QED
    BY <2>1
<1>5. CASE LoadMoved(s)
  <2>1. Closes(s, "unknown", {})
    BY <1>2, <1>5 DEF LoadMoved, Closes
  <2> QED
    BY <2>1
<1>6. CASE LoadReplaced(s)
  BY <1>2, <1>6, GiveUpShape DEF LoadReplaced
<1>7. CASE LoadFails(s)
  BY <1>1, <1>7, GiveUpShape DEF LoadFails
<1>8. CASE PrepareRefused(s)
  BY <1>2, <1>8, GiveUpShape, RetryShape DEF PrepareRefused
<1>9. CASE Commit(s)
  <2>1. Closes(s, "ok", {})
    BY <1>2, <1>9 DEF Commit, Closes
  <2> QED
    BY <2>1
<1>15. CASE CommitUnread(s)
  <2>1. Closes(s, "failed", {})
    BY <1>1, <1>15 DEF CommitUnread, Closes
  <2> QED
    BY <2>1
<1>10. CASE Conflict(s)
  BY <1>2, <1>10, RetryShape DEF Conflict
<1>11. CASE Unauthorized(s)
  BY <1>1, <1>11, GiveUpShape, RetryShape DEF Unauthorized
<1>12. CASE Unknown(s)
  <2>1. pc[s] = "post" /\ Vanish(s) /\ Unsettled(s) /\ UNCHANGED kind /\ faults' \in 0..MaxFaults
    BY <1>1, <1>12 DEF Unknown
  <2>2. CASE attempt[s] < MaxAttempts /\ kind[s] # "compact"
    <3>1. Repeats(s, IF unk[s] = {} THEN {loaded[s].ver} ELSE unk[s],
                  IF kind[s] = "rewrite" THEN Guarded(s) ELSE {}, {})
      BY <2>1, <2>2 DEF Unsettled, Repeats
    <3> QED
      BY <3>1
  <2>3. CASE ~(attempt[s] < MaxAttempts /\ kind[s] # "compact")
    <3>1. Closes(s, "unknown", {})
      BY <2>1, <2>3 DEF Unsettled, Closes
    <3> QED
      BY <3>1
  <2> QED
    BY <2>2, <2>3
<1>13. CASE Transport(s)
  <2>1. /\ pc[s] = "post" /\ Vanish(s) /\ GiveUp(s) /\ UNCHANGED kind
        /\ faults' \in 0..MaxFaults /\ "transport" \in Faults
    BY <1>1, <1>13 DEF Transport, Fault
  <2>2. CASE unk[s] = {}
    <3>1. Closes(s, "failed", Guarded(s))
      BY <2>1, <2>2 DEF GiveUp, Closes
    <3> QED
      BY <3>1
  <2>3. CASE unk[s] # {}
    <3>1. Closes(s, "unknown", IF kind[s] = "rewrite" THEN Guarded(s) ELSE {})
      BY <2>1, <2>3 DEF GiveUp, Closes
    <3> QED
      BY <3>1
  <2> QED
    BY <2>2, <2>3
<1>14. CASE Cancel(s)
  <2>1. /\ End(s, "cancelled", Guarded(s) \cup held[s]) /\ UNCHANGED kind
        /\ pc[s] \in {"load", "prepare", "post"} /\ "cancel" \in Faults
    BY <1>14 DEF Cancel, Fault
  <2>4. NoCommit \/ (pc[s] = "post" /\ Vanish(s))
    <3>1. CASE pc[s] = "post"
      BY <1>14, <3>1 DEF Cancel
    <3>2. CASE pc[s] # "post"
      BY <1>14, <3>2 DEF Cancel
    <3> QED
      BY <3>1, <3>2
  <2>2. faults' \in 0..MaxFaults
    BY <1>1, <1>14 DEF Cancel
  <2>3. Closes(s, "cancelled", Guarded(s) \cup held[s])
    BY <2>1, <2>2, <2>4 DEF Closes
  <2> QED
    BY <2>3
<1> QED
  BY <1>3, <1>4, <1>5, <1>6, <1>7, <1>8, <1>9, <1>10, <1>11, <1>12, <1>13, <1>14, <1>15
  DEF Step, Failure

-----------------------------------------------------------------------------
(* Types and versions, under every fault. *)

\* What an applied request does to the table.
LEMMA TakeEffect ==
  ASSUME TypeOK, NEW s \in Stmts, Take(s)
  PROVE  /\ table' = Apply(table, Change(s)) /\ table' \in Tables
         /\ table'.ver = table.ver + 1 /\ table.ver = base[s]
         /\ applied' = [applied EXCEPT ![s] = applied[s] + 1]
         /\ applied' \in [Stmts -> Nat] /\ late' = late
<1>1. table \in Tables /\ Change(s) \in Changes
  BY ChangeType DEF TypeOK
<1>2. table' = Apply(table, Change(s)) /\ late' = late /\ table.ver = base[s]
      /\ applied' = [applied EXCEPT ![s] = applied[s] + 1]
  BY DEF Take, Accepts
<1>3. table' \in Tables /\ table'.ver = table.ver + 1
  BY <1>1, <1>2, ApplyParts
<1>4. applied' \in [Stmts -> Nat]
  BY <1>2 DEF TypeOK
<1> QED
  BY <1>2, <1>3, <1>4

\* Whatever becomes of a request, the catalog's state is well typed and the
\* table's version does not go back.
LEMMA CatalogTypes ==
  ASSUME TypeOK, NEW s \in Stmts, Take(s) \/ NoCommit \/ Vanish(s)
  PROVE  /\ table' \in Tables /\ applied' \in [Stmts -> Nat] /\ late' \subseteq Requests
         /\ table'.ver >= table.ver
         /\ \A r \in late' : r \in late \/ (r.ver = base[s] /\ r.stmt = s)
<1>1. table \in Tables /\ table.ver \in Nat
  BY TableParts DEF TypeOK
<1>2. CASE Take(s)
  BY <1>1, <1>2, TakeEffect DEF TypeOK
<1>3. CASE NoCommit
  BY <1>1, <1>3 DEF NoCommit, TypeOK
<1>4. CASE late' = late \cup {[stmt |-> s, ver |-> base[s], change |-> Change(s)]}
           /\ UNCHANGED <<table, applied>>
  <2>1. [stmt |-> s, ver |-> base[s], change |-> Change(s)] \in Requests
    BY ChangeType DEF Requests, TypeOK
  <2>2. [stmt |-> s, ver |-> base[s], change |-> Change(s)].ver = base[s]
        /\ [stmt |-> s, ver |-> base[s], change |-> Change(s)].stmt = s
    OBVIOUS
  <2> QED
    BY <1>1, <1>4, <2>1, <2>2 DEF TypeOK
<1> QED
  BY <1>2, <1>3, <1>4 DEF Vanish

\* A request that arrives late.
LEMMA LandEffect ==
  ASSUME TypeOK, NEW r \in late, Land(r)
  PROVE  /\ table' \in Tables /\ applied' \in [Stmts -> Nat]
         /\ late' = late \ {r} /\ r.stmt \in Stmts /\ r.ver \in Nat
         /\ \/ /\ table.ver = r.ver /\ table' = Apply(table, r.change)
               /\ table'.ver = table.ver + 1
               /\ applied' = [applied EXCEPT ![r.stmt] = applied[r.stmt] + 1]
            \/ table.ver # r.ver /\ UNCHANGED <<table, applied>>
         /\ UNCHANGED <<kind, gone, stmtVars, faults>>
<1>1. r.stmt \in Stmts /\ r.ver \in Nat /\ r.change \in Changes
  BY DEF TypeOK, Requests
<1>2. late' = late \ {r} /\ UNCHANGED <<kind, gone, stmtVars, faults>>
  BY DEF Land, NoFault
<1>3. CASE table.ver = r.ver
  <2>1. table' = Apply(table, r.change)
        /\ applied' = [applied EXCEPT ![r.stmt] = applied[r.stmt] + 1]
    BY <1>3 DEF Land
  <2>2. table' \in Tables /\ table'.ver = table.ver + 1
    BY <1>1, <2>1, ApplyParts DEF TypeOK
  <2>3. applied' \in [Stmts -> Nat]
    BY <1>1, <2>1 DEF TypeOK
  <2> QED
    BY <1>1, <1>2, <1>3, <2>1, <2>2, <2>3
<1>4. CASE table.ver # r.ver
  BY <1>1, <1>2, <1>4 DEF Land, TypeOK
<1> QED
  BY <1>3, <1>4

\* The files a guard deletes are the statement's own.
LEMMA GuardedFiles ==
  ASSUME TypeOK, NEW s \in Stmts
  PROVE  Guarded(s) \subseteq {FileOf(s)} /\ Guarded(s) \subseteq Paths
<1>1. FileOf(s) \in Paths
  BY FileOfType DEF TypeOK
<1>2. CASE kind[s] \in {"append", "delta"}
  BY <1>1, <1>2 DEF Guarded
<1>3. CASE kind[s] \notin {"append", "delta"} /\ Rewrites(s) /\ pc[s] \in {"prepare", "post"}
  BY <1>1, <1>3 DEF Guarded
<1>4. CASE kind[s] \notin {"append", "delta"} /\ ~(Rewrites(s) /\ pc[s] \in {"prepare", "post"})
  BY <1>4 DEF Guarded
<1> QED
  BY <1>2, <1>3, <1>4

\* Every step keeps the types.
LEMMA TypeStep ==
  ASSUME TypeOK, NEW s \in Stmts, Step(s) \/ Failure(s)
  PROVE  TypeOK'
<1>1. /\ table \in Tables /\ faults \in 0..MaxFaults /\ kind \in [Stmts -> Kinds]
      /\ Guarded(s) \subseteq Paths /\ held[s] \subseteq Paths
      /\ attempt[s] \in 1..MaxAttempts /\ table.ver \in Nat /\ loaded[s].ver \in Nat
  BY GuardedFiles, TableParts DEF TypeOK
<1>2. CASE Plan(s)
  BY <1>2 DEF Plan, NoCommit, NoFault, TypeOK, Steps
<1>3. CASE Load(s)
  <2>1. PICK t \in Inputs(s) : loaded' = [loaded EXCEPT ![s] = t]
    BY <1>3 DEF Load
  <2>2. t \in Tables
    BY InputParts
  <2> QED
    BY <1>3, <2>1, <2>2, Bounds DEF Load, NoCommit, NoFault, TypeOK, Steps
<1>4. CASE Prepare(s)
  BY <1>1, <1>4 DEF Prepare, NoCommit, NoFault, TypeOK, Steps
<1>5. CASE Rebase(s)
  <2>1. inner[s] + 1 \in 0..MaxInner
    BY <1>5, Bounds DEF Rebase, TypeOK
  <2> QED
    BY <1>5, <2>1 DEF Rebase, NoCommit, NoFault, TypeOK, Steps
<1>7. ASSUME NEW a, NEW d, Closes(s, a, d)
      PROVE  TypeOK'
  <2>1. a \in Answers /\ d \subseteq Paths
    BY <1>1, <1>7 DEF Closes, Answers
  <2>2. Take(s) \/ NoCommit \/ Vanish(s)
    BY <1>7 DEF Closes
  <2>3. table' \in Tables /\ applied' \in [Stmts -> Nat] /\ late' \subseteq Requests
    BY <2>2, CatalogTypes
  <2>4. End(s, a, d) /\ UNCHANGED kind /\ faults' \in 0..MaxFaults
    BY <1>7 DEF Closes
  <2> QED
    BY <2>1, <2>3, <2>4 DEF End, TypeOK, Steps
<1>8. ASSUME NEW u, NEW h, NEW d, Repeats(s, u, h, d)
      PROVE  TypeOK'
  <2>1. u \subseteq Nat /\ h \subseteq Paths /\ d \subseteq Paths
    BY <1>1, <1>8 DEF Repeats, TypeOK
  <2>2. Take(s) \/ NoCommit \/ Vanish(s)
    BY <1>8 DEF Repeats
  <2>3. table' \in Tables /\ applied' \in [Stmts -> Nat] /\ late' \subseteq Requests
    BY <2>2, CatalogTypes
  <2>4. Again(s, u, h, d) /\ UNCHANGED kind /\ faults' \in 0..MaxFaults
        /\ attempt[s] + 1 \in 1..MaxAttempts
    BY <1>1, <1>8, Bounds DEF Repeats
  <2> QED
    BY <2>1, <2>3, <2>4 DEF Again, TypeOK, Steps
<1> QED
  BY <1>1, <1>2, <1>3, <1>4, <1>5, <1>7, <1>8, StepShapes

\* Where a statement stands: no version it holds is ahead of the table, the
\* one its unknown attempt was based on is the one it loaded again, a row
\* delta asks for the version it loaded, and a compaction that goes on knows
\* the outcome of its attempts.
Tracked(s) ==
  /\ pc[s] \in {"prepare", "post"} => loaded[s].ver <= table.ver
  /\ pc[s] = "post" => loaded[s].ver <= base[s] /\ base[s] <= table.ver
  /\ \A v \in unk[s] : v <= table.ver /\ \A w \in unk[s] : w = v
  /\ pc[s] \in {"prepare", "post"} => \A v \in unk[s] : v = loaded[s].ver
  /\ pc[s] = "post" /\ kind[s] \in {"delta", "posdelete"} => base[s] = loaded[s].ver
  /\ pc[s] = "plan" => unk[s] = {} /\ applied[s] = 0
  /\ kind[s] = "compact" => unk[s] = {}
  /\ pc[s] # "done" => answer[s] = "none"

\* A late request is no newer than the table.
LateTracked ==
  \A r \in late : r.ver <= table.ver /\ pc[r.stmt] # "plan"

WriteInv == TypeOK /\ LateTracked /\ \A s \in Stmts : Tracked(s)

\* The numbers of a well typed state.
LEMMA Numbers ==
  ASSUME TypeOK, NEW s \in Stmts
  PROVE  /\ table.ver \in Nat /\ loaded[s].ver \in Nat /\ base[s] \in Nat
         /\ seen[s].ver \in Nat /\ unk[s] \subseteq Nat /\ applied[s] \in Nat
         /\ attempt[s] \in 1..MaxAttempts /\ kind[s] \in Kinds
BY TableParts DEF TypeOK

\* A step of another statement.
LEMMA StaysTracked ==
  ASSUME TypeOK, NEW t \in Stmts, Tracked(t), table'.ver \in Nat, table'.ver >= table.ver,
         pc'[t] = pc[t], loaded'[t] = loaded[t], base'[t] = base[t], unk'[t] = unk[t],
         kind'[t] = kind[t], answer'[t] = answer[t],
         applied'[t] = applied[t] \/ pc[t] # "plan"
  PROVE  Tracked(t)'
<1>1. /\ table.ver \in Nat /\ loaded[t].ver \in Nat /\ base[t] \in Nat /\ unk[t] \subseteq Nat
  BY Numbers
<1> QED
  BY <1>1 DEF Tracked

\* Every step of a statement keeps every statement tracked.
LEMMA TrackedStep ==
  ASSUME WriteInv, NEW s \in Stmts, Step(s) \/ Failure(s)
  PROVE  WriteInv'
<1>1. TypeOK /\ TypeOK' /\ Tracked(s) /\ LateTracked
  BY TypeStep DEF WriteInv
<1>2. /\ table.ver \in Nat /\ loaded[s].ver \in Nat /\ base[s] \in Nat /\ unk[s] \subseteq Nat
      /\ applied[s] \in Nat /\ table'.ver \in Nat /\ faults \in 0..MaxFaults
  BY <1>1, Numbers, TableParts DEF TypeOK
<1>3. ASSUME table'.ver >= table.ver, Tracked(s)', UNCHANGED kind,
             \A r \in late' : \/ r \in late
                              \/ r.ver = base[s] /\ r.stmt = s /\ pc[s] = "post",
             \A t \in Stmts \ {s} :
               /\ pc'[t] = pc[t] /\ loaded'[t] = loaded[t] /\ base'[t] = base[t]
               /\ unk'[t] = unk[t] /\ answer'[t] = answer[t] /\ applied'[t] = applied[t],
             pc'[s] # "plan"
      PROVE  WriteInv'
  <2>1. ASSUME NEW t \in Stmts
        PROVE  Tracked(t)'
    <3>1. CASE t = s
      BY <1>3, <3>1
    <3>2. CASE t # s
      <4>1. Tracked(t)
        BY DEF WriteInv
      <4> QED
        BY <1>1, <1>2, <1>3, <3>2, <4>1, StaysTracked
    <3> QED
      BY <3>1, <3>2
  <2>2. LateTracked'
    <3>1. ASSUME NEW r \in late'
          PROVE  r.ver <= table'.ver /\ pc'[r.stmt] # "plan"
      <4>1. CASE r \in late
        <5>1. r.ver \in Nat /\ r.stmt \in Stmts
          BY <1>1, <4>1 DEF TypeOK, Requests
        <5> QED
          BY <1>1, <1>2, <1>3, <4>1, <5>1 DEF LateTracked
      <4>2. CASE r.ver = base[s] /\ r.stmt = s /\ pc[s] = "post"
        BY <1>1, <1>2, <1>3, <4>2 DEF Tracked
      <4> QED
        BY <1>3, <4>1, <4>2
    <3> QED
      BY <3>1 DEF LateTracked
  <2> QED
    BY <1>1, <2>1, <2>2 DEF WriteInv
<1>4. CASE Plan(s)
  <2>1. table' = table /\ late' = late /\ applied' = applied /\ UNCHANGED kind
    BY <1>4 DEF Plan, NoCommit, NoFault
  <2>2. Tracked(s)' /\ pc'[s] # "plan"
    BY <1>1, <1>2, <1>4, <2>1 DEF Plan, Tracked, TypeOK
  <2> QED
    BY <1>1, <1>2, <1>3, <1>4, <2>1, <2>2 DEF Plan, TypeOK
<1>5. CASE Load(s)
  <2>1. table' = table /\ late' = late /\ applied' = applied /\ UNCHANGED kind
    BY <1>5 DEF Load, NoCommit, NoFault
  <2>4. PICK t \in Inputs(s) : loaded' = [loaded EXCEPT ![s] = t]
    BY <1>5 DEF Load
  <2>2. /\ pc[s] = "load" /\ pc'[s] = "prepare" /\ loaded'[s].ver = table.ver /\ unk' = unk
        /\ answer' = answer /\ Unmoved(s)
    BY <1>1, <1>5, <2>4, InputParts DEF Load, TypeOK
  <2>3. Tracked(s)'
    BY <1>1, <1>2, <2>1, <2>2 DEF Tracked, Unmoved
  <2> QED
    BY <1>1, <1>2, <1>3, <1>5, <2>1, <2>2, <2>3, <2>4 DEF Load, TypeOK
<1>6. CASE Prepare(s)
  <2>1. table' = table /\ late' = late /\ applied' = applied /\ UNCHANGED kind
    BY <1>6 DEF Prepare, NoCommit, NoFault
  <2>2. /\ pc[s] = "prepare" /\ pc'[s] = "post" /\ base'[s] = table.ver /\ unk' = unk
        /\ loaded' = loaded /\ answer' = answer /\ Valid(s)
    BY <1>1, <1>6 DEF Prepare, TypeOK
  <2>3. Tracked(s)'
    BY <1>1, <1>2, <2>1, <2>2 DEF Tracked, Valid
  <2> QED
    BY <1>1, <1>2, <1>3, <1>6, <2>1, <2>2, <2>3 DEF Prepare, TypeOK
<1>7. CASE Rebase(s)
  <2>1. table' = table /\ late' = late /\ applied' = applied /\ UNCHANGED kind
    BY <1>7 DEF Rebase, NoCommit, NoFault
  <2>2. /\ pc[s] = "post" /\ pc'[s] = "prepare" /\ unk' = unk
        /\ loaded' = loaded /\ answer' = answer
    BY <1>1, <1>7 DEF Rebase, TypeOK
  <2>3. Tracked(s)'
    BY <1>1, <1>2, <2>1, <2>2 DEF Tracked
  <2> QED
    BY <1>1, <1>2, <1>3, <1>7, <2>1, <2>2, <2>3 DEF Rebase, TypeOK
<1>8. ASSUME NEW a, NEW d, End(s, a, d), table'.ver >= table.ver, UNCHANGED kind,
             \A t \in Stmts \ {s} : applied'[t] = applied[t],
             \A r \in late' : r \in late \/ (r.ver = base[s] /\ r.stmt = s /\ pc[s] = "post")
      PROVE  WriteInv'
  <2>1. pc'[s] = "done" /\ unk' = unk
    BY <1>1, <1>8 DEF End, TypeOK
  <2>2. Tracked(s)'
    BY <1>1, <1>2, <1>8, <2>1 DEF Tracked
  <2> QED
    BY <1>1, <1>3, <1>8, <2>1, <2>2 DEF End, TypeOK
<1>10. ASSUME NEW a, NEW d, Closes(s, a, d)
       PROVE  WriteInv'
  <2>1. End(s, a, d) /\ UNCHANGED kind
    BY <1>10 DEF Closes
  <2>2. NoCommit \/ (pc[s] = "post" /\ (Take(s) \/ Vanish(s)))
    BY <1>10 DEF Closes
  <2>3. Take(s) \/ NoCommit \/ Vanish(s)
    BY <2>2
  <2>4. table'.ver >= table.ver
    BY <1>1, <2>3, CatalogTypes
  <2>5. \A t \in Stmts \ {s} : applied'[t] = applied[t]
    BY <1>1, <2>3 DEF Take, NoCommit, Vanish, TypeOK
  <2>6. \A r \in late' : r \in late \/ (r.ver = base[s] /\ r.stmt = s /\ pc[s] = "post")
    BY <1>1, <2>2, CatalogTypes DEF NoCommit
  <2> QED
    BY <1>8, <2>1, <2>4, <2>5, <2>6
<1>11. ASSUME NEW u, NEW h, NEW d, Repeats(s, u, h, d)
       PROVE  WriteInv'
  <2>1. Again(s, u, h, d) /\ UNCHANGED kind /\ pc[s] \in {"prepare", "post"}
    BY <1>11 DEF Repeats
  <2>2. NoCommit \/ (pc[s] = "post" /\ Vanish(s))
    BY <1>11 DEF Repeats
  <2>3. Take(s) \/ NoCommit \/ Vanish(s)
    BY <2>2
  <2>4. table'.ver >= table.ver
    BY <1>1, <2>3, CatalogTypes
  <2>5. \A t \in Stmts \ {s} : applied'[t] = applied[t]
    BY <1>1, <2>3 DEF Take, NoCommit, Vanish, TypeOK
  <2>6. \A r \in late' : r \in late \/ (r.ver = base[s] /\ r.stmt = s /\ pc[s] = "post")
    BY <1>1, <2>2, CatalogTypes DEF NoCommit
  <2>7. u = unk[s] \/ (u = {loaded[s].ver} /\ kind[s] # "compact")
    BY <1>11 DEF Repeats
  <2>8. pc'[s] = "load" /\ unk'[s] = u /\ answer' = answer
    BY <1>1, <2>1 DEF Again, TypeOK
  <2>9. Tracked(s)'
    BY <1>1, <1>2, <2>1, <2>4, <2>7, <2>8 DEF Tracked
  <2> QED
    BY <1>1, <1>3, <2>1, <2>4, <2>5, <2>6, <2>8, <2>9 DEF Again, TypeOK
<1> QED
  BY <1>2, <1>4, <1>5, <1>6, <1>7, <1>10, <1>11, StepShapes

\* A request that arrives late keeps every statement tracked.
LEMMA TrackedLand ==
  ASSUME WriteInv, NEW r \in late, Land(r)
  PROVE  WriteInv'
<1>1. TypeOK /\ LateTracked /\ table \in Tables /\ table.ver \in Nat
  BY TableParts DEF WriteInv, TypeOK
<1>2. /\ table' \in Tables /\ applied' \in [Stmts -> Nat]
      /\ late' = late \ {r} /\ UNCHANGED <<kind, gone, stmtVars, faults>>
      /\ table'.ver >= table.ver /\ table'.ver \in Nat
      /\ \A t \in Stmts : applied'[t] = applied[t] \/ t = r.stmt
  BY <1>1, LandEffect DEF TypeOK
<1>3. TypeOK'
  BY <1>1, <1>2 DEF TypeOK, stmtVars
<1>4. LateTracked'
  <2>1. \A q \in late : q.ver \in Nat
    BY <1>1 DEF TypeOK, Requests
  <2> QED
    BY <1>1, <1>2, <2>1 DEF LateTracked, stmtVars
<1>5. ASSUME NEW t \in Stmts
      PROVE  Tracked(t)'
  <2>1. applied'[t] = applied[t] \/ pc[t] # "plan"
    BY <1>1, <1>2 DEF LateTracked
  <2>2. Tracked(t)
    BY DEF WriteInv
  <2> QED
    BY <1>1, <1>2, <2>1, <2>2, StaysTracked DEF stmtVars
<1> QED
  BY <1>3, <1>4, <1>5 DEF WriteInv

\* The first state.
LEMMA WriteInitInv == Init => WriteInv
<1> SUFFICES ASSUME Init PROVE WriteInv
  OBVIOUS
<1>1. table \in Tables /\ table.ver = 0
  BY FirstTables DEF Init
<1>2. kind \in [Stmts -> Kinds]
  BY WriteAssumption DEF Init
<1>3. TypeOK
  BY <1>1, <1>2, Bounds DEF Init, TypeOK, Steps, Answers
<1>4. \A s \in Stmts : Tracked(s)
  BY DEF Init, Tracked
<1>5. LateTracked
  BY DEF Init, LateTracked
<1> QED
  BY <1>3, <1>4, <1>5 DEF WriteInv

\* Stuttering.
LEMMA WriteStutterInv == WriteInv /\ UNCHANGED vars => WriteInv'
<1> SUFFICES ASSUME WriteInv, UNCHANGED vars PROVE WriteInv'
  OBVIOUS
<1>1. TypeOK' /\ LateTracked'
  BY DEF WriteInv, vars, stmtVars, TypeOK, LateTracked
<1>2. \A s \in Stmts : Tracked(s)'
  BY DEF WriteInv, vars, stmtVars, Tracked
<1> QED
  BY <1>1, <1>2 DEF WriteInv

\* Every step.
LEMMA WriteNextInv == WriteInv /\ [Next]_vars => WriteInv'
BY TrackedStep, TrackedLand, WriteStutterInv DEF Next

LEMMA WriteInvariant == Spec => []WriteInv
BY WriteInitInv, WriteNextInv, PTL DEF Spec

\* The state is well typed: the attempts and the retries stay within their
\* bounds (commit_with_retry, commit_rewrite_with_retry, Transaction::commit).
THEOREM WriteTypes == Spec => []TypeOK
<1>1. WriteInv => TypeOK
  BY DEF WriteInv
<1> QED
  BY <1>1, WriteInvariant, PTL

-----------------------------------------------------------------------------
(* Without late requests: at most one application, for every mix. *)

\* The catalog has moved past the attempt whose outcome is unknown.
MovedOn(s) == unk[s] # {} /\ \A v \in unk[s] : v < table.ver

\* A statement that was applied has ended, or is about to find that the table
\* moved.
Once ==
  /\ late = {}
  /\ \A s \in Stmts : /\ applied[s] <= 1
                      /\ applied[s] = 1 => \/ pc[s] = "done"
                                           \/ pc[s] = "load" /\ MovedOn(s)

\* A statement that may still send a request has not been applied.
LEMMA NotYetApplied ==
  ASSUME WriteInv, Once, NEW s \in Stmts,
         pc[s] \in {"plan", "prepare", "post"} \/ (pc[s] = "load" /\ (Unmoved(s) \/ unk[s] = {}))
  PROVE  applied[s] = 0
<1>1. applied[s] \in Nat /\ table.ver \in Nat /\ unk[s] \subseteq Nat
  BY Numbers DEF WriteInv
<1>2. applied[s] # 1
  BY <1>1 DEF Once, MovedOn, Unmoved
<1> QED
  BY <1>1, <1>2 DEF Once

\* A step of another statement.
LEMMA StaysOnce ==
  ASSUME WriteInv, Once, NEW t \in Stmts, table'.ver \in Nat, table'.ver >= table.ver,
         pc'[t] = pc[t], unk'[t] = unk[t], applied'[t] = applied[t]
  PROVE  /\ applied'[t] <= 1
         /\ applied'[t] = 1 => pc'[t] = "done" \/ (pc'[t] = "load" /\ MovedOn(t)')
<1>1. table.ver \in Nat /\ unk[t] \subseteq Nat
  BY Numbers DEF WriteInv
<1> QED
  BY <1>1 DEF Once, MovedOn

\* Every step of a statement.
LEMMA OnceStep ==
  ASSUME WriteInv, WriteInv', Once, "late" \notin Faults, NEW s \in Stmts, Step(s) \/ Failure(s)
  PROVE  Once'
<1>1. TypeOK /\ TypeOK' /\ Tracked(s)
  BY DEF WriteInv
<1>2. /\ table.ver \in Nat /\ loaded[s].ver \in Nat /\ base[s] \in Nat /\ unk[s] \subseteq Nat
      /\ applied[s] \in Nat /\ applied'[s] \in Nat /\ table'.ver \in Nat
      /\ faults \in 0..MaxFaults
  BY <1>1, Numbers, TableParts DEF TypeOK
<1>3. Vanish(s) => Take(s) \/ NoCommit
  BY DEF Vanish
<1>4. ASSUME late' = {}, table'.ver >= table.ver, applied'[s] <= 1,
             applied'[s] = 1 => pc'[s] = "done" \/ (pc'[s] = "load" /\ MovedOn(s)'),
             \A t \in Stmts \ {s} :
               pc'[t] = pc[t] /\ unk'[t] = unk[t] /\ applied'[t] = applied[t]
      PROVE  Once'
  <2>1. ASSUME NEW t \in Stmts
        PROVE  /\ applied'[t] <= 1
               /\ applied'[t] = 1 => pc'[t] = "done" \/ (pc'[t] = "load" /\ MovedOn(t)')
    <3>1. CASE t = s
      BY <1>4, <3>1
    <3>2. CASE t # s
      BY <1>2, <1>4, <3>2, StaysOnce
    <3> QED
      BY <3>1, <3>2
  <2> QED
    BY <1>4, <2>1 DEF Once
<1>5. CASE Plan(s) \/ Load(s) \/ Prepare(s) \/ Rebase(s)
  <2>1. table' = table /\ late' = late /\ applied' = applied
    BY <1>5 DEF Plan, Load, Prepare, Rebase, NoCommit
  <2>2. applied[s] = 0
    BY <1>5, NotYetApplied DEF Plan, Load, Prepare, Rebase
  <2>3. \A t \in Stmts \ {s} : pc'[t] = pc[t] /\ unk'[t] = unk[t]
    BY <1>1, <1>5 DEF Plan, Load, Prepare, Rebase, TypeOK
  <2> QED
    BY <1>2, <1>4, <2>1, <2>2, <2>3 DEF Once
<1>7. ASSUME NEW a, NEW d, Closes(s, a, d)
      PROVE  Once'
  <2>1. NoCommit \/ (pc[s] = "post" /\ Take(s))
    BY <1>3, <1>7 DEF Closes
  <2>2. End(s, a, d)
    BY <1>7 DEF Closes
  <2>3. pc'[s] = "done" /\ \A t \in Stmts \ {s} : pc'[t] = pc[t] /\ unk'[t] = unk[t]
    BY <1>1, <2>2 DEF End, TypeOK
  <2>4. CASE NoCommit
    BY <1>2, <1>4, <2>3, <2>4 DEF NoCommit, Once
  <2>5. CASE pc[s] = "post" /\ Take(s)
    <3>1. applied[s] = 0
      BY <2>5, NotYetApplied
    <3>2. /\ table'.ver = table.ver + 1 /\ late' = late
          /\ applied' = [applied EXCEPT ![s] = applied[s] + 1]
      BY <1>1, <2>5, TakeEffect
    <3>3. applied'[s] = 1 /\ \A t \in Stmts \ {s} : applied'[t] = applied[t]
      BY <1>1, <3>1, <3>2 DEF TypeOK
    <3> QED
      BY <1>2, <1>4, <2>3, <3>2, <3>3 DEF Once
  <2> QED
    BY <2>1, <2>4, <2>5
<1>8. ASSUME NEW u, NEW h, NEW d, Repeats(s, u, h, d)
      PROVE  Once'
  <2>1. /\ Again(s, u, h, d) /\ pc[s] \in {"prepare", "post"}
    BY <1>8 DEF Repeats
  <2>2. applied[s] = 0
    BY <2>1, NotYetApplied
  <2>3. pc'[s] = "load" /\ unk'[s] = u
        /\ \A t \in Stmts \ {s} : pc'[t] = pc[t] /\ unk'[t] = unk[t]
    BY <1>1, <2>1 DEF Again, TypeOK
  <2>4. CASE NoCommit
    BY <1>2, <1>4, <2>2, <2>3, <2>4 DEF NoCommit, Once
  <2>5. CASE ~NoCommit
    <3>1. /\ pc[s] = "post" /\ Take(s)
          /\ u = IF unk[s] = {} THEN {loaded[s].ver} ELSE unk[s]
      BY <1>3, <1>8, <2>5 DEF Repeats
    <3>2. /\ table'.ver = table.ver + 1 /\ late' = late /\ table.ver = base[s]
          /\ applied' = [applied EXCEPT ![s] = applied[s] + 1]
      BY <1>1, <3>1, TakeEffect
    <3>3. applied'[s] = 1 /\ \A t \in Stmts \ {s} : applied'[t] = applied[t]
      BY <1>1, <2>2, <3>2 DEF TypeOK
    <3>4. u # {} /\ \A v \in u : v = loaded[s].ver
      BY <1>1, <3>1 DEF Tracked
    <3>5. loaded[s].ver <= base[s]
      BY <1>1, <3>1 DEF Tracked
    <3>6. MovedOn(s)'
      BY <1>2, <2>3, <3>2, <3>4, <3>5 DEF MovedOn
    <3> QED
      BY <1>2, <1>4, <2>3, <3>2, <3>3, <3>6 DEF Once
  <2> QED
    BY <2>4, <2>5
<1> QED
  BY <1>2, <1>5, <1>7, <1>8, StepShapes

\* The invariant without late requests.
LEMMA OnceNext ==
  ASSUME "late" \notin Faults
  PROVE  WriteInv /\ Once /\ [Next]_vars => (WriteInv /\ Once)'
<1> SUFFICES ASSUME WriteInv, Once, [Next]_vars PROVE (WriteInv /\ Once)'
  OBVIOUS
<1>1. WriteInv'
  BY WriteNextInv
<1>2. CASE UNCHANGED vars
  BY <1>1, <1>2 DEF vars, stmtVars, Once, MovedOn
<1>3. ASSUME NEW s \in Stmts, Step(s) \/ Failure(s)
      PROVE  Once'
  BY <1>1, <1>3, OnceStep
<1>4. ASSUME NEW r \in late
      PROVE  Once'
  BY <1>4 DEF Once
<1> QED
  BY <1>1, <1>2, <1>3, <1>4 DEF Next

LEMMA OnceInit == Init => Once
BY DEF Init, Once

LEMMA OnceInvariant ==
  ASSUME "late" \notin Faults
  PROVE  Spec => [](WriteInv /\ Once)
BY OnceInit, WriteInitInv, OnceNext, PTL DEF Spec

\* If no request is applied after its caller gave up on it, every statement of
\* every mix is applied at most once, whatever else fails: after an unknown
\* outcome the next attempt goes on only if the table has not moved
\* (commit_with_retry, commit_rewrite_with_retry).
THEOREM AppliedOnceUnlessLate ==
  ASSUME "late" \notin Faults
  PROVE  Spec => []AppliedOnce
<1>1. Once => AppliedOnce
  BY DEF Once, AppliedOnce
<1> QED
  BY <1>1, OnceInvariant, PTL

-----------------------------------------------------------------------------
(* The answers, when a lost answer is always reported as an unknown outcome. *)

\* Every step keeps the answers true.
LEMMA AnswersStep ==
  ASSUME WriteInv, WriteInv', Once, AnswersAreTrue, "late" \notin Faults,
         "transport" \notin Faults, NEW s \in Stmts, Step(s) \/ Failure(s)
  PROVE  AnswersAreTrue'
<1>1. TypeOK /\ TypeOK' /\ Tracked(s)
  BY DEF WriteInv
<1>2. faults \in 0..MaxFaults
  BY <1>1 DEF TypeOK
<1>3. Vanish(s) => Take(s) \/ NoCommit
  BY DEF Vanish
<1>4. ASSUME \A t \in Stmts \ {s} : answer'[t] = answer[t] /\ applied'[t] = applied[t],
             answer'[s] = "ok" => applied'[s] = 1,
             answer'[s] = "empty" => applied'[s] = 0,
             answer'[s] = "failed" => applied'[s] = 0 \/ kind[s] = "compact",
             kind' = kind
      PROVE  AnswersAreTrue'
  BY <1>4 DEF AnswersAreTrue
<1>5. CASE Plan(s) \/ Load(s) \/ Prepare(s) \/ Rebase(s)
  <2>1. applied' = applied /\ answer' = answer /\ kind' = kind
    BY <1>5 DEF Plan, Load, Prepare, Rebase, NoCommit, NoFault
  <2> QED
    BY <2>1 DEF AnswersAreTrue
<1>7. ASSUME NEW a, NEW d, Closes(s, a, d)
      PROVE  AnswersAreTrue'
  <2>1. End(s, a, d) /\ kind' = kind
    BY <1>7 DEF Closes
  <2>2. answer'[s] = a /\ \A t \in Stmts \ {s} : answer'[t] = answer[t]
    BY <1>1, <2>1 DEF End, TypeOK
  <2>3. CASE NoCommit
    <3>1. applied' = applied
      BY <2>3 DEF NoCommit
    <3>2. a # "ok" \/ (pc[s] = "post" /\ Take(s))
      BY <1>7 DEF Closes
    <3>3. ASSUME a \in {"failed", "empty"}, ~Take(s)
          PROVE  applied[s] = 0
      <4>1. \/ pc[s] \in {"plan", "prepare", "post"}
            \/ pc[s] = "load" /\ (Unmoved(s) \/ unk[s] = {})
        BY <1>7, <3>3 DEF Closes
      <4> QED
        BY <4>1, NotYetApplied
    <3>4. ~Take(s)
      <4>1. SUFFICES ASSUME Take(s) PROVE FALSE
        OBVIOUS
      <4>2. table'.ver = table.ver + 1 /\ table.ver \in Nat
        BY <1>1, <4>1, TakeEffect, Numbers
      <4> QED
        BY <2>3, <4>2 DEF NoCommit
    <3> QED
      BY <1>4, <2>1, <2>2, <3>1, <3>2, <3>3, <3>4
  <2>4. CASE ~NoCommit
    <3>1. pc[s] = "post" /\ Take(s) /\ a # "empty" /\ (a = "failed" => kind[s] = "compact")
      BY <1>3, <1>7, <2>4 DEF Closes
    <3>2. applied[s] = 0
      BY <3>1, NotYetApplied
    <3>3. applied' = [applied EXCEPT ![s] = applied[s] + 1]
      BY <1>1, <3>1, TakeEffect
    <3>4. applied'[s] = 1 /\ \A t \in Stmts \ {s} : applied'[t] = applied[t]
      BY <1>1, <3>2, <3>3 DEF TypeOK
    <3> QED
      BY <1>4, <2>1, <2>2, <3>1, <3>4
  <2> QED
    BY <2>3, <2>4
<1>8. ASSUME NEW u, NEW h, NEW d, Repeats(s, u, h, d)
      PROVE  AnswersAreTrue'
  <2>1. Again(s, u, h, d) /\ pc[s] \in {"prepare", "post"} /\ kind' = kind
    BY <1>8 DEF Repeats
  <2>2. answer' = answer /\ answer[s] = "none"
    BY <1>1, <2>1 DEF Again, Tracked
  <2>3. Take(s) \/ NoCommit
    BY <1>3, <1>8 DEF Repeats
  <2>4. \A t \in Stmts \ {s} : applied'[t] = applied[t]
    BY <1>1, <2>3 DEF Take, NoCommit, TypeOK
  <2> QED
    BY <1>4, <2>1, <2>2, <2>4
<1> QED
  BY <1>2, <1>5, <1>7, <1>8, StepShapes

\* If no request is applied late and the connection never fails without an
\* answer, every client of every mix is told the truth: ok means applied once,
\* an error other than an unknown outcome means not applied (UnknownOutcome),
\* but for a compaction whose reload after the commit fails.
THEOREM AnswersAlwaysTrue ==
  ASSUME "late" \notin Faults, "transport" \notin Faults
  PROVE  Spec => []AnswersAreTrue
<1>1. Init => AnswersAreTrue
  BY DEF Init, AnswersAreTrue
<1>2. WriteInv /\ WriteInv' /\ Once /\ AnswersAreTrue /\ [Next]_vars => AnswersAreTrue'
  <2> SUFFICES ASSUME WriteInv, WriteInv', Once, AnswersAreTrue, [Next]_vars
               PROVE  AnswersAreTrue'
    OBVIOUS
  <2>1. CASE UNCHANGED vars
    BY <2>1 DEF vars, stmtVars, AnswersAreTrue
  <2>2. ASSUME NEW s \in Stmts, Step(s) \/ Failure(s)
        PROVE  AnswersAreTrue'
    BY <2>2, AnswersStep
  <2>3. ASSUME NEW r \in late
        PROVE  AnswersAreTrue'
    BY <2>3 DEF Once
  <2> QED
    BY <2>1, <2>2, <2>3 DEF Next
<1> QED
  BY <1>1, <1>2, OnceInvariant, PTL DEF Spec

-----------------------------------------------------------------------------
(* The files. *)

\* Who wrote a file.
Owner(f) == f[1]

\* A file of the table is the first one or belongs to an applied statement;
\* what a statement that goes on has lost, or holds back, is of an earlier
\* attempt of its rewrite.
FilesTracked ==
  /\ \A f \in table.files : f = <<Seed, 0>> \/ (Owner(f) \in Stmts /\ applied[Owner(f)] = 1)
  /\ \A f \in gone : Owner(f) \in Stmts
  /\ \A s \in Stmts : \A f \in gone :
       Owner(f) = s /\ pc[s] # "done" => Rewrites(s) /\ f[2] < attempt[s]
  /\ \A s \in Stmts : \A f \in held[s] :
       Owner(f) = s /\ kind[s] = "rewrite" /\ f[2] < attempt[s]

\* A statement that was not applied has no file in the table, and the file it
\* may still add is not deleted.
LEMMA NotApplied ==
  ASSUME WriteInv, FilesTracked, NEW s \in Stmts, applied[s] = 0
  PROVE  /\ \A f \in table.files : Owner(f) # s
         /\ pc[s] # "done" => FileOf(s) \notin gone
<1>1. s # Seed /\ attempt[s] \in Nat
  BY WriteAssumption, Numbers DEF WriteInv
<1>2. \A f \in table.files : Owner(f) # s
  BY <1>1 DEF FilesTracked, Owner
<1>3. Owner(FileOf(s)) = s /\ (Rewrites(s) => FileOf(s)[2] = attempt[s])
  BY DEF FileOf, Owner
<1>4. pc[s] # "done" => FileOf(s) \notin gone
  BY <1>1, <1>3 DEF FilesTracked
<1> QED
  BY <1>2, <1>4

\* Applying the request of a statement adds no file but its own.
LEMMA AppliedFiles ==
  ASSUME TypeOK, NEW s \in Stmts, table' = Apply(table, Change(s))
  PROVE  table'.files \subseteq table.files \cup {FileOf(s)}
<1>1. table \in Tables /\ Change(s) \in Changes /\ kind[s] \in Kinds
  BY ChangeType DEF TypeOK
<1>2. table'.files = (table.files \ Change(s).drops) \cup Change(s).adds
  BY <1>1, ApplyParts
<1>3. Change(s).adds \subseteq {FileOf(s)}
  BY <1>1, ChangeParts
<1> QED
  BY <1>2, <1>3

\* The catalog applies a request: its statement's files are not deleted.
LEMMA FilesApplied ==
  ASSUME WriteInv, FilesTracked, FilesExist, NEW s \in Stmts, applied[s] = 0, pc[s] # "done",
         table' = Apply(table, Change(s)), applied' = [applied EXCEPT ![s] = applied[s] + 1],
         gone' = gone
  PROVE  /\ \A f \in table'.files :
              f = <<Seed, 0>> \/ (Owner(f) \in Stmts /\ applied'[Owner(f)] = 1)
         /\ FilesExist'
<1>1. table'.files \subseteq table.files \cup {FileOf(s)}
  BY AppliedFiles DEF WriteInv
<1>2. FileOf(s) \notin gone
  BY NotApplied
<1>3. Owner(FileOf(s)) = s
  BY DEF Owner, FileOf
<1>4. applied'[s] = 1 /\ \A t \in Stmts \ {s} : applied'[t] = applied[t]
  BY DEF WriteInv, TypeOK
<1>5. FilesExist'
  BY <1>1, <1>2 DEF FilesExist
<1> QED
  BY <1>1, <1>3, <1>4, <1>5 DEF FilesTracked

\* The files of a guard.
LEMMA GuardedOwn ==
  ASSUME WriteInv, NEW s \in Stmts, NEW f \in Guarded(s)
  PROVE  /\ Owner(f) = s
         /\ Rewrites(s) => f[2] = attempt[s] /\ pc[s] \in {"prepare", "post"}
<1>1. f = FileOf(s)
  BY GuardedFiles DEF WriteInv
<1>2. Rewrites(s) => pc[s] \in {"prepare", "post"}
  <2>1. SUFFICES ASSUME Rewrites(s), pc[s] \notin {"prepare", "post"} PROVE FALSE
    OBVIOUS
  <2> QED
    BY <2>1 DEF Guarded, Rewrites
<1> QED
  BY <1>1, <1>2 DEF FileOf, Owner

\* Files of a statement that was not applied are deleted, and only files of
\* earlier attempts if it goes on.
LEMMA FilesDropped ==
  ASSUME WriteInv, FilesTracked, FilesExist, NEW s \in Stmts, NEW d,
         \A f \in d : Owner(f) = s, d = {} \/ applied[s] = 0,
         table' = table, applied' = applied, kind' = kind, gone' = gone \cup d,
         \A t \in Stmts \ {s} : pc'[t] = pc[t] /\ attempt'[t] = attempt[t] /\ held'[t] = held[t],
         pc'[s] # "done" =>
           /\ pc[s] # "done" /\ attempt'[s] >= attempt[s] /\ attempt'[s] \in Nat
           /\ \A f \in d : Rewrites(s) /\ f[2] < attempt'[s],
         \A f \in held'[s] : Owner(f) = s /\ kind[s] = "rewrite" /\ f[2] < attempt'[s],
         \A f \in gone : f[2] \in Nat
  PROVE  FilesTracked' /\ FilesExist'
<1>1. attempt[s] \in Nat
  BY Numbers DEF WriteInv
<1>2. FilesExist'
  <2>1. CASE d = {}
    BY <2>1 DEF FilesExist
  <2>2. CASE applied[s] = 0
    <3>1. \A f \in table.files : Owner(f) # s
      BY <2>2, NotApplied
    <3> QED
      BY <3>1 DEF FilesExist
  <2> QED
    BY <2>1, <2>2
<1>3. \A f \in table'.files : f = <<Seed, 0>> \/ (Owner(f) \in Stmts /\ applied'[Owner(f)] = 1)
  BY DEF FilesTracked
<1>4. \A f \in gone' : Owner(f) \in Stmts
  BY DEF FilesTracked
<1>5. ASSUME NEW t \in Stmts, NEW f \in gone', Owner(f) = t, pc'[t] # "done"
      PROVE  Rewrites(t)' /\ f[2] < attempt'[t]
  <2>1. CASE t = s
    <3>1. CASE f \in d
      BY <1>5, <2>1, <3>1 DEF Rewrites
    <3>2. CASE f \in gone
      <4>1. Rewrites(s) /\ f[2] < attempt[s] /\ f[2] \in Nat
        BY <1>5, <2>1, <3>2 DEF FilesTracked
      <4> QED
        BY <1>1, <1>5, <2>1, <4>1 DEF Rewrites
    <3> QED
      BY <3>1, <3>2
  <2>2. CASE t # s
    BY <1>5, <2>2 DEF FilesTracked, Rewrites
  <2> QED
    BY <2>1, <2>2
<1>6. \A t \in Stmts : \A f \in held'[t] :
        Owner(f) = t /\ kind'[t] = "rewrite" /\ f[2] < attempt'[t]
  BY DEF FilesTracked
<1> QED
  BY <1>2, <1>3, <1>4, <1>5, <1>6 DEF FilesTracked

\* The number of a path is a number.
LEMMA PathNumber ==
  ASSUME NEW f \in Paths
  PROVE  f[2] \in Nat
BY Bounds DEF Paths

\* Every step of a statement keeps the table's files.
LEMMA FilesStep ==
  ASSUME WriteInv, WriteInv', Once, FilesTracked, FilesExist,
         Faults \cap {"late", "transport", "cancel"} = {},
         NEW s \in Stmts, Step(s) \/ Failure(s)
  PROVE  FilesTracked' /\ FilesExist'
<1>1. TypeOK /\ TypeOK' /\ Tracked(s)
  BY DEF WriteInv
<1>2. /\ faults \in 0..MaxFaults /\ attempt[s] \in Nat
      /\ (\A f \in gone : f[2] \in Nat) /\ (\A f \in held[s] : f[2] \in Nat)
  BY <1>1, Numbers, PathNumber DEF TypeOK
<1>3. Vanish(s) => Take(s) \/ NoCommit
  BY DEF Vanish
<1>4. CASE Plan(s) \/ Prepare(s) \/ Rebase(s)
  <2>0. PICK d : d = {}
    OBVIOUS
  <2>1. table' = table /\ applied' = applied /\ kind' = kind /\ gone' = gone \cup d
        /\ attempt' = attempt /\ held' = held
    BY <1>4, <2>0 DEF Plan, Prepare, Rebase, NoCommit, NoFault
  <2>2. (\A t \in Stmts \ {s} : pc'[t] = pc[t]) /\ pc[s] # "done"
    BY <1>1, <1>4 DEF Plan, Prepare, Rebase, TypeOK
  <2>3. \A f \in held[s] : Owner(f) = s /\ kind[s] = "rewrite" /\ f[2] < attempt[s]
    BY DEF FilesTracked
  <2>4. /\ \A f \in d : Owner(f) = s /\ kind[s] = "rewrite" /\ f[2] < attempt'[s]
        /\ d = {} \/ applied[s] = 0
        /\ attempt'[s] >= attempt[s] /\ attempt'[s] \in Nat
        /\ \A t \in Stmts \ {s} : attempt'[t] = attempt[t] /\ held'[t] = held[t]
        /\ \A f \in held'[s] : Owner(f) = s /\ kind[s] = "rewrite" /\ f[2] < attempt'[s]
    BY <1>2, <2>0, <2>1, <2>3
  <2> QED
    BY <1>2, <2>1, <2>2, <2>4, FilesDropped DEF Rewrites
<1>5. CASE Load(s)
  <2>1. /\ table' = table /\ applied' = applied /\ kind' = kind /\ gone' = gone \cup held[s]
        /\ attempt' = attempt /\ pc[s] = "load" /\ Unmoved(s)
    BY <1>5 DEF Load, NoCommit, NoFault
  <2>2. (\A t \in Stmts \ {s} : pc'[t] = pc[t] /\ held'[t] = held[t]) /\ held'[s] = {}
    BY <1>1, <1>5 DEF Load, TypeOK
  <2>3. applied[s] = 0
    BY <2>1, NotYetApplied
  <2>4. \A f \in held[s] : Owner(f) = s /\ kind[s] = "rewrite" /\ f[2] < attempt[s]
    BY DEF FilesTracked
  <2> QED
    BY <1>2, <2>1, <2>2, <2>3, <2>4, FilesDropped DEF Rewrites
<1>6. ASSUME pc[s] = "post", table' = Apply(table, Change(s)), kind' = kind,
             applied' = [applied EXCEPT ![s] = applied[s] + 1], gone' = gone,
             \A t \in Stmts \ {s} : pc'[t] = pc[t] /\ attempt'[t] = attempt[t] /\ held'[t] = held[t],
             attempt'[s] \in {attempt[s], attempt[s] + 1},
             \A f \in held'[s] : Owner(f) = s /\ kind[s] = "rewrite" /\ f[2] < attempt'[s]
      PROVE  FilesTracked' /\ FilesExist'
  <2>1. applied[s] = 0
    BY <1>6, NotYetApplied
  <2>2. /\ \A f \in table'.files :
             f = <<Seed, 0>> \/ (Owner(f) \in Stmts /\ applied'[Owner(f)] = 1)
        /\ FilesExist'
    BY <1>6, <2>1, FilesApplied
  <2>3. ASSUME NEW t \in Stmts, NEW f \in gone', Owner(f) = t, pc'[t] # "done"
        PROVE  Rewrites(t)' /\ f[2] < attempt'[t]
    <3>1. CASE t = s
      BY <1>2, <1>6, <2>3, <3>1 DEF FilesTracked, Rewrites
    <3>2. CASE t # s
      BY <1>6, <2>3, <3>2 DEF FilesTracked, Rewrites
    <3> QED
      BY <3>1, <3>2
  <2>4. \A t \in Stmts : \A f \in held'[t] :
          Owner(f) = t /\ kind'[t] = "rewrite" /\ f[2] < attempt'[t]
    BY <1>6 DEF FilesTracked
  <2>5. \A f \in gone' : Owner(f) \in Stmts
    BY <1>6 DEF FilesTracked
  <2> QED
    BY <2>2, <2>3, <2>4, <2>5 DEF FilesTracked
<1>8. ASSUME NEW a, NEW d, Closes(s, a, d)
      PROVE  FilesTracked' /\ FilesExist'
  <2>1. End(s, a, d) /\ kind' = kind
    BY <1>8 DEF Closes
  <2>2. /\ gone' = gone \cup d /\ attempt' = attempt /\ held'[s] = {} /\ pc'[s] = "done"
        /\ \A t \in Stmts \ {s} : pc'[t] = pc[t] /\ held'[t] = held[t]
    BY <1>1, <2>1 DEF End, TypeOK
  <2>3. CASE ~NoCommit
    <3>1. pc[s] = "post" /\ Take(s) /\ d = {}
      BY <1>3, <1>8, <2>3 DEF Closes
    <3>2. /\ table' = Apply(table, Change(s))
          /\ applied' = [applied EXCEPT ![s] = applied[s] + 1]
      BY <1>1, <3>1, TakeEffect
    <3> QED
      BY <1>6, <2>1, <2>2, <3>1, <3>2
  <2>4. CASE NoCommit
    <3>1. d = {} \/ d = held[s] \/ d = Guarded(s)
      BY <1>8 DEF Closes
    <3>2. \A f \in d : Owner(f) = s
      BY <3>1, GuardedOwn DEF FilesTracked
    <3>3. d = {} \/ applied[s] = 0
      <4>1. \/ d = {}
            \/ pc[s] \in {"prepare", "post"}
            \/ pc[s] = "load" /\ (Unmoved(s) \/ unk[s] = {})
            \/ pc[s] = "load" /\ kind[s] = "rewrite" /\ d = Guarded(s)
        BY <1>8 DEF Closes
      <4>2. pc[s] = "load" /\ kind[s] = "rewrite" => Guarded(s) = {}
        BY GuardedOwn DEF Rewrites
      <4> QED
        BY <4>1, <4>2, NotYetApplied
    <3>4. table' = table /\ applied' = applied
      BY <2>4 DEF NoCommit
    <3> QED
      BY <1>2, <2>1, <2>2, <3>2, <3>3, <3>4, FilesDropped
  <2> QED
    BY <2>3, <2>4
<1>9. ASSUME NEW u, NEW h, NEW d, Repeats(s, u, h, d)
      PROVE  FilesTracked' /\ FilesExist'
  <2>1. Again(s, u, h, d) /\ kind' = kind /\ pc[s] \in {"prepare", "post"}
    BY <1>9 DEF Repeats
  <2>2. /\ gone' = gone \cup d /\ attempt'[s] = attempt[s] + 1 /\ held'[s] = h /\ pc'[s] = "load"
        /\ \A t \in Stmts \ {s} : pc'[t] = pc[t] /\ held'[t] = held[t] /\ attempt'[t] = attempt[t]
    BY <1>1, <2>1 DEF Again, TypeOK
  <2>3. applied[s] = 0
    BY <2>1, NotYetApplied
  <2>4. \A f \in Guarded(s) :
          Owner(f) = s /\ (Rewrites(s) => f[2] < attempt[s] + 1)
    BY <1>2, GuardedOwn
  <2>5. \A f \in held[s] : Owner(f) = s /\ kind[s] = "rewrite" /\ f[2] < attempt[s] + 1
    BY <1>2 DEF FilesTracked
  <2>6. \A f \in h : Owner(f) = s /\ kind[s] = "rewrite" /\ f[2] < attempt[s] + 1
    BY <1>9, <2>4, <2>5 DEF Repeats, Rewrites
  <2>7. \A f \in d : Owner(f) = s /\ Rewrites(s) /\ f[2] < attempt[s] + 1
    BY <1>9, <2>4 DEF Repeats
  <2>8. CASE ~NoCommit
    <3>1. pc[s] = "post" /\ Take(s) /\ d = {}
      BY <1>3, <1>9, <2>8 DEF Repeats
    <3>2. /\ table' = Apply(table, Change(s))
          /\ applied' = [applied EXCEPT ![s] = applied[s] + 1]
      BY <1>1, <3>1, TakeEffect
    <3> QED
      BY <1>6, <2>1, <2>2, <2>6, <3>1, <3>2
  <2>9. CASE NoCommit
    <3>1. table' = table /\ applied' = applied
      BY <2>9 DEF NoCommit
    <3> QED
      BY <1>2, <2>1, <2>2, <2>3, <2>6, <2>7, <3>1, FilesDropped
  <2> QED
    BY <2>8, <2>9
<1> QED
  BY <1>2, <1>4, <1>5, <1>8, <1>9, StepShapes

\* If requests are neither applied late nor lost without an answer and no
\* statement is cancelled, no cleanup guard ever deletes a file the table
\* names, whatever the mix: an attempt of unknown outcome keeps its files
\* until the table is seen unmoved (WriteCleanupGuard, keep_if_outcome_unknown).
THEOREM FilesAlwaysExist ==
  ASSUME Faults \cap {"late", "transport", "cancel"} = {}
  PROVE  Spec => []FilesExist
<1>1. "late" \notin Faults
  OBVIOUS
<1>2. Init => FilesTracked /\ FilesExist
  BY FirstTables DEF Init, FilesTracked, FilesExist
<1>3. WriteInv /\ WriteInv' /\ Once /\ FilesTracked /\ FilesExist /\ [Next]_vars
        => FilesTracked' /\ FilesExist'
  <2> SUFFICES ASSUME WriteInv, WriteInv', Once, FilesTracked, FilesExist, [Next]_vars
               PROVE  FilesTracked' /\ FilesExist'
    OBVIOUS
  <2>1. CASE UNCHANGED vars
    BY <2>1 DEF vars, stmtVars, FilesTracked, FilesExist, Rewrites
  <2>2. ASSUME NEW s \in Stmts, Step(s) \/ Failure(s)
        PROVE  FilesTracked' /\ FilesExist'
    BY <2>2, FilesStep
  <2>3. ASSUME NEW r \in late
        PROVE  FilesTracked' /\ FilesExist'
    BY <2>3 DEF Once
  <2> QED
    BY <2>1, <2>2, <2>3 DEF Next
<1> QED
  BY <1>1, <1>2, <1>3, OnceInvariant, PTL DEF Spec

-----------------------------------------------------------------------------
(* The rows, when a rewrite runs beside INSERTs only. *)

\* A file or a key x is known: it was there first, or its statement was
\* applied. An applied count a is given so that the past can be compared.
Known(x, a) == x = Seed \/ a[x] >= 1

\* A snapshot is neat: its rows live in its files, have a key each, and come
\* from statements that were applied.
Neat(t, a) ==
  /\ \A r \in t.rows : r.file \in t.files /\ Known(r.key, a)
  /\ \A f \in t.files : Known(Owner(f), a)
  /\ \A q, r \in t.rows : q.key = r.key => q = r

\* An equality delete that was committed after s loaded the table hides r.
Hidden(s, r) == \E d \in Later(table, loaded[s].ver) : r.key \in d.keys

\* What becomes of the rows a compaction has read until it commits: a row
\* that still lives in one of its files was read and is not hidden; a row
\* that was read is still there, or its file is not, or a later delete is to
\* blame, of its key or in its file. The request is sent to a table that has
\* the files and no such position delete.
Compacts(s) ==
  /\ \A r \in table.rows : r.file \in loaded[s].files => r \in loaded[s].rows /\ ~Hidden(s, r)
  /\ \A r \in loaded[s].rows :
       \/ r \in table.rows \/ r.file \notin table.files \/ Hidden(s, r)
       \/ \E d \in Later(table, loaded[s].ver) : r.file \in d.files
  /\ pc[s] = "post" /\ base[s] = table.ver =>
       /\ loaded[s].files \subseteq table.files
       /\ \A d \in Later(table, loaded[s].ver) : d.files \cap loaded[s].files = {}

\* Every snapshot is neat, between the load of a rewrite and its commit the
\* table only gains rows, in files the rewrite does not know of, and every
\* compaction under way can account for the rows it read.
RowsTracked ==
  /\ kind \in RewritesAmongAppends
  /\ Neat(table, applied)
  /\ \A d \in table.deletes : d.ver <= table.ver
  /\ \A s \in Stmts : kind[s] = "compact" /\ pc[s] \in {"prepare", "post"} => Compacts(s)
  /\ \A s \in Stmts : Neat(seen[s], applied) /\ Neat(loaded[s], applied)
  /\ \A s \in Stmts : kind[s] = "rewrite" /\ pc[s] \in {"prepare", "post"} =>
       /\ loaded[s].rows \subseteq table.rows
       /\ \A r \in table.rows : r.file \in loaded[s].files => r \in loaded[s].rows

\* What was neat stays so as more statements are applied.
LEMMA NeatGrows ==
  ASSUME NEW t \in Tables, NEW a \in [Stmts -> Nat], NEW b \in [Stmts -> Nat],
         \A x \in Stmts : b[x] >= a[x], Neat(t, a)
  PROVE  Neat(t, b)
<1>1. \A x \in Stmts \cup {Seed} : Known(x, a) => Known(x, b)
  BY DEF Known
<1>2. \A r \in t.rows : r.key \in Stmts \cup {Seed}
  BY TableParts, RowParts
<1>3. \A f \in t.files : Owner(f) \in Stmts \cup {Seed}
  BY TableParts DEF Owner, Paths
<1> QED
  BY <1>1, <1>2, <1>3 DEF Neat

\* The files and the rows after a request of each kind.
LEMMA AppliedRows ==
  ASSUME TypeOK, NEW s \in Stmts, table' = Apply(table, Change(s))
  PROVE  /\ kind[s] \in {"append", "delta"} => table'.files = table.files \cup {FileOf(s)}
         /\ kind[s] = "rewrite" => table'.files = (table.files \ loaded[s].files) \cup {FileOf(s)}
         /\ kind[s] = "posdelete" => table'.files = table.files
         /\ kind[s] = "compact" => table'.files = (table.files \ loaded[s].files) \cup {FileOf(s)}
         /\ kind[s] = "append" => table'.rows = table.rows \cup {Row(FileOf(s), s, {s})}
         /\ kind[s] = "rewrite" =>
              \A r : r \in table'.rows <=> \/ r \in Updated(s, loaded[s].rows)
                                           \/ r \in table.rows /\ r.file \notin loaded[s].files
         /\ kind[s] = "delta" =>
              \A r : r \in table'.rows <=> \/ r \in Updated(s, seen[s].rows)
                                           \/ r \in table.rows /\ r.key \notin Keys(seen[s].rows)
         /\ kind[s] = "posdelete" =>
              \A r : r \in table'.rows <=>
                       r \in table.rows /\ <<r.file, r.key>> \notin Cells(seen[s].rows)
         /\ kind[s] = "compact" =>
              \A r : r \in table'.rows <=> \/ r \in Moved(s, loaded[s].rows) /\ ~Hidden(s, r)
                                           \/ r \in table.rows /\ r.file \notin loaded[s].files
<1> DEFINE c == Change(s)
<1>1. table \in Tables /\ c \in Changes /\ kind[s] \in Kinds
  BY ChangeType DEF TypeOK
<1>2. /\ table'.files = (table.files \ c.drops) \cup c.adds
      /\ \A r : r \in table'.rows <=>
           \/ r \in Shown(table, c)
           \/ r \in table.rows /\ r.file \notin c.drops /\ r.key \notin c.keys
                /\ <<r.file, r.key>> \notin c.cells
  BY <1>1, ApplyParts
<1>8. kind[s] # "compact" => Shown(table, c) = c.rows
  BY <1>1, ChangeParts, ShownParts
<1>3. CASE kind[s] = "append"
  <2>1. c.adds = {FileOf(s)} /\ c.rows = {Row(FileOf(s), s, {s})} /\ c.drops = {}
        /\ c.keys = {} /\ c.cells = {}
    BY <1>1, <1>3, ChangeParts
  <2>2. \A r : r \in table'.rows <=> r \in table.rows \cup {Row(FileOf(s), s, {s})}
    BY <1>2, <1>3, <1>8, <2>1
  <2>3. table'.rows = table.rows \cup {Row(FileOf(s), s, {s})}
    BY <2>2
  <2> QED
    BY <1>2, <1>3, <2>1, <2>3
<1>4. CASE kind[s] = "rewrite"
  <2>1. c.adds = {FileOf(s)} /\ c.rows = Updated(s, loaded[s].rows) /\ c.drops = loaded[s].files
        /\ c.keys = {} /\ c.cells = {}
    BY <1>1, <1>4, ChangeParts
  <2> QED
    BY <1>2, <1>4, <1>8, <2>1
<1>5. CASE kind[s] = "delta"
  <2>1. c.adds = {FileOf(s)} /\ c.rows = Updated(s, seen[s].rows) /\ c.drops = {}
        /\ c.keys = Keys(seen[s].rows) /\ c.cells = {}
    BY <1>1, <1>5, ChangeParts
  <2> QED
    BY <1>2, <1>5, <1>8, <2>1
<1>6. CASE kind[s] = "posdelete"
  <2>1. c.adds = {} /\ c.rows = {} /\ c.drops = {}
        /\ c.keys = {} /\ c.cells = Cells(seen[s].rows)
    BY <1>1, <1>6, ChangeParts
  <2> QED
    BY <1>2, <1>6, <1>8, <2>1
<1>7. CASE kind[s] = "compact"
  <2>1. c.adds = {FileOf(s)} /\ c.rows = Moved(s, loaded[s].rows) /\ c.drops = loaded[s].files
        /\ c.keys = {} /\ c.cells = {} /\ c.pins = {loaded[s].ver}
    BY <1>1, <1>7, ChangeParts
  <2>2. \A r : r \in Shown(table, c) <=>
          r \in c.rows /\ \A v \in c.pins : \A d \in Later(table, v) : r.key \notin d.keys
    BY ShownParts
  <2>3. \A r : r \in Shown(table, c) <=> r \in Moved(s, loaded[s].rows) /\ ~Hidden(s, r)
    BY <2>1, <2>2 DEF Hidden
  <2> QED
    BY <1>2, <1>7, <2>1, <2>3
<1> QED
  BY <1>1, <1>3, <1>4, <1>5, <1>6, <1>7 DEF Kinds

\* A statement that rewrites the rows of a neat snapshot writes neat rows:
\* one for each key of the snapshot.
LEMMA WrittenNeat ==
  ASSUME NEW s \in Stmts, attempt[s] \in 1..MaxAttempts, NEW t \in Tables, NEW a, Neat(t, a)
  PROVE  /\ \A q \in Updated(s, t.rows) : Known(q.key, a) /\ q.file = FileOf(s)
                                          /\ q.key \in Keys(t.rows) /\ s \in q.by
         /\ \A q, r \in Updated(s, t.rows) : q.key = r.key => q = r
         /\ \A q \in Moved(s, t.rows) : Known(q.key, a) /\ q.file = FileOf(s)
         /\ \A q, r \in Moved(s, t.rows) : q.key = r.key => q = r
<1>1. t.rows \in SUBSET Rows /\ FileOf(s) \in Paths
  BY TableParts, FileOfType
<1>2. \A r \in t.rows : r.key \in Stmts \cup {Seed} /\ r.by \in SUBSET Stmts
                        /\ r.by \cup {s} \in SUBSET Stmts
  BY <1>1, RowParts
<1>3. \A r \in t.rows : /\ Row(FileOf(s), r.key, r.by \cup {s}).key = r.key
                        /\ Row(FileOf(s), r.key, r.by).key = r.key
  BY <1>1, <1>2, RowType
<1>4. ASSUME NEW q \in Updated(s, t.rows)
      PROVE  \E r \in t.rows : q = Row(FileOf(s), r.key, r.by \cup {s}) /\ q.key = r.key
  BY <1>3 DEF Updated
<1>5. ASSUME NEW q \in Moved(s, t.rows)
      PROVE  \E r \in t.rows : q = Row(FileOf(s), r.key, r.by) /\ q.key = r.key
  BY <1>3 DEF Moved
<1>6. \A q \in Updated(s, t.rows) : q.file = FileOf(s) /\ s \in q.by
  BY <1>1, WrittenRows
<1>7. \A q \in Moved(s, t.rows) : q.file = FileOf(s)
  BY <1>1, WrittenRows
<1>8. ASSUME NEW q \in Updated(s, t.rows)
      PROVE  Known(q.key, a) /\ q.key \in Keys(t.rows)
  <2>1. PICK x \in t.rows : q.key = x.key
    BY <1>4
  <2>2. x.key \in Keys(t.rows)
    BY DEF Keys
  <2>3. Known(x.key, a)
    BY DEF Neat
  <2> QED
    BY <2>1, <2>2, <2>3
<1>9. \A q \in Moved(s, t.rows) : Known(q.key, a)
  BY <1>5 DEF Neat
<1>10. ASSUME NEW q \in Updated(s, t.rows), NEW r \in Updated(s, t.rows), q.key = r.key
       PROVE  q = r
  <2>1. PICK x \in t.rows : q = Row(FileOf(s), x.key, x.by \cup {s}) /\ q.key = x.key
    BY <1>4
  <2>2. PICK y \in t.rows : r = Row(FileOf(s), y.key, y.by \cup {s}) /\ r.key = y.key
    BY <1>4
  <2>3. x = y
    BY <1>10, <2>1, <2>2 DEF Neat
  <2> QED
    BY <2>1, <2>2, <2>3
<1>11. ASSUME NEW q \in Moved(s, t.rows), NEW r \in Moved(s, t.rows), q.key = r.key
       PROVE  q = r
  <2>1. PICK x \in t.rows : q = Row(FileOf(s), x.key, x.by) /\ q.key = x.key
    BY <1>5
  <2>2. PICK y \in t.rows : r = Row(FileOf(s), y.key, y.by) /\ r.key = y.key
    BY <1>5
  <2>3. x = y
    BY <1>11, <2>1, <2>2 DEF Neat
  <2> QED
    BY <2>1, <2>2, <2>3
<1> QED
  BY <1>6, <1>7, <1>8, <1>9, <1>10, <1>11

\* A compaction that is applied moves the rows its files still hold, and
\* nothing else: what was deleted since it read them stays deleted.
LEMMA CompactedRows ==
  ASSUME WriteInv, RowsTracked, NEW s \in Stmts, kind[s] = "compact",
         pc[s] = "post", table.ver = base[s], table' = Apply(table, Change(s))
  PROVE  /\ \A r \in table'.rows :
              \/ r \in table.rows /\ r.file \notin loaded[s].files
              \/ \E x \in table.rows : /\ x.file \in loaded[s].files
                                       /\ r = Row(FileOf(s), x.key, x.by)
                                       /\ r.key = x.key /\ r.by = x.by /\ r.file = FileOf(s)
         /\ \A x \in table.rows : \E r \in table'.rows : r.key = x.key
<1>1. /\ TypeOK /\ attempt[s] \in 1..MaxAttempts /\ table \in Tables /\ loaded[s] \in Tables
      /\ Compacts(s) /\ Neat(loaded[s], applied)
  BY DEF WriteInv, TypeOK, RowsTracked
<1>6. kind[s] = "compact" =>
        \A r : r \in table'.rows <=> \/ r \in Moved(s, loaded[s].rows) /\ ~Hidden(s, r)
                                     \/ r \in table.rows /\ r.file \notin loaded[s].files
  BY <1>1, AppliedRows
<1>2. \A r : r \in table'.rows <=> \/ r \in Moved(s, loaded[s].rows) /\ ~Hidden(s, r)
                                   \/ r \in table.rows /\ r.file \notin loaded[s].files
  BY <1>6
<1>3. ASSUME NEW x \in loaded[s].rows
      PROVE  /\ Row(FileOf(s), x.key, x.by).key = x.key
             /\ Row(FileOf(s), x.key, x.by).by = x.by
             /\ Row(FileOf(s), x.key, x.by).file = FileOf(s)
  <2>1. x \in Rows /\ FileOf(s) \in Paths
    BY <1>1, FileOfType, TableParts
  <2>2. x.key \in Stmts \cup {Seed} /\ x.by \in SUBSET Stmts
    BY <2>1, RowParts
  <2> QED
    BY <2>1, <2>2, RowType
<1>4. ASSUME NEW r \in Moved(s, loaded[s].rows), ~Hidden(s, r)
      PROVE  \E x \in table.rows : /\ x.file \in loaded[s].files
                                   /\ r = Row(FileOf(s), x.key, x.by)
                                   /\ r.key = x.key /\ r.by = x.by /\ r.file = FileOf(s)
  <2>1. PICK x \in loaded[s].rows : r = Row(FileOf(s), x.key, x.by)
    BY DEF Moved
  <2>2. r.key = x.key /\ r.by = x.by /\ r.file = FileOf(s)
    BY <1>3, <2>1
  <2>3. ~Hidden(s, x)
    BY <1>4, <2>2 DEF Hidden
  <2>4. x.file \in loaded[s].files
    BY <1>1 DEF Neat
  <2>5. x \in table.rows
    BY <1>1, <2>3, <2>4 DEF Compacts
  <2> QED
    BY <2>1, <2>2, <2>4, <2>5
<1>5. ASSUME NEW x \in table.rows
      PROVE  \E r \in table'.rows : r.key = x.key
  <2>1. CASE x.file \notin loaded[s].files
    BY <1>2, <2>1
  <2>2. CASE x.file \in loaded[s].files
    <3>1. x \in loaded[s].rows /\ ~Hidden(s, x)
      BY <1>1, <2>2 DEF Compacts
    <3>2. PICK r : r = Row(FileOf(s), x.key, x.by)
      OBVIOUS
    <3>3. r \in Moved(s, loaded[s].rows) /\ r.key = x.key
      BY <1>3, <3>1, <3>2 DEF Moved
    <3>4. ~Hidden(s, r)
      BY <3>1, <3>3 DEF Hidden
    <3>5. r \in table'.rows
      BY <1>2, <3>3, <3>4
    <3> QED
      BY <3>3, <3>5
  <2> QED
    BY <2>1, <2>2
<1> QED
  BY <1>2, <1>4, <1>5

\* The table after the request of a statement that was not applied before.
LEMMA AppliedNeat ==
  ASSUME WriteInv, RowsTracked, NEW s \in Stmts, applied[s] = 0,
         pc[s] = "post", table.ver = base[s],
         table' = Apply(table, Change(s)), applied' = [applied EXCEPT ![s] = applied[s] + 1]
  PROVE  Neat(table', applied')
<1>1. /\ TypeOK /\ kind[s] \in Kinds /\ attempt[s] \in 1..MaxAttempts /\ table \in Tables
      /\ seen[s] \in Tables /\ loaded[s] \in Tables /\ applied \in [Stmts -> Nat]
      /\ applied' \in [Stmts -> Nat] /\ \A x \in Stmts : applied'[x] >= applied[x]
  BY DEF WriteInv, TypeOK
<1>2. /\ Neat(table, applied') /\ Neat(seen[s], applied') /\ Neat(loaded[s], applied')
  BY <1>1, NeatGrows DEF RowsTracked
<1>3. Known(s, applied') /\ Owner(FileOf(s)) = s /\ Known(Owner(FileOf(s)), applied')
  BY <1>1 DEF Known, Owner, FileOf
<1>4. /\ \A r \in table.rows : r.key # s
      /\ s # Seed
  BY WriteAssumption DEF RowsTracked, Neat, Known
<1>5. /\ Row(FileOf(s), s, {s}).key = s /\ Row(FileOf(s), s, {s}).file = FileOf(s)
  BY <1>1, FileOfType, RowType
<1>6. CASE kind[s] = "append"
  <2>1. /\ table'.files = table.files \cup {FileOf(s)}
        /\ table'.rows = table.rows \cup {Row(FileOf(s), s, {s})}
    BY <1>1, <1>6, AppliedRows
  <2> QED
    BY <1>2, <1>3, <1>4, <1>5, <2>1 DEF Neat
<1>7. CASE kind[s] = "rewrite"
  <2>1. /\ table'.files = (table.files \ loaded[s].files) \cup {FileOf(s)}
        /\ \A r : r \in table'.rows <=> \/ r \in Updated(s, loaded[s].rows)
                                        \/ r \in table.rows /\ r.file \notin loaded[s].files
    BY <1>1, <1>7, AppliedRows
  <2>2. loaded[s].rows \subseteq table.rows
    BY <1>7 DEF RowsTracked
  <2>3. /\ \A q \in Updated(s, loaded[s].rows) :
             Known(q.key, applied') /\ q.file = FileOf(s) /\ q.key \in Keys(loaded[s].rows)
        /\ \A q, r \in Updated(s, loaded[s].rows) : q.key = r.key => q = r
    BY <1>1, <1>2, WrittenNeat
  <2>4. ASSUME NEW q \in table.rows, q.file \notin loaded[s].files,
               NEW r \in Updated(s, loaded[s].rows)
        PROVE  q.key # r.key
    <3>1. PICK x \in loaded[s].rows : x.key = r.key
      BY <2>3 DEF Keys
    <3>2. x \in table.rows /\ x.file \in loaded[s].files
      BY <1>2, <2>2 DEF Neat
    <3> QED
      BY <1>2, <2>4, <3>1, <3>2 DEF Neat
  <2>5. \A r \in table'.rows : r.file \in table'.files /\ Known(r.key, applied')
    BY <1>2, <2>1, <2>3 DEF Neat
  <2>6. \A f \in table'.files : Known(Owner(f), applied')
    BY <1>2, <1>3, <2>1 DEF Neat
  <2>7. ASSUME NEW q \in table'.rows, NEW r \in table'.rows, q.key = r.key
        PROVE  q = r
    <3>1. CASE q \in Updated(s, loaded[s].rows) /\ r \in Updated(s, loaded[s].rows)
      BY <2>3, <2>7, <3>1
    <3>2. CASE q \in table.rows /\ r \in table.rows
      BY <1>2, <2>7, <3>2 DEF Neat
    <3> QED
      BY <2>1, <2>4, <2>7, <3>1, <3>2
  <2> QED
    BY <2>5, <2>6, <2>7 DEF Neat
<1>8. CASE kind[s] = "delta"
  <2>1. /\ table'.files = table.files \cup {FileOf(s)}
        /\ \A r : r \in table'.rows <=> \/ r \in Updated(s, seen[s].rows)
                                        \/ r \in table.rows /\ r.key \notin Keys(seen[s].rows)
    BY <1>1, <1>8, AppliedRows
  <2>2. /\ \A q \in Updated(s, seen[s].rows) :
             Known(q.key, applied') /\ q.file = FileOf(s) /\ q.key \in Keys(seen[s].rows)
        /\ \A q, r \in Updated(s, seen[s].rows) : q.key = r.key => q = r
    BY <1>1, <1>2, WrittenNeat
  <2>3. \A r \in table'.rows : r.file \in table'.files /\ Known(r.key, applied')
    BY <1>2, <2>1, <2>2 DEF Neat
  <2>4. \A f \in table'.files : Known(Owner(f), applied')
    BY <1>2, <1>3, <2>1 DEF Neat
  <2>5. ASSUME NEW q \in table'.rows, NEW r \in table'.rows, q.key = r.key
        PROVE  q = r
    <3>1. CASE q \in Updated(s, seen[s].rows) /\ r \in Updated(s, seen[s].rows)
      BY <2>2, <2>5, <3>1
    <3>2. CASE q \in table.rows /\ r \in table.rows
      BY <1>2, <2>5, <3>2 DEF Neat
    <3> QED
      BY <2>1, <2>2, <2>5, <3>1, <3>2
  <2> QED
    BY <2>3, <2>4, <2>5 DEF Neat
<1>9. CASE kind[s] = "posdelete"
  <2>1. table'.files = table.files /\ \A r \in table'.rows : r \in table.rows
    BY <1>1, <1>9, AppliedRows
  <2> QED
    BY <1>2, <2>1 DEF Neat
<1>10. CASE kind[s] = "compact"
  <2>1. table'.files = (table.files \ loaded[s].files) \cup {FileOf(s)}
    BY <1>1, <1>10, AppliedRows
  <2>2. \A r \in table'.rows :
          \/ r \in table.rows /\ r.file \notin loaded[s].files
          \/ \E x \in table.rows : /\ x.file \in loaded[s].files
                                   /\ r = Row(FileOf(s), x.key, x.by)
                                   /\ r.key = x.key /\ r.by = x.by /\ r.file = FileOf(s)
    BY <1>10, CompactedRows
  <2>3. \A r \in table'.rows : r.file \in table'.files /\ Known(r.key, applied')
    BY <1>2, <2>1, <2>2 DEF Neat
  <2>4. \A f \in table'.files : Known(Owner(f), applied')
    BY <1>2, <1>3, <2>1 DEF Neat
  <2>5. ASSUME NEW q \in table'.rows, NEW r \in table'.rows, q.key = r.key
        PROVE  q = r
    <3>1. PICK x \in table.rows :
            \/ x = q /\ x.file \notin loaded[s].files
            \/ x.file \in loaded[s].files /\ q = Row(FileOf(s), x.key, x.by) /\ q.key = x.key
      BY <2>2
    <3>2. PICK y \in table.rows :
            \/ y = r /\ y.file \notin loaded[s].files
            \/ y.file \in loaded[s].files /\ r = Row(FileOf(s), y.key, y.by) /\ r.key = y.key
      BY <2>2
    <3>3. x = y
      BY <1>2, <2>5, <3>1, <3>2 DEF Neat
    <3> QED
      BY <3>1, <3>2, <3>3
  <2> QED
    BY <2>3, <2>4, <2>5 DEF Neat
<1> QED
  BY <1>1, <1>6, <1>7, <1>8, <1>9, <1>10 DEF Kinds

\* The request of another statement is applied: a compaction under way can
\* still account for its rows, as the request's own file is new to it and its
\* delete file newer than what it loaded.
LEMMA CompactsOther ==
  ASSUME WriteInv, RowsTracked, NEW s \in Stmts, applied[s] = 0,
         table' = Apply(table, Change(s)), loaded' = loaded, base' = base,
         NEW u \in Stmts, u # s, kind[u] = "compact", pc[u] \in {"prepare", "post"}, pc'[u] = pc[u]
  PROVE  Compacts(u)'
<1> DEFINE c == Change(s)
<1>1. /\ TypeOK /\ table \in Tables /\ c \in Changes /\ kind[s] \in Kinds
      /\ attempt[s] \in 1..MaxAttempts /\ loaded[u] \in Tables /\ Tracked(u)
      /\ loaded[s] \in Tables /\ seen[s] \in Tables
  BY ChangeType DEF WriteInv, TypeOK
<1>2. table.ver \in Nat /\ loaded[u].ver \in Nat /\ base[u] \in Nat
  BY <1>1, Numbers
<1>3. /\ table'.ver = table.ver + 1
      /\ table'.files = (table.files \ c.drops) \cup c.adds
      /\ \A r : r \in table'.rows <=>
           \/ r \in Shown(table, c)
           \/ r \in table.rows /\ r.file \notin c.drops /\ r.key \notin c.keys
                /\ <<r.file, r.key>> \notin c.cells
      /\ table'.deletes = table.deletes \cup Added(table, c)
  BY <1>1, ApplyParts
<1>4. /\ \A d \in Added(table, c) : d.ver = table.ver + 1 /\ d.keys = c.keys
      /\ \A k \in c.keys : \E d \in Added(table, c) : k \in d.keys
      /\ \A x \in c.cells : \E d \in Added(table, c) : x[1] \in d.files
  BY <1>1, AddedParts
<1>5. loaded[u].ver <= table.ver /\ (pc[u] = "post" => base[u] <= table.ver)
  BY <1>1 DEF Tracked
<1>6. \A d : d \in Later(table', loaded[u].ver) <=>
        d \in Later(table, loaded[u].ver) \/ d \in Added(table, c)
  BY <1>2, <1>3, <1>4, <1>5 DEF Later
<1>7. /\ c.adds \subseteq {FileOf(s)}
      /\ \A r \in Shown(table, c) : r.file = FileOf(s)
  <2>1. \A r \in Shown(table, c) : r \in c.rows
    BY ShownParts
  <2>2. c.rows \subseteq {Row(FileOf(s), s, {s})} \/ c.rows \subseteq Updated(s, loaded[s].rows)
        \/ c.rows \subseteq Updated(s, seen[s].rows) \/ c.rows \subseteq Moved(s, loaded[s].rows)
    BY <1>1, ChangeParts DEF Kinds
  <2>3. /\ \A r \in Updated(s, loaded[s].rows) : r.file = FileOf(s)
        /\ \A r \in Updated(s, seen[s].rows) : r.file = FileOf(s)
        /\ \A r \in Moved(s, loaded[s].rows) : r.file = FileOf(s)
        /\ Row(FileOf(s), s, {s}).file = FileOf(s)
    BY <1>1, TableParts, WrittenRows, FileOfType, RowType
  <2>4. c.adds \subseteq {FileOf(s)}
    BY <1>1, ChangeParts
  <2> QED
    BY <2>1, <2>2, <2>3, <2>4
<1> HIDE DEF c
<1>8. Compacts(u) /\ Neat(loaded[u], applied)
  BY DEF RowsTracked
<1>9. FileOf(s) \notin loaded[u].files
  <2>1. Owner(FileOf(s)) = s /\ s # Seed
    BY WriteAssumption DEF Owner, FileOf
  <2> QED
    BY <1>8, <2>1 DEF Neat, Known
<1>10. ASSUME NEW r \in table'.rows, r.file \in loaded[u].files
       PROVE  r \in loaded[u].rows /\ ~Hidden(u, r)'
  <2>1. r \in table.rows /\ r.key \notin c.keys
    BY <1>3, <1>7, <1>9, <1>10
  <2>2. r \in loaded[u].rows /\ ~Hidden(u, r)
    BY <1>8, <1>10, <2>1 DEF Compacts
  <2> QED
    BY <1>4, <1>6, <2>1, <2>2 DEF Hidden
<1>11. ASSUME NEW r \in loaded[u].rows
       PROVE  \/ r \in table'.rows \/ r.file \notin table'.files \/ Hidden(u, r)'
              \/ \E d \in Later(table', loaded[u].ver) : r.file \in d.files
  <2>1. r.file # FileOf(s)
    BY <1>8, <1>9 DEF Neat
  <2>2. CASE r \in table.rows
    <3>1. CASE r.key \in c.keys
      BY <1>4, <1>6, <3>1 DEF Hidden
    <3>2. CASE <<r.file, r.key>> \in c.cells
      <4>1. PICK d \in Added(table, c) : <<r.file, r.key>>[1] \in d.files
        BY <1>4, <3>2
      <4> QED
        BY <1>6, <4>1
    <3>3. CASE r.file \in c.drops
      BY <1>3, <1>7, <2>1, <3>3
    <3> QED
      BY <1>3, <2>2, <3>1, <3>2, <3>3
  <2>3. CASE r.file \notin table.files
    BY <1>3, <1>7, <2>1, <2>3
  <2>4. CASE Hidden(u, r)
    BY <1>6, <2>4 DEF Hidden
  <2>5. CASE \E d \in Later(table, loaded[u].ver) : r.file \in d.files
    BY <1>6, <2>5
  <2> QED
    BY <1>8, <2>2, <2>3, <2>4, <2>5 DEF Compacts
<1>12. ~(pc'[u] = "post" /\ base'[u] = table'.ver)
  BY <1>2, <1>3, <1>5
<1> QED
  BY <1>10, <1>11, <1>12 DEF Compacts

\* A request is applied: every snapshot stays neat and every other rewrite
\* and compaction knows what it replaces.
LEMMA RowsApplied ==
  ASSUME WriteInv, RowsTracked, NEW s \in Stmts, applied[s] = 0,
         pc[s] = "post", table.ver = base[s], base' = base,
         table' = Apply(table, Change(s)), applied' = [applied EXCEPT ![s] = applied[s] + 1],
         kind' = kind, seen' = seen, loaded' = loaded, pc'[s] \in {"load", "done"},
         \A t \in Stmts \ {s} : pc'[t] = pc[t]
  PROVE  RowsTracked'
<1>1. /\ TypeOK /\ seen \in [Stmts -> Tables] /\ loaded \in [Stmts -> Tables]
      /\ applied \in [Stmts -> Nat]
      /\ applied' \in [Stmts -> Nat] /\ \A x \in Stmts : applied'[x] >= applied[x]
  BY DEF WriteInv, TypeOK
<1>2. Neat(table', applied')
  BY AppliedNeat
<1>3. \A t \in Stmts : Neat(seen[t], applied') /\ Neat(loaded[t], applied')
  BY <1>1, NeatGrows DEF RowsTracked
<1>4. ASSUME NEW u \in Stmts, kind[u] = "rewrite", pc'[u] \in {"prepare", "post"}
      PROVE  /\ loaded[u].rows \subseteq table'.rows
             /\ \A r \in table'.rows : r.file \in loaded[u].files => r \in loaded[u].rows
  <2>1. u # s /\ pc[u] \in {"prepare", "post"}
    BY <1>4
  <2>2. kind[s] = "append"
    BY <1>4, <2>1 DEF RowsTracked, RewritesAmongAppends
  <2>3. table'.rows = table.rows \cup {Row(FileOf(s), s, {s})}
    BY <1>1, <2>2, AppliedRows
  <2>4. Row(FileOf(s), s, {s}).file = FileOf(s) /\ Owner(FileOf(s)) = s /\ s # Seed
    BY <1>1, FileOfType, RowType, WriteAssumption DEF TypeOK, Owner
  <2>5. FileOf(s) \notin loaded[u].files
    BY <2>4 DEF RowsTracked, Neat, Known
  <2> QED
    BY <1>4, <2>1, <2>3, <2>4, <2>5 DEF RowsTracked
<1>5. ASSUME NEW d \in table'.deletes
      PROVE  d.ver <= table'.ver
  <2>1. table \in Tables /\ Change(s) \in Changes /\ table.ver \in Nat
    BY <1>1, ChangeType, Numbers DEF TypeOK
  <2>2. /\ table'.ver = table.ver + 1
        /\ d \in table.deletes \/ d \in Added(table, Change(s))
    BY <2>1, ApplyParts
  <2>3. CASE d \in Added(table, Change(s))
    BY <2>1, <2>2, <2>3, AddedParts
  <2>4. CASE d \in table.deletes
    <3>1. d.ver \in Nat
      BY <2>1, <2>4, TableParts DEF Deletes
    <3>2. d.ver <= table.ver
      BY <2>4 DEF RowsTracked
    <3> QED
      BY <2>1, <2>2, <3>1, <3>2
  <2> QED
    BY <2>2, <2>3, <2>4
<1>6. ASSUME NEW u \in Stmts, kind'[u] = "compact", pc'[u] \in {"prepare", "post"}
      PROVE  Compacts(u)'
  <2>1. u # s /\ pc'[u] = pc[u] /\ kind[u] = "compact"
    BY <1>6
  <2> QED
    BY <1>6, <2>1, CompactsOther
<1> QED
  BY <1>2, <1>3, <1>4, <1>5, <1>6 DEF RowsTracked


\* Every step of a statement keeps the rows tracked.
LEMMA RowsStep ==
  ASSUME WriteInv, WriteInv', Once, RowsTracked, "late" \notin Faults,
         NEW s \in Stmts, Step(s) \/ Failure(s)
  PROVE  RowsTracked'
<1>1. TypeOK /\ TypeOK' /\ Tracked(s) /\ faults \in 0..MaxFaults
  BY DEF WriteInv, TypeOK
<1>2. Vanish(s) => Take(s) \/ NoCommit
  BY DEF Vanish
<1>3. ASSUME table' = table, applied' = applied, kind' = kind,
             \A t \in Stmts \ {s} : /\ pc'[t] = pc[t] /\ seen'[t] = seen[t]
                                   /\ loaded'[t] = loaded[t] /\ base'[t] = base[t],
             seen'[s] \in {seen[s], table},
             \/ loaded'[s] = loaded[s] /\ (pc'[s] \in {"prepare", "post"} => pc[s] \in {"prepare", "post"})
             \/ loaded'[s] \in Inputs(s),
             pc'[s] = "post" /\ kind[s] = "compact" =>
               /\ loaded'[s].files \subseteq table.files
               /\ \A d \in Later(table, loaded'[s].ver) : d.files \cap loaded'[s].files = {}
      PROVE  RowsTracked'
  <2>1. /\ kind' \in RewritesAmongAppends /\ Neat(table', applied')
        /\ \A d \in table'.deletes : d.ver <= table'.ver
    BY <1>3 DEF RowsTracked
  <2>4. ASSUME loaded'[s] \in Inputs(s)
        PROVE  /\ Neat(loaded'[s], applied) /\ loaded'[s].ver = table.ver
               /\ loaded'[s].rows \subseteq table.rows
               /\ \A r \in table.rows : r.file \in loaded'[s].files => r \in loaded'[s].rows
    <3>1. PICK t \in Inputs(s) : loaded'[s] = t
      BY <2>4
    <3>2. /\ t.ver = table.ver /\ t.files \subseteq table.files
          /\ \A r : r \in t.rows => r \in table.rows
          /\ \A r \in table.rows : r.file \in t.files => r \in t.rows
          /\ kind[s] # "compact" => t = table
          /\ kind[s] = "compact" => \A r \in t.rows : r.file \in t.files
      BY <1>1, InputParts
    <3>3. Neat(t, applied)
      <4>1. CASE kind[s] # "compact"
        BY <3>2, <4>1 DEF RowsTracked
      <4>2. CASE kind[s] = "compact"
        BY <3>2, <4>2 DEF RowsTracked, Neat
      <4> QED
        BY <4>1, <4>2
    <3> QED
      BY <3>1, <3>2, <3>3
  <2>2. \A t \in Stmts : Neat(seen'[t], applied') /\ Neat(loaded'[t], applied')
    BY <1>3, <2>4 DEF RowsTracked
  <2>5. ASSUME NEW t \in Stmts, kind'[t] = "compact", pc'[t] \in {"prepare", "post"}
        PROVE  Compacts(t)'
    <3>1. CASE loaded'[t] = loaded[t] /\ pc[t] \in {"prepare", "post"}
      <4>1. Compacts(t)
        BY <1>3, <2>5, <3>1 DEF RowsTracked
      <4>2. \A r : Hidden(t, r)' <=> Hidden(t, r)
        BY <1>3, <3>1 DEF Hidden
      <4>3. CASE t # s
        BY <1>3, <3>1, <4>1, <4>2, <4>3 DEF Compacts
      <4>4. CASE t = s
        BY <1>3, <2>5, <3>1, <4>1, <4>2, <4>4 DEF Compacts
      <4> QED
        BY <4>3, <4>4
    <3>2. CASE t = s /\ loaded'[s] \in Inputs(s)
      <4>1. /\ loaded'[s].ver = table.ver /\ loaded'[s].rows \subseteq table.rows
            /\ \A r \in table.rows : r.file \in loaded'[s].files => r \in loaded'[s].rows
        BY <2>4, <3>2
      <4>2. Later(table', loaded'[s].ver) = {}
        <5>1. \A d \in table.deletes : d.ver \in Nat /\ d.ver <= table.ver /\ table.ver \in Nat
          <6>1. table.deletes \subseteq Deletes /\ table.ver \in Nat
            BY <1>1, TableParts DEF TypeOK
          <6> QED
            BY <6>1 DEF Deletes, RowsTracked
        <5> QED
          BY <1>3, <4>1, <5>1 DEF Later
      <4>3. \A r : ~Hidden(s, r)'
        BY <4>2 DEF Hidden
      <4> QED
        BY <1>3, <2>5, <3>2, <4>1, <4>2, <4>3 DEF Compacts
    <3> QED
      BY <1>3, <2>5, <3>1, <3>2
  <2>3. ASSUME NEW t \in Stmts, kind'[t] = "rewrite", pc'[t] \in {"prepare", "post"}
        PROVE  /\ loaded'[t].rows \subseteq table'.rows
               /\ \A r \in table'.rows : r.file \in loaded'[t].files => r \in loaded'[t].rows
    <3>1. CASE t = s /\ loaded'[s] \in Inputs(s)
      BY <1>3, <2>4, <3>1
    <3>2. CASE loaded'[t] = loaded[t] /\ pc[t] \in {"prepare", "post"}
      BY <1>3, <2>3, <3>2 DEF RowsTracked
    <3> QED
      BY <1>3, <2>3, <3>1, <3>2
  <2> QED
    BY <2>1, <2>2, <2>3, <2>5 DEF RowsTracked
<1>4. CASE Plan(s)
  <2>1. /\ table' = table /\ applied' = applied /\ kind' = kind /\ loaded' = loaded
        /\ base' = base
    BY <1>4 DEF Plan, NoCommit, NoFault
  <2>2. /\ pc'[s] = "load" /\ seen'[s] = table
        /\ \A t \in Stmts \ {s} : pc'[t] = pc[t] /\ seen'[t] = seen[t]
    BY <1>1, <1>4 DEF Plan, TypeOK
  <2> QED
    BY <1>3, <2>1, <2>2
<1>5. CASE Load(s)
  <2>1. table' = table /\ applied' = applied /\ kind' = kind /\ seen' = seen /\ base' = base
    BY <1>5 DEF Load, NoCommit, NoFault
  <2>2. /\ loaded'[s] \in Inputs(s) /\ pc'[s] = "prepare"
        /\ \A t \in Stmts \ {s} : pc'[t] = pc[t] /\ loaded'[t] = loaded[t]
    BY <1>1, <1>5 DEF Load, TypeOK
  <2> QED
    BY <1>3, <2>1, <2>2
<1>6. CASE Prepare(s) \/ Rebase(s)
  <2>1. /\ table' = table /\ applied' = applied /\ kind' = kind /\ seen' = seen /\ loaded' = loaded
        /\ pc[s] \in {"prepare", "post"}
    BY <1>6 DEF Prepare, Rebase, NoCommit, NoFault
  <2>2. \A t \in Stmts \ {s} : pc'[t] = pc[t] /\ base'[t] = base[t]
    BY <1>1, <1>6 DEF Prepare, Rebase, TypeOK
  <2>3. ASSUME pc'[s] = "post", kind[s] = "compact"
        PROVE  /\ loaded[s].files \subseteq table.files
               /\ \A d \in Later(table, loaded[s].ver) : d.files \cap loaded[s].files = {}
    <3>1. Prepare(s)
      BY <1>1, <1>6, <2>3 DEF Rebase, TypeOK
    <3> QED
      BY <2>3, <3>1 DEF Prepare, Valid, Undeleted
  <2> QED
    BY <1>3, <2>1, <2>2, <2>3
<1>8. ASSUME NoCommit \/ (pc[s] = "post" /\ Take(s)),
             kind' = kind, seen' = seen, loaded' = loaded, base' = base, pc'[s] \in {"load", "done"},
             \A t \in Stmts \ {s} : pc'[t] = pc[t]
      PROVE  RowsTracked'
  <2>1. CASE NoCommit
    BY <1>3, <1>8, <2>1 DEF NoCommit
  <2>2. CASE pc[s] = "post" /\ Take(s)
    <3>1. applied[s] = 0
      BY <2>2, NotYetApplied
    <3>2. /\ table' = Apply(table, Change(s)) /\ table.ver = base[s]
          /\ applied' = [applied EXCEPT ![s] = applied[s] + 1]
      BY <1>1, <2>2, TakeEffect
    <3> QED
      BY <1>8, <2>2, <3>1, <3>2, RowsApplied
  <2> QED
    BY <1>8, <2>1, <2>2
<1>9. ASSUME NEW a, NEW d, Closes(s, a, d)
      PROVE  RowsTracked'
  <2>1. /\ End(s, a, d) /\ kind' = kind
        /\ NoCommit \/ (pc[s] = "post" /\ Take(s))
    BY <1>2, <1>9 DEF Closes
  <2>2. /\ seen' = seen /\ loaded' = loaded /\ base' = base /\ pc'[s] = "done"
        /\ \A t \in Stmts \ {s} : pc'[t] = pc[t]
    BY <1>1, <2>1 DEF End, TypeOK
  <2> QED
    BY <1>8, <2>1, <2>2
<1>10. ASSUME NEW u, NEW h, NEW d, Repeats(s, u, h, d)
       PROVE  RowsTracked'
  <2>1. /\ Again(s, u, h, d) /\ kind' = kind
        /\ NoCommit \/ (pc[s] = "post" /\ Take(s))
    BY <1>2, <1>10 DEF Repeats
  <2>2. /\ seen' = seen /\ loaded' = loaded /\ base' = base /\ pc'[s] = "load"
        /\ \A t \in Stmts \ {s} : pc'[t] = pc[t]
    BY <1>1, <2>1 DEF Again, TypeOK
  <2> QED
    BY <1>8, <2>1, <2>2
<1> QED
  BY <1>1, <1>4, <1>5, <1>6, <1>9, <1>10, StepShapes

\* The first tables are neat.
LEMMA RowsInit ==
  ASSUME Mixes \subseteq RewritesAmongAppends
  PROVE  Init => RowsTracked
<1> SUFFICES ASSUME Init PROVE RowsTracked
  OBVIOUS
<1>1. table \in {EmptyTable, SeedTable} /\ kind \in RewritesAmongAppends
  BY DEF Init
<1>2. /\ Row(<<Seed, 0>>, Seed, {}).file = <<Seed, 0>> /\ Row(<<Seed, 0>>, Seed, {}).key = Seed
      /\ Owner(<<Seed, 0>>) = Seed
  BY DEF Row, Owner
<1>3. Neat(EmptyTable, applied) /\ Neat(SeedTable, applied)
  BY <1>2, FirstTables DEF Neat, Known
<1>4. \A s \in Stmts : seen[s] = table /\ loaded[s] = table /\ pc[s] \in {"plan", "load"}
  BY DEF Init
<1>5. table.deletes = {}
  BY <1>1, FirstTables
<1> QED
  BY <1>1, <1>3, <1>4, <1>5 DEF RowsTracked

LEMMA RowsInvariant ==
  ASSUME "late" \notin Faults, Mixes \subseteq RewritesAmongAppends
  PROVE  Spec => [](WriteInv /\ Once /\ RowsTracked)
<1>1. WriteInv /\ WriteInv' /\ Once /\ RowsTracked /\ [Next]_vars => RowsTracked'
  <2> SUFFICES ASSUME WriteInv, WriteInv', Once, RowsTracked, [Next]_vars
               PROVE  RowsTracked'
    OBVIOUS
  <2>1. CASE UNCHANGED vars
    <3>1. \A s \in Stmts : Compacts(s)' <=> Compacts(s)
      BY <2>1 DEF vars, stmtVars, Compacts, Hidden
    <3> QED
      BY <2>1, <3>1 DEF vars, stmtVars, RowsTracked
  <2>2. ASSUME NEW s \in Stmts, Step(s) \/ Failure(s)
        PROVE  RowsTracked'
    BY <2>2, RowsStep
  <2>3. ASSUME NEW r \in late
        PROVE  RowsTracked'
    BY <2>3 DEF Once
  <2> QED
    BY <2>1, <2>2, <2>3 DEF Next
<1> QED
  BY <1>1, OnceInvariant, RowsInit, PTL DEF Spec

\* If a copy-on-write statement runs beside INSERTs only and no request is
\* applied late, no step leaves two versions of a row, whatever else fails
\* and however the merge-on-read statements and compactions mix: a rewrite
\* removes every file whose rows it carries over
\* (commit_rewrite_with_retry), an equality delete every row of its keys, and
\* a compaction commits only while its input files are live and pins its
\* output to the version it read (rewrite_data_files).
THEOREM RowsNeverDoubled ==
  ASSUME "late" \notin Faults, Mixes \subseteq RewritesAmongAppends
  PROVE  Spec => []OneRowPerKey
<1>1. RowsTracked => OneRowPerKey
  BY DEF RowsTracked, Neat, OneRowPerKey
<1> QED
  BY <1>1, RowsInvariant, PTL


-----------------------------------------------------------------------------
(* The changes, when the commits keep the statements apart. *)

\* The change of s is in the table.
Survives(s) ==
  /\ kind[s] = "delta" =>
       \A r \in table.rows : r.key \in Keys(seen[s].rows) => s \in r.by
  /\ kind[s] = "rewrite" =>
       \A r \in table.rows : r.key \in Keys(loaded[s].rows) => s \in r.by
  /\ kind[s] = "posdelete" => Keys(table.rows) \cap Keys(seen[s].rows) = {}
  /\ kind[s] = "append" =>
       \/ s \in Keys(table.rows)
       \/ \E d \in Stmts : kind[d] = "posdelete" /\ s \in Keys(seen[d].rows)

\* What s knows of the table: a snapshot of the table's version is the table,
\* and a row that a DELETE read has not moved as long as its file is there.
Follows(s) ==
  /\ pc[s] = "plan" => Keys(seen[s].rows) \subseteq {Seed}
  /\ seen[s].ver <= table.ver
  /\ seen[s].ver = table.ver => seen[s] = table
  /\ kind[s] # "compact" /\ pc[s] \in {"prepare", "post"} /\ loaded[s].ver = table.ver
       => loaded[s] = table
  /\ kind[s] = "posdelete" /\ pc[s] \in {"prepare", "post"} =>
       Files(seen[s].rows) \subseteq loaded[s].files
  /\ kind[s] = "posdelete" =>
       \A r \in seen[s].rows : \A q \in table.rows :
         q.key = r.key => q = r \/ r.file \notin table.files
  /\ answer[s] = "ok" => applied[s] >= 1
  /\ applied[s] >= 1 => Survives(s)

ChangesTracked == kind \in Compatible /\ \A s \in Stmts : Follows(s)


\* The keys of a set of rows.
LEMMA KeyOf ==
  ASSUME NEW rs, NEW k
  PROVE  k \in Keys(rs) <=> \E r \in rs : r.key = k
BY DEF Keys

\* A statement that was not applied is in no snapshot.
LEMMA Unseen ==
  ASSUME WriteInv, RowsTracked, NEW s \in Stmts, applied[s] = 0, NEW t \in Stmts
  PROVE  /\ s # Seed
         /\ s \notin Keys(table.rows) /\ s \notin Keys(seen[t].rows) /\ s \notin Keys(loaded[t].rows)
         /\ \A r \in seen[t].rows : r.file # FileOf(s)
<1>1. s # Seed /\ ~Known(s, applied)
  BY WriteAssumption DEF Known
<1>2. Owner(FileOf(s)) = s
  BY DEF Owner, FileOf
<1>3. Neat(table, applied) /\ Neat(seen[t], applied) /\ Neat(loaded[t], applied)
  BY DEF RowsTracked
<1>4. \A r \in seen[t].rows : r.file # FileOf(s)
  BY <1>1, <1>2, <1>3 DEF Neat
<1>5. /\ s \notin Keys(table.rows) /\ s \notin Keys(seen[t].rows) /\ s \notin Keys(loaded[t].rows)
  BY <1>1, <1>3, KeyOf DEF Neat
<1> QED
  BY <1>1, <1>4, <1>5

\* What the mixes keep apart.
LEMMA Apart ==
  ASSUME kind \in Compatible, NEW s \in Stmts, NEW t \in Stmts, s # t
  PROVE  /\ kind[t] = "posdelete" => kind[s] \in {"append", "compact", "posdelete"}
         /\ kind[t] = "delta" => kind[s] \in {"append", "compact"}
         /\ kind[t] = "rewrite" => kind[s] = "append"
<1>1. kind \in RewritesAmongAppends /\ kind[s] \in Kinds
  BY DEF Compatible, RewritesAmongAppends
<1>2. kind[t] = "delta" => kind[s] \in {"append", "compact"}
  BY DEF Compatible
<1>3. kind[t] = "rewrite" => kind[s] = "append"
  BY <1>1 DEF RewritesAmongAppends
<1>4. kind[s] = "delta" => kind[t] \in {"append", "compact"}
  BY DEF Compatible
<1>5. kind[s] = "rewrite" => kind[t] = "append"
  BY <1>1 DEF RewritesAmongAppends
<1> QED
  BY <1>1, <1>2, <1>3, <1>4, <1>5 DEF Kinds

\* The keys of the table after a request of each kind.
LEMMA AppliedKeys ==
  ASSUME WriteInv, RowsTracked, NEW s \in Stmts, table' = Apply(table, Change(s)),
         pc[s] = "post", table.ver = base[s]
  PROVE  /\ kind[s] = "append" => Keys(table'.rows) = Keys(table.rows) \cup {s}
         /\ kind[s] \in {"posdelete", "compact"} => Keys(table'.rows) \subseteq Keys(table.rows)
         /\ kind[s] # "posdelete" => Keys(table.rows) \subseteq Keys(table'.rows)
         /\ kind[s] = "posdelete" =>
              Keys(table.rows) \subseteq Keys(table'.rows) \cup Keys(seen[s].rows)
<1>1. /\ TypeOK /\ kind[s] \in Kinds /\ attempt[s] \in 1..MaxAttempts /\ table \in Tables
      /\ seen[s] \in Tables /\ loaded[s] \in Tables
  BY DEF WriteInv, TypeOK
<1>2. /\ table.rows \in SUBSET Rows /\ seen[s].rows \in SUBSET Rows /\ loaded[s].rows \in SUBSET Rows
  BY <1>1, TableParts
<1>3. CASE kind[s] = "append"
  <2>1. table'.rows = table.rows \cup {Row(FileOf(s), s, {s})} /\ Row(FileOf(s), s, {s}).key = s
    BY <1>1, <1>3, AppliedRows, FileOfType, RowType
  <2>2. \A k : (k \in Keys(table'.rows) <=> \E r \in table'.rows : r.key = k)
                /\ (k \in Keys(table.rows) <=> \E r \in table.rows : r.key = k)
    BY KeyOf
  <2>3. Keys(table'.rows) = Keys(table.rows) \cup {s}
    BY <2>1, <2>2
  <2> QED
    BY <1>3, <2>3
<1>4. CASE kind[s] = "rewrite"
  <2>1. \A r : r \in table'.rows <=> \/ r \in Updated(s, loaded[s].rows)
                                     \/ r \in table.rows /\ r.file \notin loaded[s].files
    BY <1>1, <1>4, AppliedRows
  <2>2. Keys(Updated(s, loaded[s].rows)) = Keys(loaded[s].rows)
    BY <1>1, <1>2, WrittenRows
  <2>3. \A r \in table.rows : r.file \in loaded[s].files => r \in loaded[s].rows
    BY <1>4 DEF RowsTracked
  <2>4. ASSUME NEW k \in Keys(table.rows)
        PROVE  k \in Keys(table'.rows)
    <3>1. PICK r \in table.rows : r.key = k
      BY KeyOf
    <3>2. CASE r.file \notin loaded[s].files
      BY <2>1, <3>1, <3>2, KeyOf
    <3>3. CASE r \in loaded[s].rows
      <4>1. k \in Keys(Updated(s, loaded[s].rows))
        BY <2>2, <3>1, <3>3, KeyOf
      <4> QED
        BY <2>1, <4>1, KeyOf
    <3> QED
      BY <2>3, <3>2, <3>3
  <2> QED
    BY <1>4, <2>4
<1>5. CASE kind[s] = "delta"
  <2>1. \A r : r \in table'.rows <=> \/ r \in Updated(s, seen[s].rows)
                                     \/ r \in table.rows /\ r.key \notin Keys(seen[s].rows)
    BY <1>1, <1>5, AppliedRows
  <2>2. Keys(Updated(s, seen[s].rows)) = Keys(seen[s].rows)
    BY <1>1, <1>2, WrittenRows
  <2>3. ASSUME NEW k \in Keys(table.rows)
        PROVE  k \in Keys(table'.rows)
    <3>1. CASE k \in Keys(Updated(s, seen[s].rows))
      BY <2>1, <3>1, KeyOf
    <3>2. CASE k \notin Keys(seen[s].rows)
      BY <2>1, <3>2, KeyOf
    <3> QED
      BY <2>2, <3>1, <3>2
  <2> QED
    BY <1>5, <2>3
<1>6. CASE kind[s] = "posdelete"
  <2>1. \A r : r \in table'.rows <=>
                 r \in table.rows /\ <<r.file, r.key>> \notin Cells(seen[s].rows)
    BY <1>1, <1>6, AppliedRows
  <2>2. ASSUME NEW k \in Keys(table.rows)
        PROVE  k \in Keys(table'.rows) \cup Keys(seen[s].rows)
    <3>1. PICK r \in table.rows : r.key = k
      BY KeyOf
    <3>2. CASE <<r.file, r.key>> \in Cells(seen[s].rows)
      BY <3>1, <3>2, KeyOf DEF Cells
    <3>3. CASE <<r.file, r.key>> \notin Cells(seen[s].rows)
      BY <2>1, <3>1, <3>3, KeyOf
    <3> QED
      BY <3>2, <3>3
  <2>3. ASSUME NEW k \in Keys(table'.rows)
        PROVE  k \in Keys(table.rows)
    <3>1. PICK r \in table'.rows : r.key = k
      BY KeyOf
    <3> QED
      BY <2>1, <3>1, KeyOf
  <2> QED
    BY <1>6, <2>2, <2>3
<1>7. CASE kind[s] = "compact"
  <2>1. \A r \in table'.rows : \E x \in table.rows : r.key = x.key
    BY <1>7, CompactedRows
  <2>2. \A x \in table.rows : \E r \in table'.rows : r.key = x.key
    BY <1>7, CompactedRows
  <2>3. \A k : k \in Keys(table'.rows) <=> k \in Keys(table.rows)
    BY <2>1, <2>2 DEF Keys
  <2> QED
    BY <1>7, <2>3
<1> QED
  BY <1>1, <1>3, <1>4, <1>5, <1>6, <1>7 DEF Kinds

\* The change of the statement that is applied is in the table.
LEMMA SurvivesOwn ==
  ASSUME WriteInv, RowsTracked, NEW s \in Stmts, Follows(s),
         pc[s] = "post", table.ver = base[s],
         table' = Apply(table, Change(s)), kind' = kind, seen' = seen, loaded' = loaded
  PROVE  Survives(s)'
<1>1. /\ TypeOK /\ attempt[s] \in 1..MaxAttempts /\ seen[s] \in Tables /\ loaded[s] \in Tables
      /\ Tracked(s)
  BY DEF WriteInv, TypeOK
<1>2. ASSUME kind[s] = "append"
      PROVE  s \in Keys(table'.rows)
  BY <1>2, AppliedKeys
<1>3. ASSUME kind[s] = "delta", NEW r \in table'.rows, r.key \in Keys(seen[s].rows)
      PROVE  s \in r.by
  <2>1. r \in Updated(s, seen[s].rows)
    BY <1>1, <1>3, AppliedRows
  <2> QED
    BY <1>1, <2>1, TableParts, WrittenRows
<1>4. ASSUME kind[s] = "rewrite", NEW r \in table'.rows, r.key \in Keys(loaded[s].rows)
      PROVE  s \in r.by
  <2>1. r \in Updated(s, loaded[s].rows) \/ (r \in table.rows /\ r.file \notin loaded[s].files)
    BY <1>1, <1>4, AppliedRows
  <2>2. CASE r \in table.rows /\ r.file \notin loaded[s].files
    <3>1. PICK x \in loaded[s].rows : x.key = r.key
      BY <1>4, KeyOf
    <3>2. x \in table.rows /\ x.file \in loaded[s].files
      BY <1>4 DEF RowsTracked, Neat
    <3> QED
      BY <2>2, <3>1, <3>2 DEF RowsTracked, Neat
  <2>3. CASE r \in Updated(s, loaded[s].rows)
    BY <1>1, <2>3, TableParts, WrittenRows
  <2> QED
    BY <2>1, <2>2, <2>3
<1>5. ASSUME kind[s] = "posdelete", NEW q \in table'.rows, NEW r \in seen[s].rows, q.key = r.key
      PROVE  FALSE
  <2>1. q \in table.rows /\ <<q.file, q.key>> \notin Cells(seen[s].rows)
    BY <1>1, <1>5, AppliedRows
  <2>2. q # r
    BY <2>1 DEF Cells
  <2>3. loaded[s].ver = table.ver
    BY <1>1, <1>5 DEF Tracked
  <2>4. r.file \in table.files
    BY <1>5, <2>3 DEF Follows, Files
  <2> QED
    BY <1>5, <2>1, <2>2, <2>4 DEF Follows
<1>6. kind[s] = "posdelete" => Keys(table'.rows) \cap Keys(seen[s].rows) = {}
  BY <1>5, KeyOf
<1> QED
  BY <1>2, <1>3, <1>4, <1>6 DEF Survives


\* The change of another statement stays in the table.
LEMMA SurvivesOther ==
  ASSUME WriteInv, RowsTracked, ChangesTracked, NEW s \in Stmts, NEW t \in Stmts, s # t,
         applied[s] = 0, Survives(t), pc[s] = "post", table.ver = base[s],
         table' = Apply(table, Change(s)), kind' = kind, seen' = seen, loaded' = loaded
  PROVE  Survives(t)'
<1>1. /\ TypeOK /\ attempt[s] \in 1..MaxAttempts /\ kind[s] \in Kinds /\ table \in Tables
  BY DEF WriteInv, TypeOK
<1>2. /\ kind[t] = "posdelete" => kind[s] \in {"append", "compact", "posdelete"}
      /\ kind[t] = "delta" => kind[s] \in {"append", "compact"}
      /\ kind[t] = "rewrite" => kind[s] = "append"
  BY Apart DEF ChangesTracked
<1>3. s \notin Keys(seen[t].rows) /\ s \notin Keys(loaded[t].rows)
  BY Unseen
<1>4. ASSUME kind[s] = "append", NEW r \in table'.rows, r.key # s
      PROVE  r \in table.rows
  <2>1. table'.rows = table.rows \cup {Row(FileOf(s), s, {s})} /\ Row(FileOf(s), s, {s}).key = s
    BY <1>1, <1>4, AppliedRows, FileOfType, RowType
  <2> QED
    BY <1>4, <2>1
<1>5. ASSUME kind[s] = "compact", NEW r \in table'.rows
      PROVE  \E x \in table.rows : r.key = x.key /\ r.by = x.by
  BY <1>5, CompactedRows
<1>6. ASSUME kind[t] = "delta", NEW r \in table'.rows, r.key \in Keys(seen[t].rows)
      PROVE  t \in r.by
  <2>1. CASE kind[s] = "append"
    BY <1>3, <1>4, <1>6, <2>1 DEF Survives
  <2>2. CASE kind[s] = "compact"
    BY <1>5, <1>6, <2>2 DEF Survives
  <2> QED
    BY <1>2, <1>6, <2>1, <2>2
<1>7. ASSUME kind[t] = "rewrite", NEW r \in table'.rows, r.key \in Keys(loaded[t].rows)
      PROVE  t \in r.by
  BY <1>2, <1>3, <1>4, <1>7 DEF Survives
<1>8. ASSUME kind[t] = "posdelete"
      PROVE  Keys(table'.rows) \cap Keys(seen[t].rows) = {}
  <2>1. Keys(table'.rows) \subseteq Keys(table.rows) \cup {s}
    BY <1>2, <1>8, AppliedKeys
  <2> QED
    BY <1>3, <1>8, <2>1 DEF Survives
<1>9. ASSUME kind[t] = "append"
      PROVE  \/ t \in Keys(table'.rows)
             \/ \E d \in Stmts : kind[d] = "posdelete" /\ t \in Keys(seen[d].rows)
  BY <1>9, AppliedKeys DEF Survives
<1> QED
  BY <1>6, <1>7, <1>8, <1>9 DEF Survives

\* A row that a DELETE read has not moved as long as its file is there.
LEMMA StaysPut ==
  ASSUME WriteInv, RowsTracked, ChangesTracked, NEW s \in Stmts, NEW t \in Stmts,
         applied[s] = 0, pc[s] = "post", table.ver = base[s],
         kind[t] = "posdelete", table' = Apply(table, Change(s)),
         NEW r \in seen[t].rows, NEW q \in table'.rows, q.key = r.key
  PROVE  q = r \/ r.file \notin table'.files
<1>1. TypeOK /\ attempt[s] \in 1..MaxAttempts /\ Follows(t)
  BY DEF WriteInv, TypeOK, ChangesTracked
<1>2. kind[s] \in {"append", "compact", "posdelete"}
  BY Apart DEF ChangesTracked
<1>3. r.file # FileOf(s) /\ r.key # s
  BY Unseen, KeyOf
<1>4. CASE kind[s] = "append"
  <2>1. /\ table'.files = table.files \cup {FileOf(s)}
        /\ table'.rows = table.rows \cup {Row(FileOf(s), s, {s})} /\ Row(FileOf(s), s, {s}).key = s
    BY <1>1, <1>4, AppliedRows, FileOfType, RowType
  <2> QED
    BY <1>1, <1>3, <2>1 DEF Follows
<1>5. CASE kind[s] = "compact"
  <2>1. table'.files = (table.files \ loaded[s].files) \cup {FileOf(s)}
    BY <1>1, <1>5, AppliedRows
  <2>2. \/ q \in table.rows
        \/ \E x \in table.rows : x.file \in loaded[s].files /\ q.key = x.key
    BY <1>5, CompactedRows
  <2>3. CASE q \in table.rows
    BY <1>1, <1>3, <2>1, <2>3 DEF Follows
  <2>4. CASE \E x \in table.rows : x.file \in loaded[s].files /\ q.key = x.key
    <3>1. PICK x \in table.rows : x.file \in loaded[s].files /\ q.key = x.key
      BY <2>4
    <3>2. x = r \/ r.file \notin table.files
      BY <1>1, <3>1 DEF Follows
    <3> QED
      BY <1>3, <2>1, <3>1, <3>2
  <2> QED
    BY <2>2, <2>3, <2>4
<1>6. CASE kind[s] = "posdelete"
  <2>1. table'.files = table.files /\ q \in table.rows
    BY <1>1, <1>6, AppliedRows
  <2> QED
    BY <1>1, <2>1 DEF Follows
<1> QED
  BY <1>2, <1>4, <1>5, <1>6

\* A request is applied.
LEMMA ChangesApplied ==
  ASSUME WriteInv, WriteInv', RowsTracked, ChangesTracked, NEW s \in Stmts, applied[s] = 0,
         pc[s] = "post", table.ver = base[s],
         table' = Apply(table, Change(s)), applied' = [applied EXCEPT ![s] = applied[s] + 1],
         kind' = kind, seen' = seen, loaded' = loaded, pc'[s] \in {"load", "done"},
         \A t \in Stmts \ {s} : pc'[t] = pc[t] /\ answer'[t] = answer[t]
  PROVE  ChangesTracked'
<1>1. /\ TypeOK /\ table \in Tables /\ Change(s) \in Changes
      /\ applied'[s] = 1 /\ \A t \in Stmts \ {s} : applied'[t] = applied[t]
  BY ChangeType DEF WriteInv, TypeOK
<1>2. table'.ver = table.ver + 1 /\ table.ver \in Nat
  BY <1>1, ApplyParts, TableParts
<1>3. ASSUME NEW t \in Stmts
      PROVE  Follows(t)'
  <2>1. Follows(t) /\ Tracked(t) /\ seen[t].ver \in Nat /\ loaded[t].ver \in Nat
    BY <1>1, Numbers DEF ChangesTracked, WriteInv
  <2>2. pc'[t] = "plan" => Keys(seen'[t].rows) \subseteq {Seed}
    BY <2>1 DEF Follows
  <2>3. /\ seen'[t].ver <= table'.ver
        /\ seen'[t].ver = table'.ver => seen'[t] = table'
    BY <1>2, <2>1 DEF Follows
  <2>4. pc'[t] \in {"prepare", "post"} => t # s /\ pc[t] \in {"prepare", "post"}
    OBVIOUS
  <2>5. kind'[t] # "compact" /\ pc'[t] \in {"prepare", "post"} /\ loaded'[t].ver = table'.ver
          => loaded'[t] = table'
    BY <1>2, <2>1, <2>4 DEF Tracked
  <2>6. kind'[t] = "posdelete" /\ pc'[t] \in {"prepare", "post"} =>
          Files(seen'[t].rows) \subseteq loaded'[t].files
    BY <2>1, <2>4 DEF Follows
  <2>7. kind'[t] = "posdelete" =>
          \A r \in seen'[t].rows : \A q \in table'.rows :
            q.key = r.key => q = r \/ r.file \notin table'.files
    BY StaysPut
  <2>8. answer'[t] = "ok" => applied'[t] >= 1
    BY <1>1, <2>1 DEF Follows
  <2>9. applied'[t] >= 1 => Survives(t)'
    <3>1. CASE t = s
      BY <2>1, <3>1, SurvivesOwn
    <3>2. CASE t # s
      <4>1. applied'[t] >= 1 => Survives(t)
        BY <1>1, <2>1, <3>2 DEF Follows
      <4> QED
        BY <3>2, <4>1, SurvivesOther
    <3> QED
      BY <3>1, <3>2
  <2> QED
    BY <2>2, <2>3, <2>5, <2>6, <2>7, <2>8, <2>9 DEF Follows
<1> QED
  BY <1>3 DEF ChangesTracked

\* Nothing is applied, and the statement goes on or ends.
LEMMA ChangesKept ==
  ASSUME WriteInv, RowsTracked, ChangesTracked, NEW s \in Stmts,
         table' = table, applied' = applied, kind' = kind, seen' = seen,
         \A t \in Stmts \ {s} : pc'[t] = pc[t] /\ answer'[t] = answer[t] /\ loaded'[t] = loaded[t],
         pc'[s] # "plan", answer'[s] = "ok" => applied[s] >= 1,
         \/ /\ loaded'[s] = loaded[s]
            /\ pc'[s] \in {"prepare", "post"} => pc[s] \in {"prepare", "post"}
         \/ loaded'[s] \in Inputs(s) /\ applied[s] = 0 /\ StillLive(s)
  PROVE  ChangesTracked'
<1>2. loaded'[s] \in Inputs(s) /\ kind[s] # "compact" => loaded'[s] = table
  BY DEF Inputs
<1>1. ASSUME NEW t \in Stmts
      PROVE  Follows(t)'
  <2>1. Follows(t)
    BY DEF ChangesTracked
  <2>2. pc'[t] = "plan" => Keys(seen'[t].rows) \subseteq {Seed}
    BY <2>1 DEF Follows
  <2>3. /\ seen'[t].ver <= table'.ver
        /\ seen'[t].ver = table'.ver => seen'[t] = table'
        /\ answer'[t] = "ok" => applied'[t] >= 1
    BY <2>1 DEF Follows
  <2>4. kind'[t] # "compact" /\ pc'[t] \in {"prepare", "post"} /\ loaded'[t].ver = table'.ver
          => loaded'[t] = table'
    BY <1>2, <2>1 DEF Follows
  <2>5. ASSUME kind[t] = "posdelete", pc'[t] \in {"prepare", "post"}
        PROVE  Files(seen[t].rows) \subseteq loaded'[t].files
    <3>1. CASE t = s /\ loaded'[s] = table /\ StillLive(s)
      <4>1. CASE seen[t] = table
        BY <3>1, <4>1 DEF RowsTracked, Neat, Files
      <4>2. CASE seen[t] # table
        BY <2>1, <2>5, <3>1, <4>2 DEF Follows, StillLive
      <4> QED
        BY <4>1, <4>2
    <3>2. CASE loaded'[t] = loaded[t] /\ pc[t] \in {"prepare", "post"}
      BY <2>1, <2>5, <3>2 DEF Follows
    <3> QED
      BY <1>2, <2>5, <3>1, <3>2
  <2>6. kind'[t] = "posdelete" =>
          \A r \in seen'[t].rows : \A q \in table'.rows :
            q.key = r.key => q = r \/ r.file \notin table'.files
    BY <2>1 DEF Follows
  <2>7. ASSUME applied[t] >= 1
        PROVE  Survives(t)'
    <3>1. Survives(t) /\ loaded'[t] = loaded[t]
      BY <2>1, <2>7 DEF Follows
    <3> QED
      BY <3>1 DEF Survives
  <2> QED
    BY <2>2, <2>3, <2>4, <2>5, <2>6, <2>7 DEF Follows
<1> QED
  BY <1>1 DEF ChangesTracked

\* The statement reads its rows.
LEMMA ChangesPlanned ==
  ASSUME WriteInv, RowsTracked, ChangesTracked, NEW s \in Stmts, Plan(s)
  PROVE  ChangesTracked'
<1>1. /\ table' = table /\ applied' = applied /\ kind' = kind /\ loaded' = loaded
      /\ answer' = answer /\ pc[s] = "plan"
  BY DEF Plan, NoCommit, NoFault
<1>2. /\ pc'[s] = "load" /\ seen'[s] = table /\ Tracked(s)
      /\ \A t \in Stmts \ {s} : pc'[t] = pc[t] /\ seen'[t] = seen[t]
  BY DEF Plan, WriteInv, TypeOK
<1>3. table.ver \in Nat
  BY Numbers DEF WriteInv
<1>4. Follows(s)'
  <2>1. Follows(s)
    BY DEF ChangesTracked
  <2>2. applied[s] = 0 /\ answer[s] = "none"
    BY <1>1, <1>2 DEF Tracked
  <2>3. \A r \in table.rows : \A q \in table.rows : q.key = r.key => q = r
    BY DEF RowsTracked, Neat
  <2> QED
    BY <1>1, <1>2, <1>3, <2>2, <2>3 DEF Follows
<1>5. ASSUME NEW t \in Stmts, t # s
      PROVE  Follows(t)'
  <2>1. Follows(t)
    BY DEF ChangesTracked
  <2>2. Keys(seen[s].rows) \subseteq {Seed} /\ t # Seed
    BY <1>1, WriteAssumption DEF ChangesTracked, Follows
  <2>3. applied[t] >= 1 => Survives(t)'
    BY <1>1, <1>2, <1>5, <2>1, <2>2 DEF Follows, Survives
  <2> QED
    BY <1>1, <1>2, <1>5, <2>1, <2>3 DEF Follows
<1> QED
  BY <1>1, <1>4, <1>5 DEF ChangesTracked

\* Every step of a statement.
LEMMA ChangesStep ==
  ASSUME WriteInv, WriteInv', Once, RowsTracked, ChangesTracked, "late" \notin Faults,
         NEW s \in Stmts, Step(s) \/ Failure(s)
  PROVE  ChangesTracked'
<1>1. TypeOK /\ TypeOK' /\ Tracked(s) /\ faults \in 0..MaxFaults /\ Follows(s)
  BY DEF WriteInv, TypeOK, ChangesTracked
<1>2. Vanish(s) => Take(s) \/ NoCommit
  BY DEF Vanish
<1>3. CASE Plan(s)
  BY <1>3, ChangesPlanned
<1>4. CASE Load(s)
  <2>1. /\ table' = table /\ applied' = applied /\ kind' = kind /\ seen' = seen
        /\ answer' = answer /\ pc[s] = "load" /\ Unmoved(s) /\ StillLive(s)
    BY <1>4 DEF Load, NoCommit, NoFault
  <2>2. /\ loaded'[s] \in Inputs(s) /\ pc'[s] = "prepare"
        /\ \A t \in Stmts \ {s} : pc'[t] = pc[t] /\ loaded'[t] = loaded[t]
    BY <1>1, <1>4 DEF Load, TypeOK
  <2>3. applied[s] = 0 /\ answer'[s] # "ok"
    BY <1>1, <2>1, NotYetApplied DEF Tracked
  <2> QED
    BY <2>1, <2>2, <2>3, ChangesKept
<1>5. CASE Prepare(s) \/ Rebase(s)
  <2>1. /\ table' = table /\ applied' = applied /\ kind' = kind /\ seen' = seen /\ loaded' = loaded
        /\ pc[s] \in {"prepare", "post"} /\ answer' = answer
    BY <1>5 DEF Prepare, Rebase, NoCommit, NoFault
  <2>2. pc'[s] # "plan" /\ \A t \in Stmts \ {s} : pc'[t] = pc[t]
    BY <1>1, <1>5 DEF Prepare, Rebase, TypeOK
  <2>3. answer'[s] = "ok" => applied[s] >= 1
    BY <1>1, <2>1 DEF Follows
  <2> QED
    BY <2>1, <2>2, <2>3, ChangesKept
<1>7. ASSUME NoCommit \/ (pc[s] = "post" /\ Take(s)), answer'[s] = "ok" => applied'[s] >= 1,
             kind' = kind, seen' = seen, loaded' = loaded, pc'[s] \in {"load", "done"},
             \A t \in Stmts \ {s} : pc'[t] = pc[t] /\ answer'[t] = answer[t]
      PROVE  ChangesTracked'
  <2>1. CASE NoCommit
    <3>1. table' = table /\ applied' = applied
      BY <2>1 DEF NoCommit
    <3> QED
      BY <1>7, <3>1, ChangesKept
  <2>2. CASE pc[s] = "post" /\ Take(s)
    <3>1. applied[s] = 0
      BY <2>2, NotYetApplied
    <3>2. /\ table' = Apply(table, Change(s)) /\ table.ver = base[s]
          /\ applied' = [applied EXCEPT ![s] = applied[s] + 1]
      BY <1>1, <2>2, TakeEffect
    <3> QED
      BY <1>7, <2>2, <3>1, <3>2, ChangesApplied
  <2> QED
    BY <1>7, <2>1, <2>2
<1>8. ASSUME NEW a, NEW d, Closes(s, a, d)
      PROVE  ChangesTracked'
  <2>1. /\ End(s, a, d) /\ kind' = kind
        /\ NoCommit \/ (pc[s] = "post" /\ Take(s))
        /\ a = "ok" => Take(s)
    BY <1>2, <1>8 DEF Closes
  <2>2. /\ seen' = seen /\ loaded' = loaded /\ pc'[s] = "done" /\ answer'[s] = a
        /\ \A t \in Stmts \ {s} : pc'[t] = pc[t] /\ answer'[t] = answer[t]
    BY <1>1, <2>1 DEF End, TypeOK
  <2>3. Take(s) => applied'[s] >= 1
    BY <1>1 DEF Take, TypeOK
  <2> QED
    BY <1>7, <2>1, <2>2, <2>3
<1>9. ASSUME NEW u, NEW h, NEW d, Repeats(s, u, h, d)
      PROVE  ChangesTracked'
  <2>1. /\ Again(s, u, h, d) /\ kind' = kind /\ pc[s] \in {"prepare", "post"}
        /\ NoCommit \/ (pc[s] = "post" /\ Take(s))
    BY <1>2, <1>9 DEF Repeats
  <2>2. /\ seen' = seen /\ loaded' = loaded /\ pc'[s] = "load" /\ answer' = answer
        /\ \A t \in Stmts \ {s} : pc'[t] = pc[t]
    BY <1>1, <2>1 DEF Again, TypeOK
  <2>3. answer[s] = "none"
    BY <1>1, <2>1 DEF Tracked
  <2> QED
    BY <1>7, <2>1, <2>2, <2>3
<1> QED
  BY <1>1, <1>3, <1>4, <1>5, <1>8, <1>9, StepShapes

\* The first state.
LEMMA ChangesInit ==
  ASSUME Mixes \subseteq Compatible
  PROVE  Init /\ RowsTracked => ChangesTracked
<1> SUFFICES ASSUME Init, RowsTracked PROVE ChangesTracked
  OBVIOUS
<1>1. table \in {EmptyTable, SeedTable} /\ kind \in Compatible /\ table.ver = 0
  BY FirstTables DEF Init
<1>2. Row(<<Seed, 0>>, Seed, {}).key = Seed
  BY DEF Row
<1>3. \A r \in table.rows : r.key = Seed
  BY <1>1, <1>2, FirstTables
<1>4. Keys(table.rows) \subseteq {Seed}
  BY <1>3 DEF Keys
<1>5. \A s \in Stmts : seen[s] = table /\ pc[s] \in {"plan", "load"} /\ answer[s] = "none" /\ applied[s] = 0
  BY DEF Init
<1>6. \A r \in table.rows : \A q \in table.rows : q.key = r.key => q = r
  BY DEF RowsTracked, Neat
<1> QED
  BY <1>1, <1>4, <1>5, <1>6 DEF ChangesTracked, Follows

\* For the mixes whose statements the commits keep apart, a change a client was
\* told of stays in the table, if no request is applied late and whatever else
\* fails: a rewrite carries every row of the files it removes, a row delta is
\* pinned to the snapshot it was checked against, position deletes go only
\* to files that are still there (handle_delete_mor), and a compaction that
\* planned before a DELETE or an UPDATE and commits after it is refused, or
\* its rows are hidden by the newer equality delete (rewrite_data_files).
THEOREM ChangesAlwaysSurvive ==
  ASSUME "late" \notin Faults, Mixes \subseteq Compatible
  PROVE  Spec => []ChangesSurvive
<1>1. Mixes \subseteq RewritesAmongAppends
  BY DEF Compatible
<1>2. WriteInv /\ WriteInv' /\ Once /\ RowsTracked /\ ChangesTracked /\ [Next]_vars
        => ChangesTracked'
  <2> SUFFICES ASSUME WriteInv, WriteInv', Once, RowsTracked, ChangesTracked, [Next]_vars
               PROVE  ChangesTracked'
    OBVIOUS
  <2>1. CASE UNCHANGED vars
    BY <2>1 DEF vars, stmtVars, ChangesTracked, Follows, Survives
  <2>2. ASSUME NEW s \in Stmts, Step(s) \/ Failure(s)
        PROVE  ChangesTracked'
    BY <2>2, ChangesStep
  <2>3. ASSUME NEW r \in late
        PROVE  ChangesTracked'
    BY <2>3 DEF Once
  <2> QED
    BY <2>1, <2>2, <2>3 DEF Next
<1>3. ChangesTracked => ChangesSurvive
  BY DEF ChangesTracked, Follows, Survives, ChangesSurvive
<1> QED
  BY <1>1, <1>2, <1>3, ChangesInit, RowsInit, RowsInvariant, PTL DEF Spec


-----------------------------------------------------------------------------
(* Late requests: at most one application, when no file is removed. *)

\* An INSERT is applied if and only if the table has its file, and no request
\* of it that the catalog would still take finds the file there.
InsertOnce(s) ==
  kind[s] = "append" =>
    /\ applied[s] <= 1
    /\ applied[s] = 1 <=> <<s, 1>> \in table.files
    /\ pc[s] = "post" /\ base[s] = table.ver => <<s, 1>> \notin table.files
    /\ \A r \in late : r.stmt = s /\ r.ver = table.ver => <<s, 1>> \notin table.files

\* All requests of a merge-on-read statement ask for one version, so after one
\* of them is applied the others come too late.
DeltaOnce(s) ==
  kind[s] \in {"delta", "posdelete"} =>
    /\ applied[s] <= 1
    /\ applied[s] = 1 => /\ pc[s] = "done" \/ MovedOn(s)
                         /\ \A r \in late : r.stmt = s => r.ver < table.ver
    /\ \A r \in late : r.stmt = s =>
         /\ pc[s] = "done" \/ r.ver \in unk[s]
         /\ \A q \in late : q.stmt = s => q.ver = r.ver

\* A compaction sends one request whose answer it does not get, and ends.
CompactOnce(s) ==
  kind[s] = "compact" =>
    /\ applied[s] <= 1
    /\ pc[s] # "done" => applied[s] = 0 /\ \A r \in late : r.stmt # s
    /\ \A r \in late : r.stmt = s => applied[s] = 0 /\ \A q \in late : q.stmt = s => q = r

SentOnce ==
  /\ kind \in NothingRemoved
  /\ \A s \in Stmts : InsertOnce(s) /\ DeltaOnce(s) /\ CompactOnce(s)
  /\ \A r \in late : /\ kind[r.stmt] # "compact" => r.change.drops = {}
                     /\ \A f \in r.change.adds : Owner(f) = r.stmt
                     /\ kind[r.stmt] = "append" => <<r.stmt, 1>> \in r.change.adds


\* What a step of s may do to the catalog: nothing, or apply a request of s.
Moves(s) ==
  \/ table' = table /\ applied' = applied
  \/ /\ table'.ver = table.ver + 1
     /\ applied' = [applied EXCEPT ![s] = applied[s] + 1]
     /\ \A f \in table'.files : f \in table.files \/ Owner(f) = s
     /\ kind[s] # "compact" => table.files \subseteq table'.files

\* The other statements.
LEMMA OthersSentOnce ==
  ASSUME WriteInv, SentOnce, NEW s \in Stmts, Moves(s), kind' = kind,
         \A r \in late' : r \in late \/ r.stmt = s,
         NEW t \in Stmts, t # s, pc'[t] = pc[t], base'[t] = base[t], unk'[t] = unk[t]
  PROVE  InsertOnce(t)' /\ DeltaOnce(t)' /\ CompactOnce(t)'
<1>1. /\ TypeOK /\ Tracked(t) /\ table.ver \in Nat /\ base[t] \in Nat /\ unk[t] \subseteq Nat
      /\ applied \in [Stmts -> Nat] /\ LateTracked
  BY Numbers DEF WriteInv, TypeOK
<1>2. applied'[t] = applied[t] /\ InsertOnce(t) /\ DeltaOnce(t) /\ CompactOnce(t)
  BY <1>1 DEF Moves, SentOnce
<1>3. table' = table \/ table'.ver = table.ver + 1
  BY DEF Moves
<1>4. \A r \in late' : r.stmt = t => r \in late
  OBVIOUS
<1>5. \A r \in late : r.ver \in Nat /\ r.ver <= table.ver
  BY <1>1 DEF TypeOK, Requests, LateTracked
<1>6. ASSUME kind[t] = "append"
      PROVE  <<t, 1>> \in table'.files <=> <<t, 1>> \in table.files
  <2>1. kind[s] # "compact"
    BY <1>6 DEF SentOnce, NothingRemoved
  <2>2. Owner(<<t, 1>>) = t
    BY DEF Owner
  <2> QED
    BY <2>1, <2>2 DEF Moves
<1>7. InsertOnce(t)'
  <2>1. SUFFICES ASSUME kind[t] = "append"
                 PROVE  InsertOnce(t)'
    BY DEF InsertOnce
  <2>2. pc[t] = "post" => base[t] <= table.ver
    BY <1>1 DEF Tracked
  <2> QED
    BY <1>1, <1>2, <1>3, <1>4, <1>5, <1>6, <2>1, <2>2 DEF InsertOnce
<1>8. DeltaOnce(t)'
  <2>1. MovedOn(t) => MovedOn(t)'
    BY <1>1, <1>3 DEF MovedOn
  <2>2. \A r \in late : r.ver < table.ver => r.ver < table'.ver
    BY <1>1, <1>3, <1>5
  <2> QED
    BY <1>2, <1>4, <2>1, <2>2 DEF DeltaOnce
<1>9. CompactOnce(t)'
  BY <1>2, <1>4 DEF CompactOnce
<1> QED
  BY <1>7, <1>8, <1>9

\* Every part of the invariant, from the statement that takes the step.
LEMMA SentOnceFrom ==
  ASSUME WriteInv, SentOnce, NEW s \in Stmts, Moves(s), kind' = kind,
         \A r \in late' : r \in late \/ r.stmt = s,
         \A t \in Stmts \ {s} : pc'[t] = pc[t] /\ base'[t] = base[t] /\ unk'[t] = unk[t],
         InsertOnce(s)', DeltaOnce(s)', CompactOnce(s)',
         \A r \in late' \ late :
           /\ kind[r.stmt] # "compact" => r.change.drops = {}
           /\ \A f \in r.change.adds : Owner(f) = r.stmt
           /\ kind[r.stmt] = "append" => <<r.stmt, 1>> \in r.change.adds
  PROVE  SentOnce'
<1>1. \A t \in Stmts : InsertOnce(t)' /\ DeltaOnce(t)' /\ CompactOnce(t)'
  BY OthersSentOnce
<1>3. \A r \in late' : /\ kind'[r.stmt] # "compact" => r.change.drops = {}
                       /\ \A f \in r.change.adds : Owner(f) = r.stmt
                       /\ kind'[r.stmt] = "append" => <<r.stmt, 1>> \in r.change.adds
  BY DEF SentOnce
<1> QED
  BY <1>1, <1>3 DEF SentOnce

\* A request of a statement other than a compaction removes no file and adds
\* the statement's own.
LEMMA SentFiles ==
  ASSUME TypeOK, kind \in NothingRemoved, NEW s \in Stmts
  PROVE  /\ kind[s] # "compact" => Change(s).drops = {}
         /\ \A f \in Change(s).adds : Owner(f) = s
         /\ kind[s] = "append" => <<s, 1>> \in Change(s).adds
<1>1. kind[s] \in Kinds \ {"rewrite"}
  BY DEF NothingRemoved
<1>2. Owner(FileOf(s)) = s /\ (kind[s] = "append" => FileOf(s) = <<s, 1>>)
  BY DEF Owner, FileOf, Rewrites
<1> QED
  BY <1>1, <1>2, ChangeParts, ZenonT(60)

\* A request is applied.
LEMMA AppliedMoves ==
  ASSUME TypeOK, NEW s \in Stmts, NEW c \in Changes, table' = Apply(table, c),
         applied' = [applied EXCEPT ![s] = applied[s] + 1],
         kind[s] # "compact" => c.drops = {}, \A f \in c.adds : Owner(f) = s,
         kind[s] = "append" => <<s, 1>> \in c.adds
  PROVE  /\ Moves(s) /\ applied'[s] = applied[s] + 1 /\ table'.ver = table.ver + 1
         /\ kind[s] = "append" => <<s, 1>> \in table'.files
<1>1. table \in Tables
  BY DEF TypeOK
<1>2. table'.ver = table.ver + 1 /\ table'.files = (table.files \ c.drops) \cup c.adds
  BY <1>1, ApplyParts
<1>3. applied'[s] = applied[s] + 1
  BY DEF TypeOK
<1> QED
  BY <1>2, <1>3 DEF Moves

\* A step that leaves the catalog alone.
LEMMA SentOnceKept ==
  ASSUME WriteInv, SentOnce, NEW s \in Stmts, kind' = kind, NoCommit,
         \A t \in Stmts \ {s} : pc'[t] = pc[t] /\ base'[t] = base[t] /\ unk'[t] = unk[t],
         pc[s] # "done", unk'[s] = unk[s] \/ (unk[s] = {} /\ pc'[s] # "done"),
         pc'[s] = "post" => /\ base'[s] = table.ver
                            /\ kind[s] = "append" => <<s, 1>> \notin table.files
  PROVE  SentOnce'
<1>1. table' = table /\ applied' = applied /\ late' = late
  BY DEF NoCommit
<1>2. Moves(s) /\ (\A r \in late' : r \in late)
  BY <1>1 DEF Moves
<1>3. InsertOnce(s) /\ DeltaOnce(s) /\ CompactOnce(s)
  BY DEF SentOnce
<1>6. CompactOnce(s)'
  BY <1>1, <1>3 DEF CompactOnce
<1>4. InsertOnce(s)'
  BY <1>1, <1>3 DEF InsertOnce
<1>5. DeltaOnce(s)'
  <2>1. SUFFICES ASSUME kind[s] \in {"delta", "posdelete"}
                 PROVE  DeltaOnce(s)'
    BY DEF DeltaOnce
  <2>2. CASE unk'[s] = unk[s]
    BY <1>1, <1>3, <2>1, <2>2 DEF DeltaOnce, MovedOn
  <2>3. CASE unk[s] = {}
    <3>1. applied[s] # 1 /\ \A r \in late : r.stmt # s
      BY <1>3, <2>1, <2>3 DEF DeltaOnce, MovedOn
    <3> QED
      BY <1>1, <1>3, <2>1, <3>1 DEF DeltaOnce
  <2> QED
    BY <2>2, <2>3
<1> QED
  BY <1>1, <1>2, <1>4, <1>5, <1>6, SentOnceFrom

\* A request that is applied while its statement waits for the answer.
LEMMA SentOnceTaken ==
  ASSUME WriteInv, SentOnce, NEW s \in Stmts, kind' = kind, pc[s] = "post", Take(s),
         \A t \in Stmts \ {s} : pc'[t] = pc[t] /\ base'[t] = base[t] /\ unk'[t] = unk[t],
         \/ pc'[s] = "done" /\ unk'[s] = unk[s]
         \/ /\ pc'[s] = "load" /\ kind[s] # "compact"
            /\ unk'[s] = IF unk[s] = {} THEN {loaded[s].ver} ELSE unk[s]
  PROVE  SentOnce'
<1>1. /\ TypeOK /\ Tracked(s) /\ table.ver \in Nat /\ base[s] \in Nat /\ unk[s] \subseteq Nat
      /\ loaded[s].ver \in Nat /\ applied[s] \in Nat /\ LateTracked /\ Change(s) \in Changes
      /\ kind[s] \in Kinds /\ kind[s] # "rewrite"
  BY Numbers, ChangeType DEF WriteInv, Tracked, SentOnce, NothingRemoved
<1>2. /\ table' = Apply(table, Change(s)) /\ table.ver = base[s] /\ late' = late
      /\ applied' = [applied EXCEPT ![s] = applied[s] + 1]
  BY <1>1, TakeEffect
<1>3. /\ Moves(s) /\ applied'[s] = applied[s] + 1 /\ table'.ver = table.ver + 1
      /\ kind[s] = "append" => <<s, 1>> \in table'.files
  BY <1>1, <1>2, SentFiles, AppliedMoves DEF SentOnce
<1>4. \A r \in late : r.ver \in Nat /\ r.ver <= table.ver /\ r.ver < table'.ver
  BY <1>1, <1>3 DEF TypeOK, Requests, LateTracked
<1>5. InsertOnce(s) /\ DeltaOnce(s) /\ CompactOnce(s)
  BY DEF SentOnce
<1>8. CompactOnce(s)'
  BY <1>1, <1>2, <1>3, <1>5 DEF CompactOnce
<1>6. InsertOnce(s)'
  <2>1. SUFFICES ASSUME kind[s] = "append"
                 PROVE  InsertOnce(s)'
    BY DEF InsertOnce
  <2>2. applied[s] = 0
    BY <1>1, <1>2, <1>5, <2>1 DEF InsertOnce
  <2>3. \A r \in late' : r.ver # table'.ver
    BY <1>2, <1>3, <1>4
  <2> QED
    BY <1>3, <2>2, <2>3 DEF InsertOnce
<1>7. DeltaOnce(s)'
  <2>1. SUFFICES ASSUME kind[s] \in {"delta", "posdelete"}
                 PROVE  DeltaOnce(s)'
    BY DEF DeltaOnce
  <2>2. loaded[s].ver = table.ver /\ \A v \in unk[s] : v = table.ver
    BY <1>1, <1>2, <2>1 DEF Tracked
  <2>3. applied[s] = 0
    BY <1>1, <1>5, <2>1, <2>2 DEF DeltaOnce, MovedOn
  <2>4. pc'[s] = "done" \/ MovedOn(s)'
    BY <1>1, <1>3, <2>2 DEF MovedOn
  <2>5. \A r \in late : r.stmt = s =>
          /\ pc'[s] = "done" \/ r.ver \in unk'[s]
          /\ \A q \in late : q.stmt = s => q.ver = r.ver
    BY <1>5, <2>1 DEF DeltaOnce
  <2> QED
    BY <1>2, <1>3, <1>4, <2>1, <2>3, <2>4, <2>5 DEF DeltaOnce
<1> QED
  BY <1>1, <1>2, <1>3, <1>6, <1>7, <1>8, SentOnceFrom

\* A request that is left to be applied later.
LEMMA SentOnceLater ==
  ASSUME WriteInv, SentOnce, NEW s \in Stmts, kind' = kind, pc[s] = "post",
         late' = late \cup {[stmt |-> s, ver |-> base[s], change |-> Change(s)]},
         table' = table, applied' = applied,
         \A t \in Stmts \ {s} : pc'[t] = pc[t] /\ base'[t] = base[t] /\ unk'[t] = unk[t],
         \/ pc'[s] = "done" /\ unk'[s] = unk[s]
         \/ /\ pc'[s] = "load" /\ kind[s] # "compact"
            /\ unk'[s] = IF unk[s] = {} THEN {loaded[s].ver} ELSE unk[s]
  PROVE  SentOnce'
<1>1. /\ TypeOK /\ Tracked(s) /\ table.ver \in Nat /\ base[s] \in Nat /\ unk[s] \subseteq Nat
      /\ loaded[s].ver \in Nat /\ applied[s] \in Nat /\ LateTracked
      /\ kind[s] \in Kinds /\ kind[s] # "rewrite"
  BY Numbers DEF WriteInv, Tracked, SentOnce, NothingRemoved
<1>2. PICK n : n = [stmt |-> s, ver |-> base[s], change |-> Change(s)]
  OBVIOUS
<1>3. n.stmt = s /\ n.ver = base[s] /\ n.change = Change(s) /\ late' = late \cup {n}
  BY <1>2
<1>4. /\ kind[n.stmt] # "compact" => n.change.drops = {}
      /\ (\A f \in n.change.adds : Owner(f) = n.stmt)
      /\ kind[n.stmt] = "append" => <<n.stmt, 1>> \in n.change.adds
  BY <1>1, <1>3, SentFiles DEF SentOnce
<1>5. InsertOnce(s) /\ DeltaOnce(s) /\ CompactOnce(s) /\ Moves(s)
  BY DEF SentOnce, Moves
<1>9. CompactOnce(s)'
  BY <1>3, <1>5 DEF CompactOnce
<1>6. InsertOnce(s)'
  BY <1>3, <1>5 DEF InsertOnce
<1>7. DeltaOnce(s)'
  <2>1. SUFFICES ASSUME kind[s] \in {"delta", "posdelete"}
                 PROVE  DeltaOnce(s)'
    BY DEF DeltaOnce
  <2>2. base[s] = loaded[s].ver /\ \A v \in unk[s] : v = base[s]
    BY <1>1, <2>1 DEF Tracked
  <2>3. \A r \in late : r.stmt = s => r.ver \in unk[s] /\ r.ver = base[s]
    BY <1>5, <2>1, <2>2 DEF DeltaOnce
  <2>4. \A r \in late' : r.stmt = s =>
          /\ pc'[s] = "done" \/ r.ver \in unk'[s]
          /\ \A q \in late' : q.stmt = s => q.ver = r.ver
    BY <1>3, <2>2, <2>3
  <2>5. ASSUME applied[s] = 1
        PROVE  /\ pc'[s] = "done" \/ MovedOn(s)'
               /\ \A r \in late' : r.stmt = s => r.ver < table.ver
    <3>1. MovedOn(s) /\ base[s] < table.ver
      BY <1>5, <2>1, <2>2, <2>5 DEF DeltaOnce, MovedOn
    <3> QED
      BY <1>3, <2>3, <3>1 DEF MovedOn
  <2> QED
    BY <1>5, <2>1, <2>4, <2>5 DEF DeltaOnce
<1>8. \A r \in late' : r \in late \/ r = n
  BY <1>3
<1> QED
  BY <1>1, <1>3, <1>4, <1>5, <1>6, <1>7, <1>8, <1>9, SentOnceFrom


\* Every step of a statement.
LEMMA SentOnceStep ==
  ASSUME WriteInv, SentOnce, NEW s \in Stmts, Step(s) \/ Failure(s)
  PROVE  SentOnce'
<1>1. TypeOK /\ Tracked(s) /\ faults \in 0..MaxFaults /\ table.ver \in Nat
  BY Numbers DEF WriteInv, TypeOK
<1>2. CASE Plan(s) \/ Load(s) \/ Rebase(s)
  <2>1. /\ NoCommit /\ kind' = kind /\ base' = base /\ unk' = unk /\ pc[s] # "done"
    BY <1>2 DEF Plan, Load, Rebase, NoFault
  <2>2. pc'[s] # "post" /\ \A t \in Stmts \ {s} : pc'[t] = pc[t]
    BY <1>1, <1>2 DEF Plan, Load, Rebase, TypeOK
  <2> QED
    BY <2>1, <2>2, SentOnceKept
<1>3. CASE Prepare(s)
  <2>1. /\ NoCommit /\ kind' = kind /\ unk' = unk /\ pc[s] # "done" /\ Valid(s)
    BY <1>3 DEF Prepare, NoFault
  <2>2. base'[s] = table.ver /\ \A t \in Stmts \ {s} : pc'[t] = pc[t] /\ base'[t] = base[t]
    BY <1>1, <1>3 DEF Prepare, TypeOK
  <2>3. kind[s] = "append" => <<s, 1>> \notin table.files
    BY <2>1 DEF Valid, FileOf, Rewrites
  <2> QED
    BY <2>1, <2>2, <2>3, SentOnceKept
<1>5. ASSUME NEW a, NEW d, Closes(s, a, d)
      PROVE  SentOnce'
  <2>1. /\ End(s, a, d) /\ kind' = kind /\ pc[s] # "done"
        /\ NoCommit \/ (pc[s] = "post" /\ (Take(s) \/ Vanish(s)))
    BY <1>5 DEF Closes
  <2>2. /\ base' = base /\ unk' = unk /\ pc'[s] = "done" /\ \A t \in Stmts \ {s} : pc'[t] = pc[t]
    BY <1>1, <2>1 DEF End, TypeOK
  <2>3. CASE NoCommit
    BY <2>1, <2>2, <2>3, SentOnceKept
  <2>4. CASE pc[s] = "post" /\ Take(s)
    BY <2>1, <2>2, <2>4, SentOnceTaken
  <2>5. CASE pc[s] = "post" /\ Vanish(s) /\ ~Take(s) /\ ~NoCommit
    BY <2>1, <2>2, <2>5, SentOnceLater DEF Vanish
  <2> QED
    BY <2>1, <2>3, <2>4, <2>5
<1>6. ASSUME NEW u, NEW h, NEW d, Repeats(s, u, h, d)
      PROVE  SentOnce'
  <2>1. /\ Again(s, u, h, d) /\ kind' = kind /\ pc[s] \in {"prepare", "post"}
    BY <1>6 DEF Repeats
  <2>2. /\ base' = base /\ unk'[s] = u /\ pc'[s] = "load"
        /\ \A t \in Stmts \ {s} : pc'[t] = pc[t] /\ unk'[t] = unk[t]
    BY <1>1, <2>1 DEF Again, TypeOK
  <2>3. \/ NoCommit /\ u = unk[s]
        \/ /\ pc[s] = "post" /\ Vanish(s) /\ kind[s] # "compact"
           /\ u = IF unk[s] = {} THEN {loaded[s].ver} ELSE unk[s]
    BY <1>6 DEF Repeats
  <2>4. CASE NoCommit
    BY <2>1, <2>2, <2>3, <2>4, SentOnceKept
  <2>5. CASE /\ pc[s] = "post" /\ Take(s) /\ kind[s] # "compact"
             /\ u = IF unk[s] = {} THEN {loaded[s].ver} ELSE unk[s]
    BY <2>1, <2>2, <2>5, SentOnceTaken
  <2>6. CASE /\ pc[s] = "post" /\ Vanish(s) /\ ~Take(s) /\ ~NoCommit /\ kind[s] # "compact"
             /\ u = IF unk[s] = {} THEN {loaded[s].ver} ELSE unk[s]
    BY <2>1, <2>2, <2>6, SentOnceLater DEF Vanish
  <2> QED
    BY <2>3, <2>4, <2>5, <2>6
<1> QED
  BY <1>1, <1>2, <1>3, <1>5, <1>6, StepShapes

\* A request that arrives late.
LEMMA SentOnceLand ==
  ASSUME WriteInv, SentOnce, NEW r \in late, Land(r)
  PROVE  SentOnce'
<1>1. TypeOK /\ LateTracked /\ r \in Requests
  BY DEF WriteInv, TypeOK
<1>2. PICK s : s = r.stmt
  OBVIOUS
<1>3. /\ s \in Stmts /\ r.ver \in Nat /\ r.change \in Changes
  BY <1>1, <1>2 DEF Requests, LateTracked
<1>4. /\ table.ver \in Nat /\ applied[s] \in Nat /\ Tracked(s) /\ unk[s] \subseteq Nat
  BY <1>1, <1>3, Numbers DEF WriteInv
<1>5. /\ late' = late \ {r} /\ kind' = kind /\ pc' = pc /\ base' = base /\ unk' = unk
  BY DEF Land, NoFault, stmtVars
<1>6. InsertOnce(s) /\ DeltaOnce(s) /\ CompactOnce(s)
  BY <1>3 DEF SentOnce
<1>7. \A q \in late : q.ver \in Nat /\ q.ver <= table.ver
  BY <1>1 DEF TypeOK, Requests, LateTracked
<1>8. CASE table.ver # r.ver
  <2>1. table' = table /\ applied' = applied
    BY <1>8 DEF Land
  <2>2. InsertOnce(s)' /\ DeltaOnce(s)' /\ Moves(s)
    BY <1>5, <1>6, <2>1 DEF InsertOnce, DeltaOnce, MovedOn, Moves
  <2>3. CompactOnce(s)'
    BY <1>5, <1>6, <2>1 DEF CompactOnce
  <2> QED
    BY <1>3, <1>5, <2>1, <2>2, <2>3, SentOnceFrom
<1>9. CASE table.ver = r.ver
  <2>1. /\ table' = Apply(table, r.change)
        /\ applied' = [applied EXCEPT ![s] = applied[s] + 1]
    BY <1>2, <1>9 DEF Land
  <2>2. /\ kind[s] # "compact" => r.change.drops = {}
        /\ (\A f \in r.change.adds : Owner(f) = s)
        /\ kind[s] = "append" => <<s, 1>> \in r.change.adds
    BY <1>2 DEF SentOnce
  <2>3. /\ Moves(s) /\ applied'[s] = applied[s] + 1 /\ table'.ver = table.ver + 1
        /\ kind[s] = "append" => <<s, 1>> \in table'.files
    BY <1>1, <1>3, <2>1, <2>2, AppliedMoves
  <2>4. InsertOnce(s)'
    <3>1. SUFFICES ASSUME kind[s] = "append"
                   PROVE  InsertOnce(s)'
      BY <1>5 DEF InsertOnce
    <3>2. applied[s] = 0
      BY <1>2, <1>4, <1>6, <1>9, <3>1 DEF InsertOnce
    <3>3. (\A q \in late' : q.ver # table'.ver) /\ ~(pc'[s] = "post" /\ base'[s] = table'.ver)
      BY <1>4, <1>5, <1>7, <2>3, Numbers, <1>1, <1>3 DEF Tracked
    <3> QED
      BY <1>5, <2>3, <3>1, <3>2, <3>3 DEF InsertOnce
  <2>5. DeltaOnce(s)'
    <3>1. SUFFICES ASSUME kind[s] \in {"delta", "posdelete"}
                   PROVE  DeltaOnce(s)'
      BY <1>5 DEF DeltaOnce
    <3>2. applied[s] = 0
      BY <1>2, <1>4, <1>6, <1>9, <3>1 DEF DeltaOnce
    <3>3. pc[s] = "done" \/ (r.ver \in unk[s] /\ \A v \in unk[s] : v = r.ver)
      BY <1>2, <1>4, <1>6, <3>1 DEF DeltaOnce, Tracked
    <3>4. pc'[s] = "done" \/ MovedOn(s)'
      BY <1>4, <1>5, <1>9, <2>3, <3>3 DEF MovedOn
    <3>5. \A q \in late' : q.ver < table'.ver
      BY <1>4, <1>5, <1>7, <2>3
    <3> QED
      BY <1>5, <1>6, <2>3, <3>1, <3>2, <3>4, <3>5 DEF DeltaOnce
  <2>6. CompactOnce(s)'
    BY <1>2, <1>5, <1>6, <2>3 DEF CompactOnce
  <2> QED
    BY <1>3, <1>5, <2>3, <2>4, <2>5, <2>6, SentOnceFrom
<1> QED
  BY <1>8, <1>9

\* The first state.
LEMMA SentOnceInit ==
  ASSUME Mixes \subseteq NothingRemoved
  PROVE  Init => SentOnce
<1> SUFFICES ASSUME Init PROVE SentOnce
  OBVIOUS
<1>1. table \in {EmptyTable, SeedTable} /\ kind \in NothingRemoved /\ late = {}
  BY DEF Init
<1>2. \A s \in Stmts : <<s, 1>> \notin table.files
  <2>1. table.files \subseteq {<<Seed, 0>>}
    BY <1>1, FirstTables
  <2> QED
    BY <2>1
<1>3. \A s \in Stmts : applied[s] = 0 /\ pc[s] \in {"plan", "load"}
  BY DEF Init
<1> QED
  BY <1>1, <1>2, <1>3 DEF SentOnce, InsertOnce, DeltaOnce, CompactOnce

\* In the mixes in which nothing removes a file that is written once, every
\* statement is applied at most once under every fault, requests applied
\* after their caller gave up included: fast_append refuses a file the table
\* has, all requests of a row delta are pinned to one version, and a
\* compaction gives up on its first unknown outcome.
THEOREM AppliedOnceThoughLate ==
  ASSUME Mixes \subseteq NothingRemoved
  PROVE  Spec => []AppliedOnce
<1>1. WriteInv /\ SentOnce /\ [Next]_vars => SentOnce'
  <2> SUFFICES ASSUME WriteInv, SentOnce, [Next]_vars
               PROVE  SentOnce'
    OBVIOUS
  <2>1. CASE UNCHANGED vars
    BY <2>1 DEF vars, stmtVars, SentOnce, InsertOnce, DeltaOnce, CompactOnce, MovedOn
  <2> QED
    BY <2>1, SentOnceStep, SentOnceLand DEF Next
<1>2. SentOnce => AppliedOnce
  <2>1. ASSUME SentOnce, NEW s \in Stmts
        PROVE  applied[s] <= 1
    <3>1. kind[s] \in Kinds \ {"rewrite"}
      BY <2>1 DEF SentOnce, NothingRemoved
    <3> QED
      BY <2>1, <3>1 DEF SentOnce, InsertOnce, DeltaOnce, CompactOnce, Kinds
  <2> QED
    BY <2>1 DEF AppliedOnce
<1> QED
  BY <1>1, <1>2, SentOnceInit, WriteInvariant, PTL DEF Spec


=============================================================================
