---------------------------- MODULE WriteCommit ----------------------------
(* How a write statement commits to an Iceberg table outside a transaction:
   commit_with_retry (sqe-write/commit.rs) for the statements that keep
   their files from one attempt to the next, commit_rewrite_with_retry
   (write_handler.rs) for the copy-on-write ones, which rewrite the table
   again for every attempt, rewrite_data_files (maintenance.rs), which plans
   a compaction again for every attempt, Transaction::commit of the vendored
   iceberg-rust below the three, and WriteCleanupGuard, which deletes the
   data files of a write that did not commit.

   A snapshot of the table is the set of its live files, of its live rows
   and of its delete files; its version is its sequence number. A row has a
   key, the file it lives in and the statements whose change it carries. The
   kinds of statement:
     append     INSERT, CTAS, ingest: fast_append
     rewrite    copy-on-write UPDATE, DELETE, MERGE: overwrite_files
     delta      merge-on-read UPDATE, MERGE, equality DELETE: row_delta
     posdelete  merge-on-read DELETE with position deletes: row_delta
     compact    CALL system.rewrite_data_files, or the scheduler's job, on
                the coordinator: replaces files, not rows *)
EXTENDS Naturals, FiniteSets

CONSTANTS
  Stmts,        \* the statements
  Mixes,        \* the kinds of the statements, one assignment per client mix
  Seed,         \* owner of the file the table starts with
  MaxAttempts,  \* bound of the code: MAX_ATTEMPTS, COW_MAX_ATTEMPTS,
                \* MAX_COMMIT_ATTEMPTS
  MaxInner,     \* bound of the code: commit.retry.num-retries
  Faults,       \* the faults that may happen
  MaxFaults     \* bound: faults in a behaviour

Kinds == {"append", "rewrite", "delta", "posdelete", "compact"}
FaultKinds == {"load", "auth", "unknown", "late", "transport", "cancel"}

ASSUME WriteAssumption ==
  /\ Mixes \subseteq [Stmts -> Kinds]
  /\ Seed \notin Stmts
  /\ MaxAttempts \in Nat \ {0}
  /\ MaxInner \in Nat
  /\ Faults \subseteq FaultKinds
  /\ MaxFaults \in Nat

VARIABLES
  kind,      \* kind[s]: what kind of statement s is
  table,     \* what the catalog holds
  gone,      \* the data files deleted by cleanup guards
  pc,        \* the step of each statement
  attempt,   \* attempt of the outer loop
  inner,     \* retries made by Transaction::commit
  seen,      \* the snapshot the statement read its rows from
  loaded,    \* the table loaded at the top of the attempt
  base,      \* the version the commit request requires
  unk,       \* base of an attempt of unknown outcome, {} when there is none
  held,      \* files of that attempt, whose guard a rewrite holds
  answer,    \* what the client was told
  applied,   \* how often a commit of the statement was applied
  late,      \* requests the catalog applies after their caller gave up
  faults     \* faults so far

stmtVars == <<pc, attempt, inner, seen, loaded, base, unk, held, answer>>
vars == <<kind, table, gone, stmtVars, applied, late, faults>>

Paths == (Stmts \X (0..MaxAttempts)) \cup {<<Seed, 0>>}
Rows == [file : Paths, key : Stmts \cup {Seed}, by : SUBSET Stmts]
Row(f, k, b) == [file |-> f, key |-> k, by |-> b]

\* The delete files of one commit: its sequence number, the keys of its
\* equality deletes, the data files its position deletes refer to.
Deletes == [ver : Nat, keys : SUBSET (Stmts \cup {Seed}), files : SUBSET Paths]

Tables == [ver : Nat, files : SUBSET Paths, rows : SUBSET Rows,
           deletes : SUBSET Deletes]
Table(v, fs, rs, ds) == [ver |-> v, files |-> fs, rows |-> rs, deletes |-> ds]

\* The change a commit request makes: files and rows it adds, files it
\* removes, keys its equality deletes hide, cells its position deletes hide,
\* and the sequence number its files are pinned to, {} for the commit's own.
Changes == [adds : SUBSET Paths, rows : SUBSET Rows, drops : SUBSET Paths,
            keys : SUBSET (Stmts \cup {Seed}),
            cells : SUBSET (Paths \X (Stmts \cup {Seed})),
            pins : SUBSET Nat]
Requests == [stmt : Stmts, ver : Nat, change : Changes]

Steps == {"plan", "load", "prepare", "post", "done"}
Answers == {"none", "ok", "empty", "failed", "unknown", "cancelled"}

TypeOK ==
  /\ kind \in [Stmts -> Kinds]
  /\ table \in Tables
  /\ gone \subseteq Paths
  /\ pc \in [Stmts -> Steps]
  /\ attempt \in [Stmts -> 1..MaxAttempts]
  /\ inner \in [Stmts -> 0..MaxInner]
  /\ seen \in [Stmts -> Tables]
  /\ loaded \in [Stmts -> Tables]
  /\ base \in [Stmts -> Nat]
  /\ unk \in [Stmts -> SUBSET Nat]
  /\ held \in [Stmts -> SUBSET Paths]
  /\ answer \in [Stmts -> Answers]
  /\ applied \in [Stmts -> Nat]
  /\ late \subseteq Requests
  /\ faults \in 0..MaxFaults

EmptyTable == Table(0, {}, {}, {})
SeedTable == Table(0, {<<Seed, 0>>}, {Row(<<Seed, 0>>, Seed, {})}, {})

Init ==
  /\ kind \in Mixes
  /\ table \in {EmptyTable, SeedTable}
  /\ gone = {}
  /\ pc = [s \in Stmts |-> IF kind[s] = "compact" THEN "load" ELSE "plan"]
  /\ attempt = [s \in Stmts |-> 1]
  /\ inner = [s \in Stmts |-> 0]
  /\ seen = [s \in Stmts |-> table]
  /\ loaded = [s \in Stmts |-> table]
  /\ base = [s \in Stmts |-> 0]
  /\ unk = [s \in Stmts |-> {}]
  /\ held = [s \in Stmts |-> {}]
  /\ answer = [s \in Stmts |-> "none"]
  /\ applied = [s \in Stmts |-> 0]
  /\ late = {}
  /\ faults = 0

-----------------------------------------------------------------------------
(* What a statement writes. *)

\* The statements that read the table and write their files anew in every
\* attempt.
Rewrites(s) == kind[s] \in {"rewrite", "compact"}

FileOf(s) == <<s, IF Rewrites(s) THEN attempt[s] ELSE 1>>

\* The files the cleanup guard of the running attempt watches. The delete
\* files of a merge-on-read statement have no guard.
Guarded(s) ==
  CASE kind[s] \in {"append", "delta"} -> {FileOf(s)}
    [] Rewrites(s) /\ pc[s] \in {"prepare", "post"} -> {FileOf(s)}
    [] OTHER -> {}

Updated(s, rs) == {Row(FileOf(s), r.key, r.by \cup {s}) : r \in rs}
Moved(s, rs) == {Row(FileOf(s), r.key, r.by) : r \in rs}
Keys(rs) == {r.key : r \in rs}
Cells(rs) == {<<r.file, r.key>> : r \in rs}
Files(rs) == {r.file : r \in rs}

\* The request of s, built on what it loaded (a rewrite, a compaction) or on
\* the snapshot it read (the others).
Change(s) ==
  [adds |-> IF kind[s] = "posdelete" THEN {} ELSE {FileOf(s)},
   rows |-> CASE kind[s] = "append" -> {Row(FileOf(s), s, {s})}
              [] kind[s] = "rewrite" -> Updated(s, loaded[s].rows)
              [] kind[s] = "delta" -> Updated(s, seen[s].rows)
              [] kind[s] = "compact" -> Moved(s, loaded[s].rows)
              [] OTHER -> {},
   drops |-> IF Rewrites(s) THEN loaded[s].files ELSE {},
   keys |-> IF kind[s] = "delta" THEN Keys(seen[s].rows) ELSE {},
   cells |-> IF kind[s] = "posdelete" THEN Cells(seen[s].rows) ELSE {},
   pins |-> IF kind[s] = "compact" THEN {loaded[s].ver} ELSE {}]

\* The delete files committed after version v.
Later(t, v) == {d \in t.deletes : d.ver > v}

\* The rows a request adds, as the table shows them: an equality delete newer
\* than the pin of a file applies to it.
Shown(t, c) ==
  {r \in c.rows : \A v \in c.pins : \A d \in Later(t, v) : r.key \notin d.keys}

\* The delete files of a request. The position deletes a compaction has
\* applied leave with their data files; the model keeps them, as those files
\* are never live again.
Added(t, c) ==
  {d \in {[ver |-> t.ver + 1, keys |-> c.keys, files |-> {x[1] : x \in c.cells}]} :
     d.keys # {} \/ d.files # {}}

\* Mutant of Apply: the overwrite lists what it adds and not what it removes.
ApplyAdds(t, c) ==
  Table(t.ver + 1,
        t.files \cup c.adds,
        {r \in t.rows : /\ r.key \notin c.keys
                        /\ <<r.file, r.key>> \notin c.cells} \cup Shown(t, c),
        t.deletes \cup Added(t, c))

\* A file or a row that is not there any more is not an error: overwrite
\* actions run without check_file_existence.
Apply(t, c) ==
  Table(t.ver + 1,
        (t.files \ c.drops) \cup c.adds,
        {r \in t.rows : /\ r.file \notin c.drops
                        /\ r.key \notin c.keys
                        /\ <<r.file, r.key>> \notin c.cells} \cup Shown(t, c),
        t.deletes \cup Added(t, c))

-----------------------------------------------------------------------------
(* The ends of a statement and of an attempt. *)

\* The statement answers a; its guards delete the files in dropped.
End(s, a, dropped) ==
  /\ pc' = [pc EXCEPT ![s] = "done"]
  /\ answer' = [answer EXCEPT ![s] = a]
  /\ gone' = gone \cup dropped
  /\ held' = [held EXCEPT ![s] = {}]
  /\ UNCHANGED <<attempt, inner, seen, loaded, base, unk>>

\* Mutant of GiveUp: the callers forget keep_if_outcome_unknown.
GiveUpDeletes(s) ==
  End(s, IF unk[s] = {} THEN "failed" ELSE "unknown", Guarded(s))

\* Mutant of GiveUp: the last error is reported, not the unknown outcome before it.
GiveUpLast(s) ==
  End(s, "failed", IF unk[s] = {} \/ kind[s] = "rewrite" THEN Guarded(s) ELSE {})

\* An error that is not retried. After an earlier unknown outcome that one
\* is the error, and commit_with_retry's callers keep their files.
GiveUp(s) ==
  IF unk[s] = {}
    THEN End(s, "failed", Guarded(s))
    ELSE End(s, "unknown", IF kind[s] = "rewrite" THEN Guarded(s) ELSE {})

\* Back to the top of the outer loop.
Again(s, u, h, dropped) ==
  /\ pc' = [pc EXCEPT ![s] = "load"]
  /\ attempt' = [attempt EXCEPT ![s] = attempt[s] + 1]
  /\ unk' = [unk EXCEPT ![s] = u]
  /\ held' = [held EXCEPT ![s] = h]
  /\ gone' = gone \cup dropped
  /\ UNCHANGED <<inner, seen, loaded, base, answer>>

\* A commit conflict that reached the outer loop.
Retry(s) ==
  IF attempt[s] < MaxAttempts
    THEN Again(s, unk[s], held[s], IF Rewrites(s) THEN Guarded(s) ELSE {})
    ELSE GiveUp(s)

\* The catalog could not say whether the commit was applied. A compaction
\* keeps its files and gives up.
Unsettled(s) ==
  IF attempt[s] < MaxAttempts /\ kind[s] # "compact"
    THEN Again(s, IF unk[s] = {} THEN {loaded[s].ver} ELSE unk[s],
               IF kind[s] = "rewrite" THEN Guarded(s) ELSE {}, {})
    ELSE End(s, "unknown", {})

Fault(f) ==
  /\ f \in Faults
  /\ faults < MaxFaults
  /\ faults' = faults + 1

NoFault == UNCHANGED <<kind, faults>>
NoCommit == UNCHANGED <<table, applied, late>>

-----------------------------------------------------------------------------
(* The steps of a statement. *)

\* Read the rows and write the data files. A merge-on-read statement that
\* matches nothing commits nothing.
Plan(s) ==
  /\ pc[s] = "plan"
  /\ ~(kind[s] \in {"delta", "posdelete"} /\ table.rows = {})
  /\ pc' = [pc EXCEPT ![s] = "load"]
  /\ seen' = [seen EXCEPT ![s] = table]
  /\ UNCHANGED <<gone, attempt, inner, loaded, base, unk, held, answer>>
  /\ NoCommit /\ NoFault

PlanNothing(s) ==
  /\ pc[s] = "plan"
  /\ kind[s] \in {"delta", "posdelete"}
  /\ table.rows = {}
  /\ End(s, "empty", {})
  /\ NoCommit /\ NoFault

\* After an unknown outcome the table is where that attempt found it.
Unmoved(s) == unk[s] = {} \/ table.ver \in unk[s]

\* handle_delete_mor: the data files the position deletes name are live.
StillLive(s) ==
  kind[s] = "posdelete" /\ table.ver # seen[s].ver
    => Files(seen[s].rows) \subseteq table.files

\* The files of a table a compaction may pick: any of its bin-packed groups.
Part(t, fs) == Table(t.ver, fs, {r \in t.rows : r.file \in fs}, t.deletes)

Inputs(s) ==
  IF kind[s] = "compact"
    THEN {Part(table, fs) : fs \in SUBSET table.files \ {{}}}
    ELSE {table}

\* The top of the loop. An unmoved table did not take the earlier commit:
\* the files of that attempt go.
Load(s) ==
  /\ pc[s] = "load"
  /\ Unmoved(s)
  /\ StillLive(s)
  /\ ~(kind[s] = "rewrite" /\ table.files = {})
  /\ pc' = [pc EXCEPT ![s] = "prepare"]
  /\ \E t \in Inputs(s) : loaded' = [loaded EXCEPT ![s] = t]
  /\ inner' = [inner EXCEPT ![s] = 0]
  /\ gone' = gone \cup held[s]
  /\ held' = [held EXCEPT ![s] = {}]
  /\ UNCHANGED <<attempt, seen, base, unk, answer>>
  /\ NoCommit /\ NoFault

\* Nothing to rewrite, or no group worth a compaction: no commit.
LoadNothing(s) ==
  /\ pc[s] = "load"
  /\ Unmoved(s)
  /\ kind[s] = "compact" \/ (kind[s] = "rewrite" /\ table.files = {})
  /\ End(s, "empty", held[s])
  /\ NoCommit /\ NoFault

\* The table moved after an unknown outcome: it may hold the commit.
LoadMoved(s) ==
  /\ pc[s] = "load"
  /\ ~Unmoved(s)
  /\ End(s, "unknown", {})
  /\ NoCommit /\ NoFault

\* A data file the position deletes name was replaced.
LoadReplaced(s) ==
  /\ pc[s] = "load"
  /\ Unmoved(s)
  /\ ~StillLive(s)
  /\ GiveUp(s)
  /\ NoCommit /\ NoFault

\* The reload failed for good.
LoadFails(s) ==
  /\ pc[s] = "load"
  /\ Fault("load")
  /\ GiveUp(s)
  /\ NoCommit /\ UNCHANGED kind

\* Mutant of Undeleted: the action does not know the snapshot it was planned on.
UndeletedUnchecked(s) == TRUE

\* validate_no_new_position_deletes: no position delete committed after the
\* plan refers to a file the compaction replaces, or to several files.
Undeleted(s) ==
  \A d \in Later(table, loaded[s].ver) :
    d.files \cap loaded[s].files = {} /\ Cardinality(d.files) < 2

\* Mutant of Valid: fast_append does not look for its files in the table.
ValidUnchecked(s) ==
  /\ kind[s] \in {"delta", "posdelete"} => table.ver = loaded[s].ver
  /\ kind[s] = "compact" => Undeleted(s) /\ loaded[s].files \subseteq table.files

\* Whether the action applies to the table do_commit reloads: fast_append
\* refuses files the table has, a row delta is pinned to the snapshot
\* loaded for the attempt, overwrite_files checks nothing, and rewrite_files
\* looks for new position deletes and for the files it replaces.
Valid(s) ==
  /\ kind[s] = "append" => FileOf(s) \notin table.files
  /\ kind[s] \in {"delta", "posdelete"} => table.ver = loaded[s].ver
  /\ kind[s] = "compact" => Undeleted(s) /\ loaded[s].files \subseteq table.files

\* do_commit: reload, apply the action to what is there now.
Prepare(s) ==
  /\ pc[s] = "prepare"
  /\ Valid(s)
  /\ pc' = [pc EXCEPT ![s] = "post"]
  /\ base' = [base EXCEPT ![s] = table.ver]
  /\ UNCHANGED <<gone, attempt, inner, seen, loaded, unk, held, answer>>
  /\ NoCommit /\ NoFault

\* The refusals that are not tried again: "already referenced by table" and
\* "not in the target branch". "RowDelta conflict" and the "Conflict
\* (retryable)" of a new position delete are.
Final(s) == kind[s] = "append" \/ (kind[s] = "compact" /\ Undeleted(s))

\* Mutant of PrepareRefused: a RowDelta conflict is tried again on the same pin.
PrepareRepeated(s) ==
  /\ pc[s] = "prepare"
  /\ ~Valid(s)
  /\ IF Final(s) THEN GiveUp(s) ELSE UNCHANGED <<gone, stmtVars>>
  /\ NoCommit /\ NoFault

PrepareRefused(s) ==
  /\ pc[s] = "prepare"
  /\ ~Valid(s)
  /\ IF Final(s) THEN GiveUp(s) ELSE Retry(s)
  /\ NoCommit /\ NoFault

Accepts(s) == table.ver = base[s]

\* The catalog applies the request if the table is at its version.
Take(s) ==
  /\ Accepts(s)
  /\ table' = Apply(table, Change(s))
  /\ applied' = [applied EXCEPT ![s] = applied[s] + 1]
  /\ UNCHANGED late

Commit(s) ==
  /\ pc[s] = "post"
  /\ Take(s)
  /\ End(s, "ok", {})
  /\ NoFault

\* A compaction reloads the table once it has committed, and fails when that
\* fails; its files stay.
CommitUnread(s) ==
  /\ pc[s] = "post"
  /\ kind[s] = "compact"
  /\ Take(s)
  /\ Fault("load")
  /\ End(s, "failed", {})
  /\ UNCHANGED kind

\* Transaction::commit starts over on the new table, without its caller.
Rebase(s) ==
  /\ pc[s] = "post"
  /\ ~Accepts(s)
  /\ inner[s] < MaxInner
  /\ pc' = [pc EXCEPT ![s] = "prepare"]
  /\ inner' = [inner EXCEPT ![s] = inner[s] + 1]
  /\ UNCHANGED <<gone, attempt, seen, loaded, base, unk, held, answer>>
  /\ NoCommit /\ NoFault

Conflict(s) ==
  /\ pc[s] = "post"
  /\ ~Accepts(s)
  /\ inner[s] = MaxInner
  /\ Retry(s)
  /\ NoCommit /\ NoFault

-----------------------------------------------------------------------------
(* Faults of the catalog and of the connection to it. *)

\* What happens to a request whose answer the caller does not get.
Vanish(s) ==
  \/ Take(s)
  \/ NoCommit
  \/ /\ "late" \in Faults
     /\ late' = late \cup {[stmt |-> s, ver |-> base[s], change |-> Change(s)]}
     /\ UNCHANGED <<table, applied>>

\* A 401: nothing was read. Only commit_with_retry takes it for retryable.
Unauthorized(s) ==
  /\ pc[s] = "post"
  /\ Fault("auth")
  /\ IF Rewrites(s) THEN GiveUp(s) ELSE Retry(s)
  /\ NoCommit /\ UNCHANGED kind

\* A 500, 502 or 504: "the commit state is unknown".
Unknown(s) ==
  /\ pc[s] = "post"
  /\ Fault("unknown")
  /\ Vanish(s)
  /\ Unsettled(s)
  /\ UNCHANGED kind

\* The client's own timeout, or a reset connection: "Failed to execute http
\* request", which is_unknown_outcome does not match.
Transport(s) ==
  /\ pc[s] = "post"
  /\ Fault("transport")
  /\ Vanish(s)
  /\ GiveUp(s)
  /\ UNCHANGED kind

\* The query timeout or a cancel drops the statement and its guards.
Cancel(s) ==
  /\ pc[s] \in {"load", "prepare", "post"}
  /\ Fault("cancel")
  /\ IF pc[s] = "post" THEN Vanish(s) ELSE NoCommit
  /\ End(s, "cancelled", Guarded(s) \cup held[s])
  /\ UNCHANGED kind

Land(r) ==
  /\ late' = late \ {r}
  /\ IF table.ver = r.ver
       THEN /\ table' = Apply(table, r.change)
            /\ applied' = [applied EXCEPT ![r.stmt] = applied[r.stmt] + 1]
       ELSE UNCHANGED <<table, applied>>
  /\ UNCHANGED <<gone, stmtVars>> /\ NoFault

-----------------------------------------------------------------------------
Step(s) ==
  \/ Plan(s) \/ PlanNothing(s)
  \/ Load(s) \/ LoadNothing(s) \/ LoadMoved(s) \/ LoadReplaced(s)
  \/ Prepare(s) \/ PrepareRefused(s) \/ Commit(s) \/ Rebase(s) \/ Conflict(s)

Failure(s) ==
  \/ LoadFails(s) \/ CommitUnread(s) \/ Unauthorized(s) \/ Unknown(s) \/ Transport(s) \/ Cancel(s)

Next ==
  \/ \E s \in Stmts : Step(s) \/ Failure(s)
  \/ \E r \in late : Land(r)
  \/ (\A s \in Stmts : pc[s] = "done") /\ late = {} /\ UNCHANGED vars

Spec == Init /\ [][Next]_vars

\* A statement that can go on does: its retries are loops of its own task.
FairSpec == Spec /\ \A s \in Stmts : WF_vars(Step(s))

-----------------------------------------------------------------------------
(* The mixes of statements the properties hold for. *)

\* A copy-on-write statement that runs beside anything but INSERTs may
\* rewrite rows that are not there any more: overwrite_files checks nothing.
RewritesAmongAppends ==
  {m \in [Stmts -> Kinds] :
     \A s, t \in Stmts : s # t /\ m[s] = "rewrite" => m[t] = "append"}

\* Mixes whose statements are kept apart by what the commits check: nothing
\* updates the rows a merge-on-read statement read.
Compatible ==
  {m \in RewritesAmongAppends :
     \A s, t \in Stmts : s # t /\ m[s] = "delta" => m[t] \in {"append", "compact"}}

\* Mixes in which nothing removes a data file that is written once: the
\* check of fast_append for files the table has is enough against a commit
\* that was already applied.
NothingRemoved ==
  {m \in [Stmts -> Kinds \ {"rewrite"}] :
     ~\E s, t \in Stmts : m[s] = "append" /\ m[t] = "compact"}

-----------------------------------------------------------------------------
(* Properties. *)

\* The table never names a data file a cleanup guard deleted: "deleting
\* files a committed snapshot references breaks the table"
\* (keep_if_outcome_unknown).
FilesExist == table.files \cap gone = {}

\* A statement is applied at most once, however often its commit is sent
\* (UnknownOutcome: "a retry cannot apply the data twice").
AppliedOnce == \A s \in Stmts : applied[s] <= 1

\* A client that is told ok has its change in the table, and one that is
\* told of an error other than an unknown outcome never has; only a
\* compaction, which changes no row, may fail after its commit.
AnswersAreTrue ==
  \A s \in Stmts :
    /\ answer[s] = "ok" => applied[s] = 1
    /\ answer[s] = "empty" => applied[s] = 0
    /\ answer[s] = "failed" => applied[s] = 0 \/ kind[s] = "compact"

\* An UPDATE or a compaction never leaves two versions of a row, whatever
\* commits while it runs: a rewrite removes what it replaces
\* (commit_rewrite_with_retry, rewrite_data_files plan again on a conflict).
OneRowPerKey == \A q, r \in table.rows : q.key = r.key => q = r

\* A change the client was told of stays: the rows an UPDATE read carry it,
\* the rows a DELETE read are gone, and a row an INSERT added is there until
\* a DELETE takes it. A compaction that planned before the change and commits
\* after it brings nothing back (set_validate_from_snapshot_id,
\* set_new_data_file_sequence_number).
ChangesSurvive ==
  \A s \in Stmts : answer[s] = "ok" =>
    /\ kind[s] = "delta" =>
         \A r \in table.rows : r.key \in Keys(seen[s].rows) => s \in r.by
    /\ kind[s] = "rewrite" =>
         \A r \in table.rows : r.key \in Keys(loaded[s].rows) => s \in r.by
    /\ kind[s] = "posdelete" => Keys(table.rows) \cap Keys(seen[s].rows) = {}
    /\ kind[s] = "append" =>
         \/ s \in Keys(table.rows)
         \/ \E d \in Stmts : kind[d] = "posdelete" /\ s \in Keys(seen[d].rows)

\* Every statement is answered: the attempts are bounded.
StatementsEnd == \A s \in Stmts : <>(pc[s] = "done")
=============================================================================
