-------------------------------- MODULE Txn --------------------------------
(***************************************************************************)
(* Explicit transactions of the coordinator: START TRANSACTION, writes on  *)
(* a private Iceberg branch per table, COMMIT, ROLLBACK, and the ends the  *)
(* coordinator decides itself (idle, lifetime, session end, shutdown).     *)
(*                                                                         *)
(* A snapshot is the set of writes in its ancestry.  Every write commits   *)
(* at most once, so equal sets are equal snapshot ids; the empty set is    *)
(* "no snapshot" of main and "no such ref" of a branch, the None that      *)
(* snapshot_for_ref returns in both cases.                                 *)
(*                                                                         *)
(* A request of a client is a process p of Procs.  A statement is          *)
(*   idle -> plan -> claim [-> create] -> write -> idle                    *)
(* and COMMIT or ROLLBACK is                                               *)
(*   idle -> prepare -> commit -> idle      (conflict or rollback on the   *)
(*   idle -> rollback -> idle                way out of a lost one)        *)
(* with one step per catalog call, since other requests run between them.  *)
(***************************************************************************)
EXTENDS Naturals, FiniteSets

CONSTANTS
  Txns,        \* transaction ids
  Tables,
  Procs,       \* requests that may be in flight at once
  Catalogs,
  CatalogOf,   \* the catalog that holds each table
  Atomic,      \* the catalogs with a multi-table commit
  NoKey,       \* a scope whose catalog_key is None
  Outside,     \* every writer outside the transactions
  Nonempty,    \* the tables that hold a snapshot at the start
  Maintained,  \* the tables an enabled scheduler in Active mode maintains
  MaxWrites,   \* bound: statements of one transaction
  MaxOutside,  \* bound: writes of Outside
  MaxAttempts, \* MAX_ATTEMPTS of publish_branch and publish_branches
  MaxFaults,   \* bound: faults and session ends of one behaviour
  Faults,      \* which of them happen
  Concurrent   \* whether a client sends a request of a transaction while
               \* another request of it is still running

ASSUME TxnConstants ==
  /\ Outside \notin Txns
  /\ CatalogOf \in [Tables -> Catalogs]
  /\ Atomic \subseteq Catalogs
  /\ NoKey \notin Catalogs
  /\ Nonempty \subseteq Tables
  /\ Maintained \subseteq Tables
  /\ MaxWrites \in Nat
  /\ MaxOutside \in 0..MaxWrites
  /\ MaxAttempts \in Nat \ {0}
  /\ MaxFaults \in Nat
  /\ Faults \subseteq {"crash", "lost_reply", "user_drop", "cancel", "session_end",
                      "forget"}
  /\ Concurrent \in BOOLEAN

Writers == Txns \cup {Outside}
Writes == Writers \X (0..MaxWrites)
WritesOf(x) == {x} \X (0..MaxWrites)

VARIABLES
  main,      \* catalog: the snapshot of each table's main
  branch,    \* catalog: the snapshot of ref sqe-txn-<x> of each table
  open,      \* State.open: the ids in the registry
  ended,     \* State.ended: the ids it refuses
  forgotten, \* ids State.sweep dropped from ended, ENDED_RETENTION later
  foreign,   \* ids minted by an earlier incarnation of the process
  claimed,   \* TxnScope.tables: the tables each transaction wrote
  base,      \* TxnTable.base_snapshot_id of each claimed table
  key,       \* TxnScope.catalog_key, bound together with catalog
  dropping,  \* the branches a running discard has not tried yet
  outcome,   \* what record_end wrote for the transaction
  req,       \* the requests in flight
  acked,     \* the writes the client was told succeeded
  reply,     \* the last answer to COMMIT or ROLLBACK
  writes,    \* writes started so far, per writer
  faults     \* faults so far

catalogVars == <<main, branch>>
registryVars == <<open, ended, forgotten, foreign, dropping, outcome>>
scopeVars == <<claimed, base, key>>
clientVars == <<acked, reply>>
bounds == <<writes, faults>>
vars == <<main, branch, open, ended, forgotten, foreign, claimed, base, key,
          dropping, outcome, req, acked, reply, writes, faults>>

StatementSteps == {"plan", "claim", "create", "write"}
EndSteps == {"prepare", "commit", "conflict", "rollback"}
Outcomes == {"none", "committed", "rolled_back", "conflict", "expired",
             "session_ended", "shutdown"}
Replies == {"none", "committed", "rolled_back", "conflict", "failed"}

Idle == [pc |-> "idle"]

\* A statement: what it read of its table when it was planned (seen), and
\* the base snapshot target_branch is about to create the branch at (cand).
Statements ==
  [pc : StatementSteps, x : Txns, t : Tables, w : Writes,
   seen : SUBSET Writes, cand : SUBSET Writes]

StatementAt(step, x, t, w, seen, cand) ==
  [pc |-> step, x |-> x, t |-> t, w |-> w, seen |-> seen, cand |-> cand]

\* COMMIT or ROLLBACK: the prepared branch head per table ({}: the table is
\* not in the catalog commit) and the attempt of publish_branches.
Ends ==
  [pc : EndSteps, x : Txns, heads : [Tables -> SUBSET Writes],
   attempt : 1..MaxAttempts]

EndAt(step, x, heads, n) ==
  [pc |-> step, x |-> x, heads |-> heads, attempt |-> n]

\* The types of all the state.
TypeOK ==
  /\ main \in [Tables -> SUBSET Writes]
  /\ branch \in [Txns -> [Tables -> SUBSET Writes]]
  /\ open \subseteq Txns
  /\ ended \subseteq Txns
  /\ forgotten \subseteq Txns
  /\ foreign \subseteq Txns
  /\ claimed \in [Txns -> SUBSET Tables]
  /\ base \in [Txns -> [Tables -> SUBSET Writes]]
  /\ key \in [Txns -> Catalogs \cup {NoKey}]
  /\ dropping \in [Txns -> SUBSET Tables]
  /\ outcome \in [Txns -> Outcomes]
  /\ req \in [Procs -> {Idle} \cup Statements \cup Ends]
  /\ acked \in [Txns -> SUBSET (Tables \X Writes)]
  /\ reply \in [Txns -> Replies]
  /\ writes \in [Writers -> 0..MaxWrites]
  /\ faults \in 0..MaxFaults

NoTables == [t \in Tables |-> {}]

Init ==
  /\ main = [t \in Tables |-> IF t \in Nonempty THEN {<<Outside, 0>>} ELSE {}]
  /\ branch = [x \in Txns |-> NoTables]
  /\ open = {}
  /\ ended = {}
  /\ forgotten = {}
  /\ foreign = {}
  /\ claimed = [x \in Txns |-> {}]
  /\ base = [x \in Txns |-> NoTables]
  /\ key = [x \in Txns |-> NoKey]
  /\ dropping = [x \in Txns |-> {}]
  /\ outcome = [x \in Txns |-> "none"]
  /\ req = [p \in Procs |-> Idle]
  /\ acked = [x \in Txns |-> {}]
  /\ reply = [x \in Txns |-> "none"]
  /\ writes = [w \in Writers |-> 0]
  /\ faults = 0

----------------------------------------------------------------------------
(* What the requests share. *)

Busy(p, x) == req[p].pc # "idle" /\ req[p].x = x

\* A client with one request per transaction at a time waits for it.
MayRequest(x) == Concurrent \/ \A p \in Procs : ~Busy(p, x)

Fault(f) ==
  /\ f \in Faults
  /\ faults < MaxFaults
  /\ faults' = faults + 1

\* A slip: no Pin::Stale, a table without its branch reads main.
ReadableAlways(x, t) == t \in Tables

\* pin: a claimed table reads at its branch; without one it reads main if it
\* was empty when claimed, and is an error (Pin::Stale) if it was not.
Readable(x, t) ==
  t \in claimed[x] => (branch[x][t] # {} \/ base[x][t] = {})

Read(x, t) ==
  IF t \in claimed[x] /\ branch[x][t] # {} THEN branch[x][t] ELSE main[t]

\* A slip: any table of the transaction's catalog joins it.
AdmittedByKey(x, t) == key[x] \in {NoKey, CatalogOf[t]}

\* admit: one catalog, and a second table only where it commits several.
Admitted(x, t) ==
  /\ key[x] \in {NoKey, CatalogOf[t]}
  /\ claimed[x] \ {t} # {} => CatalogOf[t] \in Atomic

\* The branches discard tries to drop; none through an unbound catalog.
Discards(x) == IF key[x] = NoKey THEN {} ELSE claimed[x]

\* record_end of the transactions of E, and the start of their discard.
EndAll(E, how) ==
  /\ outcome' = [x \in Txns |-> IF x \in E THEN how ELSE outcome[x]]
  /\ dropping' = [x \in Txns |-> IF x \in E THEN Discards(x) ELSE dropping[x]]

----------------------------------------------------------------------------
(* Statements.  Any registry access sweeps first; the transactions of E are *)
(* the ones idle for IDLE_TIMEOUT or open for MAX_LIFETIME at that moment.  *)

\* TxnRegistry::scope and admit_txn_write, for a statement that may run.
Statement(p, x, t) ==
  /\ req[p] = Idle
  /\ MayRequest(x)
  /\ x \notin foreign
  /\ writes[x] < MaxWrites
  /\ \E E \in SUBSET open :
       /\ x \notin ended \cup E
       /\ EndAll(E, "expired")
       /\ open' = (open \ E) \cup {x}
       /\ ended' = ended \cup E
  /\ Admitted(x, t)
  /\ writes' = [writes EXCEPT ![x] = @ + 1]
  /\ req' = [req EXCEPT ![p] =
               StatementAt("plan", x, t, <<x, writes[x] + 1>>, {}, {})]
  /\ UNCHANGED <<catalogVars, forgotten, foreign, scopeVars, clientVars, faults>>

\* The same for a statement that writes nothing: the id is of another
\* incarnation, or it ended; or it runs and only reads, or admit refuses it.
QuietStatement(x) ==
  /\ MayRequest(x)
  /\ \/ x \in foreign /\ UNCHANGED registryVars
     \/ /\ x \notin foreign
        /\ \E E \in SUBSET open :
             /\ EndAll(E, "expired")
             /\ ended' = ended \cup E
             /\ open' = (open \ E) \cup (IF x \in ended \cup E THEN {} ELSE {x})
        /\ UNCHANGED <<forgotten, foreign>>
  /\ UNCHANGED <<catalogVars, scopeVars, req, clientVars, bounds>>

\* The statement plans against its table, as the transaction reads it.
Plan(p) ==
  /\ req[p].pc = "plan"
  /\ Readable(req[p].x, req[p].t)
  /\ req' = [req EXCEPT ![p] =
               StatementAt("claim", @.x, @.t, @.w, Read(@.x, @.t), {})]
  /\ UNCHANGED <<catalogVars, registryVars, scopeVars, clientVars, bounds>>

\* txn_target_branch, after the data files are written: it loads the table
\* again, from the session's cache (seen) or from the catalog.
Claim(p) ==
  LET x == req[p].x
      t == req[p].t
  IN /\ req[p].pc = "claim"
     /\ Readable(x, t)
     /\ \/ /\ t \in claimed[x]
           /\ req' = [req EXCEPT ![p] =
                        StatementAt("write", x, t, @.w, @.seen, {})]
           /\ UNCHANGED scopeVars
        \/ /\ t \notin claimed[x]
           /\ \E v \in {req[p].seen, main[t]} :
                \/ /\ v = {}
                   /\ claimed' = [claimed EXCEPT ![x] = @ \cup {t}]
                   /\ base' = [base EXCEPT ![x][t] = {}]
                   /\ req' = [req EXCEPT ![p] =
                        StatementAt("write", x, t, @.w, @.seen, {})]
                   /\ UNCHANGED key
                \/ /\ v # {}
                   /\ req' = [req EXCEPT ![p] =
                        StatementAt("create", x, t, @.w, @.seen, v)]
                   /\ UNCHANGED scopeVars
     /\ UNCHANGED <<catalogVars, registryVars, clientVars, bounds>>

\* The branch is set at the base snapshot, whatever ref is there; record
\* keeps the first claim.
Create(p) ==
  LET x == req[p].x
      t == req[p].t
  IN /\ req[p].pc = "create"
     /\ Readable(x, t)
     /\ Admitted(x, t)
     /\ branch' = [branch EXCEPT ![x][t] = req[p].cand]
     /\ \/ /\ key' = [key EXCEPT ![x] = CatalogOf[t]]
           /\ base' = IF t \in claimed[x] THEN base
                      ELSE [base EXCEPT ![x][t] = req[p].cand]
           /\ claimed' = [claimed EXCEPT ![x] = @ \cup {t}]
           /\ req' = [req EXCEPT ![p] =
                        StatementAt("write", x, t, @.w, @.seen, {})]
           /\ UNCHANGED faults
        \/ /\ Fault("lost_reply")
           /\ req' = [req EXCEPT ![p] = Idle]
           /\ UNCHANGED scopeVars
     /\ UNCHANGED <<main, registryVars, clientVars, writes>>

\* A slip: the write goes past the branch.
CommitToMain(x, t, w) ==
  /\ main' = [main EXCEPT ![t] = @ \cup {w}]
  /\ UNCHANGED branch

\* The snapshot's parent is the head of the branch; a missing branch starts
\* one with no parent.
CommitToBranch(x, t, w) ==
  /\ branch' = [branch EXCEPT ![x][t] = @ \cup {w}]
  /\ UNCHANGED main

\* The statement's commit, through the session catalog.  A commit of unknown
\* outcome that moved the table is an error.
Write(p) ==
  LET x == req[p].x
      t == req[p].t
  IN /\ req[p].pc = "write"
     /\ Readable(x, t)
     /\ Admitted(x, t)
     /\ CommitToBranch(x, t, req[p].w)
     /\ req' = [req EXCEPT ![p] = Idle]
     /\ \/ /\ key' = [key EXCEPT ![x] = CatalogOf[t]]
           /\ acked' = [acked EXCEPT ![x] = @ \cup {<<t, req[p].w>>}]
           /\ UNCHANGED faults
        \/ Fault("lost_reply") /\ UNCHANGED <<key, acked>>
     /\ UNCHANGED <<registryVars, claimed, base, reply, writes>>

\* A statement fails between its steps (bad query, failed data file, a
\* stale pin, a refused commit); the transaction stays open.
StatementFails(p) ==
  /\ req[p].pc \in StatementSteps
  /\ req' = [req EXCEPT ![p] = Idle]
  /\ UNCHANGED <<catalogVars, registryVars, scopeVars, clientVars, bounds>>

----------------------------------------------------------------------------
(* COMMIT and ROLLBACK: QueryHandler::end_transaction. *)

Answer(x, r) == reply' = [reply EXCEPT ![x] = r]

\* The client still holds the id: no definitive answer cleared it.
Unanswered(x) == reply[x] \in {"none", "failed"}

\* TxnRegistry::end found the transaction open.
End(p, x, commit) ==
  /\ req[p] = Idle
  /\ MayRequest(x)
  /\ Unanswered(x)
  /\ \E E \in SUBSET (open \ {x}) :
       /\ x \in open
       /\ outcome' = [y \in Txns |-> IF y \in E THEN "expired" ELSE outcome[y]]
       /\ dropping' = [y \in Txns |->
                         IF y \in E \/ (y = x /\ ~commit)
                         THEN Discards(y) ELSE dropping[y]]
       /\ open' = open \ (E \cup {x})
       /\ ended' = ended \cup E \cup {x}
  /\ req' = [req EXCEPT ![p] =
               EndAt(IF commit THEN "prepare" ELSE "rollback", x, NoTables, 1)]
  /\ Answer(x, "none")
  /\ UNCHANGED <<catalogVars, forgotten, foreign, scopeVars, acked, bounds>>

\* It found no open transaction: never used, already ended (this sweep
\* included), or of another incarnation, which it refuses without a sweep.
EndWithoutOpen(x, commit) ==
  /\ MayRequest(x)
  /\ Unanswered(x)
  /\ \/ /\ x \in foreign
        /\ Answer(x, IF commit THEN "conflict" ELSE "rolled_back")
        /\ UNCHANGED registryVars
     \/ /\ x \notin foreign
        /\ \E E \in SUBSET open :
             /\ x \notin open \ E
             /\ EndAll(E, "expired")
             /\ open' = open \ E
             /\ ended' = ended \cup E \cup {x}
             /\ Answer(x, IF ~commit THEN "rolled_back"
                          ELSE IF x \in ended \cup E THEN "conflict"
                          ELSE "committed")
        /\ UNCHANGED <<forgotten, foreign>>
  /\ UNCHANGED <<catalogVars, scopeVars, req, acked, bounds>>

\* finish(Committed) and the answer to the client.
Committed(p) ==
  /\ outcome' = [outcome EXCEPT ![req[p].x] = "committed"]
  /\ Answer(req[p].x, "committed")
  /\ req' = [req EXCEPT ![p] = Idle]
  /\ UNCHANGED <<open, ended, dropping>>

\* reopen, after a failure of COMMIT that is not a conflict.
Reopen(p) ==
  /\ open' = open \cup {req[p].x}
  /\ ended' = ended \ {req[p].x}
  /\ Answer(req[p].x, "failed")
  /\ req' = [req EXCEPT ![p] = Idle]
  /\ UNCHANGED <<dropping, outcome>>

\* publish failed with TransactionConflict: discard before the answer.
Lost(p) ==
  /\ req' = [req EXCEPT ![p] = EndAt("conflict", @.x, NoTables, @.attempt)]
  /\ dropping' = [dropping EXCEPT ![req[p].x] = Discards(req[p].x)]
  /\ UNCHANGED <<open, ended, outcome, reply>>

\* An empty table whose first write never created the branch is left out of
\* a commit of several tables.
Skipped(x, t) ==
  /\ Cardinality(claimed[x]) > 1
  /\ base[x][t] = {} /\ main[t] = {} /\ branch[x][t] = {}

\* A slip: the branch is published wherever main is now.
PublishableAnywhere(x, t) == branch[x][t] # {}

\* PublishBranchAction::commit against a fresh load of the table.
Publishable(x, t) == branch[x][t] # {} /\ main[t] = base[x][t]

\* The loads and the checks of publish, publish_branch, publish_branches.
Prepare(p) ==
  LET x == req[p].x
      ts == {t \in claimed[x] : ~Skipped(x, t)}
      loaded == \A t \in claimed[x] : CatalogOf[t] = key[x]
  IN /\ req[p].pc = "prepare"
     /\ \/ /\ key[x] = NoKey \/ (ts = {} /\ loaded)
           /\ Committed(p)
        \/ /\ key[x] # NoKey /\ ts # {} /\ loaded
           /\ \A t \in ts : Publishable(x, t)
           /\ req' = [req EXCEPT ![p] =
                EndAt("commit", x, [t \in Tables |->
                        IF t \in ts THEN branch[x][t] ELSE {}], @.attempt)]
           /\ UNCHANGED <<open, ended, dropping, outcome, reply>>
        \/ /\ key[x] # NoKey
           /\ \E t \in ts : CatalogOf[t] = key[x] /\ ~Publishable(x, t)
           /\ Lost(p)
     /\ UNCHANGED <<catalogVars, forgotten, foreign, scopeVars, acked, bounds>>

\* The requirements of the catalog commit: every main at its base, every
\* branch at the head that was prepared.
Matches(p) ==
  \A t \in Tables : req[p].heads[t] # {} =>
    /\ Publishable(req[p].x, t)
    /\ branch[req[p].x][t] = req[p].heads[t]

\* One catalog commit: each main moves to its head, each branch goes.
MoveMains(p) ==
  LET moved == {t \in Tables : req[p].heads[t] # {}}
  IN /\ main' = [t \in Tables |->
                   IF t \in moved THEN req[p].heads[t] ELSE main[t]]
     /\ branch' = [branch EXCEPT ![req[p].x] =
                     [t \in Tables |-> IF t \in moved THEN {} ELSE @[t]]]

Publish(p) ==
  /\ req[p].pc = "commit"
  /\ Matches(p)
  /\ MoveMains(p)
  /\ \/ Committed(p) /\ UNCHANGED faults
     \/ Reopen(p) /\ Fault("lost_reply")
  /\ UNCHANGED <<forgotten, foreign, scopeVars, acked, writes>>

\* A slip: the attempts are not counted.
PublishRetried(p) ==
  /\ req[p].pc = "commit"
  /\ req' = [req EXCEPT ![p] = EndAt("prepare", @.x, NoTables, @.attempt)]
  /\ UNCHANGED <<catalogVars, registryVars, scopeVars, clientVars, bounds>>

\* A commit conflict: prepare again, or give up after MAX_ATTEMPTS.
PublishRefused(p) ==
  /\ req[p].pc = "commit"
  /\ \/ /\ req[p].attempt < MaxAttempts
        /\ req' = [req EXCEPT ![p] = EndAt("prepare", @.x, NoTables, @.attempt + 1)]
        /\ UNCHANGED <<open, ended, dropping, outcome, reply>>
     \/ req[p].attempt = MaxAttempts /\ Lost(p)
  /\ UNCHANGED <<catalogVars, forgotten, foreign, scopeVars, acked, bounds>>

\* Any other failure: a load, a refused token, an unreachable catalog.
PublishFails(p) ==
  /\ req[p].pc \in {"prepare", "commit"}
  /\ key[req[p].x] # NoKey
  /\ Reopen(p)
  /\ UNCHANGED <<catalogVars, forgotten, foreign, scopeVars, acked, bounds>>

\* The query timeout or a cancel drops the future of COMMIT or ROLLBACK at
\* an await; the catalog may already have the commit.
Cancelled(p) ==
  /\ req[p].pc \in EndSteps
  /\ Fault("cancel")
  /\ req' = [req EXCEPT ![p] = Idle]
  /\ Answer(req[p].x, "failed")
  /\ dropping' = [dropping EXCEPT ![req[p].x] = {}]
  /\ \/ UNCHANGED catalogVars
     \/ req[p].pc = "commit" /\ Matches(p) /\ MoveMains(p)
  /\ UNCHANGED <<open, ended, forgotten, foreign, outcome, scopeVars, acked, writes>>

----------------------------------------------------------------------------
(* discard, and the ends nobody asked for. *)

\* One branch of a discard: dropped, or counted as a drop failure.
DropBranch(x, t) ==
  /\ t \in dropping[x]
  /\ dropping' = [dropping EXCEPT ![x] = @ \ {t}]
  /\ \/ CatalogOf[t] = key[x] /\ branch' = [branch EXCEPT ![x][t] = {}]
     \/ UNCHANGED branch
  /\ UNCHANGED <<main, open, ended, forgotten, foreign, outcome, scopeVars, req,
                 clientVars, bounds>>

\* The discard of ROLLBACK or of a lost COMMIT is over: finish and answer.
FinishEnd(p) ==
  LET x == req[p].x
      how == IF req[p].pc = "conflict" THEN "conflict" ELSE "rolled_back"
  IN /\ req[p].pc \in {"conflict", "rollback"}
     /\ dropping[x] = {}
     /\ outcome' = [outcome EXCEPT ![x] = how]
     /\ Answer(x, how)
     /\ req' = [req EXCEPT ![p] = Idle]
     /\ UNCHANGED <<catalogVars, open, ended, forgotten, foreign, dropping, scopeVars,
                    acked, bounds>>

\* A slip: abandon ends a transaction whose COMMIT is running.
AbandonTaken(x) ==
  /\ x \in open \cup ended
  /\ Fault("session_end")
  /\ open' = open \ {x}
  /\ ended' = ended \cup {x}
  /\ EndAll({x}, "session_ended")
  /\ UNCHANGED <<catalogVars, forgotten, foreign, scopeVars, req, clientVars, writes>>

\* abandon: the session that holds the id ended.
Abandon(x) ==
  /\ x \in open
  /\ Fault("session_end")
  /\ open' = open \ {x}
  /\ ended' = ended \cup {x}
  /\ EndAll({x}, "session_ended")
  /\ UNCHANGED <<catalogVars, forgotten, foreign, scopeVars, req, clientVars, writes>>

\* abort_all of a graceful shutdown; the process exits with Crash.
Shutdown ==
  /\ open # {}
  /\ Fault("crash")
  /\ open' = {}
  /\ ended' = ended \cup open
  /\ EndAll(open, "shutdown")
  /\ UNCHANGED <<catalogVars, forgotten, foreign, scopeVars, req, clientVars, writes>>

\* State.sweep forgets an id that ended ENDED_RETENTION ago, when every
\* request and every discard of the transaction is long over.  The next
\* request that sends it starts a fresh scope under the same id.
Forget(x) ==
  /\ x \in ended
  /\ \A p \in Procs : ~Busy(p, x)
  /\ dropping[x] = {}
  /\ Fault("forget")
  /\ ended' = ended \ {x}
  /\ forgotten' = forgotten \cup {x}
  /\ outcome' = [outcome EXCEPT ![x] = "none"]
  /\ claimed' = [claimed EXCEPT ![x] = {}]
  /\ base' = [base EXCEPT ![x] = NoTables]
  /\ key' = [key EXCEPT ![x] = NoKey]
  /\ UNCHANGED <<catalogVars, open, foreign, dropping, req, clientVars, writes>>

\* A slip: an id does not say which incarnation minted it.
CrashForgetsIds ==
  /\ Fault("crash")
  /\ open' = {}
  /\ ended' = {}
  /\ claimed' = [x \in Txns |-> {}]
  /\ base' = [x \in Txns |-> NoTables]
  /\ key' = [x \in Txns |-> NoKey]
  /\ dropping' = [x \in Txns |-> {}]
  /\ req' = [p \in Procs |-> Idle]
  /\ UNCHANGED <<catalogVars, forgotten, foreign, outcome, clientVars, writes>>

\* The process goes away and another starts: the registry, the scopes and
\* the requests are gone, the catalog is not, and ids in use are foreign.
Crash ==
  /\ Fault("crash")
  /\ open' = {}
  /\ ended' = {}
  /\ foreign' = foreign \cup open \cup ended \cup forgotten
  /\ claimed' = [x \in Txns |-> {}]
  /\ base' = [x \in Txns |-> NoTables]
  /\ key' = [x \in Txns |-> NoKey]
  /\ dropping' = [x \in Txns |-> {}]
  /\ req' = [p \in Procs |-> Idle]
  /\ UNCHANGED <<catalogVars, forgotten, outcome, clientVars, writes>>

----------------------------------------------------------------------------
(* Everyone else. *)

\* A commit to main outside the transactions.
OutsideWrite(t) ==
  /\ writes[Outside] < MaxOutside
  /\ writes' = [writes EXCEPT ![Outside] = @ + 1]
  /\ main' = [main EXCEPT ![t] = @ \cup {<<Outside, writes[Outside] + 1>>}]
  /\ UNCHANGED <<branch, registryVars, scopeVars, req, clientVars, faults>>

\* txn_private_snapshots: the head is on the branch and not on main.
Private(x, t) == ~(branch[x][t] \subseteq main[t])

\* A slip: maintenance asks the registry which transactions ended.
DropStaleKnown(x, t) ==
  /\ x \in ended
  /\ Private(x, t)
  /\ branch' = [branch EXCEPT ![x][t] = {}]
  /\ UNCHANGED <<main, registryVars, scopeVars, req, clientVars, bounds>>

\* drop_stale_branches, from the scheduler or from CALL
\* system.expire_snapshots, of a transaction past its lifetime: the next
\* access to the registry sweeps it before anything else, so it is not open,
\* and a COMMIT sent before then ends within STALE_MARGIN_MS.
DropStale(x, t) ==
  /\ x \notin open
  /\ \A p \in Procs : Busy(p, x) => req[p].pc \in StatementSteps
  /\ Private(x, t)
  /\ branch' = [branch EXCEPT ![x][t] = {}]
  /\ UNCHANGED <<main, registryVars, scopeVars, req, clientVars, bounds>>

\* ALTER TABLE ... DROP BRANCH of a transaction branch, which is allowed.
UserDrop(x, t) ==
  /\ branch[x][t] # {}
  /\ Fault("user_drop")
  /\ branch' = [branch EXCEPT ![x][t] = {}]
  /\ UNCHANGED <<main, registryVars, scopeVars, req, clientVars, writes>>

----------------------------------------------------------------------------
RequestStep(p) ==
  \/ Plan(p) \/ Claim(p) \/ Create(p) \/ Write(p) \/ StatementFails(p)
  \/ Prepare(p) \/ Publish(p) \/ PublishRefused(p) \/ PublishFails(p)
  \/ FinishEnd(p) \/ Cancelled(p)

Next ==
  \/ \E p \in Procs :
       \/ RequestStep(p)
       \/ \E x \in Txns, t \in Tables : Statement(p, x, t)
       \/ \E x \in Txns, commit \in BOOLEAN : End(p, x, commit)
  \/ \E x \in Txns, t \in Tables :
       DropBranch(x, t) \/ DropStale(x, t) \/ UserDrop(x, t)
  \/ \E x \in Txns, commit \in BOOLEAN : EndWithoutOpen(x, commit)
  \/ \E x \in Txns : QuietStatement(x) \/ Abandon(x) \/ Forget(x)
  \/ \E t \in Tables : OutsideWrite(t)
  \/ Shutdown
  \/ Crash

Spec == Init /\ [][Next]_vars

\* The runtime polls every request and every background discard; the
\* scheduler comes back to the tables it maintains.  On any other table
\* DropStale is an operator's CALL system.expire_snapshots, owed to nobody.
Fairness ==
  /\ \A p \in Procs : WF_vars(RequestStep(p))
  /\ \A x \in Txns, t \in Tables : WF_vars(DropBranch(x, t))
  /\ \A x \in Txns, t \in Maintained : WF_vars(DropStale(x, t))

FairSpec == Spec /\ Fairness

----------------------------------------------------------------------------
(* Properties. *)

\* Whether a write of x is on main of some table.
Published(x) == \E t \in Tables : main[t] \cap WritesOf(x) # {}

\* No COMMIT takes another writer's commit off main: publishing moves main
\* only from the snapshot the branch was created at (PublishBranchAction).
MainGrows == [][\A t \in Tables : main[t] \subseteq main'[t]]_vars

\* The branch of a table the transaction claimed continues the snapshot it
\* started from, even when someone dropped the branch: a write never starts
\* it again without a parent, unless the table was empty (pin, Pin::Stale).
BranchContinuesBase ==
  \A x \in Txns : \A t \in claimed[x] :
    branch[x][t] # {} => base[x][t] \subseteq branch[x][t]

\* The writes of a transaction reach main in one step, however often a
\* client repeats a COMMIT whose answer it lost (publish, reopen), until the
\* registry has forgotten the id.
PublishesOnce ==
  [][\A x \in Txns \ forgotten : Published(x) =>
       \A t \in Tables : main'[t] \cap WritesOf(x) \subseteq main[t]]_vars

\* A COMMIT answered with success published every write the client was told
\* succeeded, on every table (publish, publish_branches), until the registry
\* has forgotten the id.
CommittedIsVisible ==
  \A x \in Txns \ forgotten : reply[x] = "committed" =>
    \A a \in acked[x] : a[2] \in main[a[1]]

\* A transaction that ended any other way, for the client or in the audit
\* record, left nothing on main (publish, discard, record_end).
RolledBackIsInvisible ==
  \A x \in Txns \ forgotten :
    \/ reply[x] \in {"conflict", "rolled_back"}
    \/ outcome[x] \notin {"none", "committed"}
    => ~Published(x)

\* A statement of an open transaction reads every earlier write of it to the
\* table, and nothing another transaction has not published (pin).
ReadsOwnWrites ==
  \A p \in Procs : req[p].pc = "claim" =>
    /\ req[p].x \in open \ forgotten => \A a \in acked[req[p].x] :
         a[1] = req[p].t => a[2] \in req[p].seen
    /\ \A y \in Txns \ {req[p].x} :
         req[p].seen \cap WritesOf(y) \subseteq main[req[p].t]

\* Every transaction has at most one end record, and it never changes:
\* whoever takes the entry out of State.open is the only one to end it.  It
\* is gone only with the id, when the registry forgets that it ever ended.
EndsOnce ==
  [][\A x \in Txns : outcome[x] # "none" =>
       \/ outcome'[x] = outcome[x]
       \/ outcome'[x] = "none" /\ x \in ended \ ended']_vars

\* Whoever ends a transaction has it alone: while a COMMIT or ROLLBACK of it
\* runs, and after its end record, it is out of State.open and its id is
\* refused (State.ended, or the incarnation), so nothing can end it again.
\* No statement brings it back as long as its end is remembered; one that
\* comes after ENDED_RETENTION starts a transaction anew, whose one end is
\* exclusive again.
EndIsExclusive ==
  /\ \A x \in Txns : outcome[x] # "none" =>
       x \notin open /\ x \in ended \cup foreign
  /\ \A p \in Procs : req[p].pc \in EndSteps =>
       /\ outcome[req[p].x] = "none"
       /\ req[p].x \in ended \ open
       /\ \A q \in Procs : req[q].pc \in EndSteps /\ req[q].x = req[p].x => q = p

\* A transaction never holds tables it cannot publish together (admit).
HoldsPublishable ==
  \A x \in Txns : \A t, u \in claimed[x] :
    t # u => CatalogOf[t] = CatalogOf[u] /\ CatalogOf[t] \in Atomic

\* The branches and the registry implement the promise of AtomicCommit.
Promise == INSTANCE AtomicCommit WITH main <- main, acked <- acked
ImplementsAtomicCommit == Promise!Spec

\* Every request is answered: the retries of COMMIT are bounded and a
\* discard tries each branch once.
RequestsEnd == \A p \in Procs : req[p] # Idle ~> req[p] = Idle

\* Staged writes of a transaction that can no longer commit do not stay in
\* a table the scheduler maintains, whatever ended it, a crash included.
StagedWritesGo ==
  \A x \in Txns, t \in Maintained :
    x \notin open /\ Private(x, t) ~> x \in open \/ ~Private(x, t)
============================================================================
