-------------------------- MODULE MaintenanceLease --------------------------
(***************************************************************************)
(* The catalog-native lease that keeps two coordinators from compacting    *)
(* one table at once: try_acquire, renew and release over the lease rows   *)
(* of maintenance_log, as the scheduler drives them around a rewrite.      *)
(*                                                                         *)
(* Every operation reads the clock once, then makes up to MaxAttempts      *)
(* attempts.  An attempt is two steps, because other coordinators run in   *)
(* between: load the table and read its lease rows (Load), then decide on  *)
(* what was read and, if the decision asks for it, commit one rewrite that *)
(* deletes exactly the files that were read and adds one new file.  The    *)
(* catalog applies it only while every deleted file is still live; with    *)
(* nothing to delete it is a plain append, which always applies.           *)
(*                                                                         *)
(* One job_key is modelled: the rows of different tables never meet.       *)
(***************************************************************************)
EXTENDS Naturals, FiniteSets

CONSTANTS
  Holders,     \* holder ids: one per life of a coordinator process
  NoHolder,    \* the writer of the tombstone of an earlier claim
  NoHandle,    \* no LeaseHandle
  Paths,       \* data file paths
  TTL,         \* lease_ttl_secs, in ticks of the clock
  MaxTime,     \* bound: the clock stops here
  MaxAttempts, \* MAX_LEASE_ATTEMPTS
  MaxFaults,   \* bound: failing catalog calls of one behaviour
  MaxCrashes,  \* bound: coordinators that stop for good
  Fresh,       \* the job_key has never been claimed
  Late         \* a commit of unknown outcome may still land later

ASSUME LeaseConstants ==
  /\ NoHolder \notin Holders
  /\ NoHandle \notin [exp : Nat, path : Paths]
  /\ Paths # {}
  /\ TTL \in Nat \ {0}
  /\ MaxTime \in Nat
  /\ MaxAttempts \in Nat \ {0}
  /\ MaxFaults \in Nat
  /\ MaxCrashes \in Nat
  /\ Fresh \in BOOLEAN
  /\ Late \in BOOLEAN

VARIABLES
  rows,    \* catalog: the live lease rows of the job_key
  late,    \* commits sent, answered by an error, and not settled yet
  doomed,  \* lease files a dropped WriteCleanupGuard deletes or has deleted
  now,     \* the clock, the same for every coordinator
  phase,   \* what each coordinator does
  op,      \* its running lease operation
  handle,  \* its LeaseHandle
  due,     \* when its renewal ticker fires next
  faults,
  crashes

vars == <<rows, late, doomed, now, phase, op, handle, due, faults, crashes>>

Operations == {"acquire", "renew", "release"}
Phases == {"idle", "work", "down"} \cup Operations

\* LeaseState: one live lease row and the data file that holds it.
Row(h, at, exp, released, path) ==
  [holder |-> h, at |-> at, exp |-> exp, released |-> released, path |-> path]

Rows ==
  [holder : Holders \cup {NoHolder}, at : Nat, exp : Nat,
   released : BOOLEAN, path : Paths]

\* The now_ms an operation was given, its attempt, and what it has read.
Op(t, n, loaded, seen) ==
  [now |-> t, attempt |-> n, loaded |-> loaded, seen |-> seen]

Ops ==
  [now : Nat, attempt : 1..MaxAttempts, loaded : BOOLEAN, seen : SUBSET Rows]

\* LeaseHandle: the expiry its holder counts on, and the claim's file.
Handle(exp, path) == [exp |-> exp, path |-> path]
Handles == [exp : Nat, path : Paths]

Commits == [targets : SUBSET Paths, row : Rows]

PathsOf(S) == {r.path : r \in S}

\* The types of all the state.
TypeOK ==
  /\ rows \subseteq Rows
  /\ late \subseteq Commits
  /\ doomed \subseteq Paths
  /\ now \in Nat
  /\ phase \in [Holders -> Phases]
  /\ op \in [Holders -> Ops]
  /\ handle \in [Holders -> Handles \cup {NoHandle}]
  /\ due \in [Holders -> Nat]
  /\ faults \in Nat
  /\ crashes \in Nat

Holds(h) == handle[h] # NoHandle

\* A file name is a fresh UUID.  Names that nothing refers to any more are
\* used again, so that Paths can be small; a writer that finds none waits.
InUse ==
  PathsOf(rows)
    \cup (UNION {PathsOf(op[h].seen) : h \in Holders})
    \cup {handle[h].path : h \in {g \in Holders : Holds(g)}}
    \cup (UNION {c.targets \cup {c.row.path} : c \in late})

\* run_with_lease_renewal renews every half TTL.
Period == IF TTL \div 2 > 1 THEN TTL \div 2 ELSE 1

FreshPath == CHOOSE p \in Paths \ InUse : TRUE

Start(h, operation) ==
  /\ phase' = [phase EXCEPT ![h] = operation]
  /\ op' = [op EXCEPT ![h] = Op(now, 1, FALSE, {})]

\* A coordinator that is done with a lease operation.
Settled(h, next) ==
  /\ phase' = [phase EXCEPT ![h] = next]
  /\ op' = [op EXCEPT ![h] = Op(0, 1, FALSE, {})]

Init ==
  /\ LET p == CHOOSE p \in Paths : TRUE
     IN  rows = IF Fresh THEN {} ELSE {Row(NoHolder, 0, 0, TRUE, p)}
  /\ late = {}
  /\ doomed = {}
  /\ now = 0
  /\ phase = [h \in Holders |-> "idle"]
  /\ op = [h \in Holders |-> Op(0, 1, FALSE, {})]
  /\ handle = [h \in Holders |-> NoHandle]
  /\ due = [h \in Holders |-> 0]
  /\ faults = 0
  /\ crashes = 0

-----------------------------------------------------------------------------
(* The lease operations. *)

\* Each attempt reads the committed table afresh.
Load(h) ==
  /\ phase[h] \in Operations
  /\ ~op[h].loaded
  /\ op' = [op EXCEPT ![h] = Op(op[h].now, op[h].attempt, TRUE, rows)]
  /\ UNCHANGED <<rows, late, doomed, now, phase, handle, due, faults, crashes>>

\* max_by_key(acquired_at_ms): the last of the newest rows in file order.
Latest(S) == {r \in S : \A q \in S : q.at <= r.at}

\* Mutants of Acquirable: a claim that expires one tick early, and one that
\* never expires.
AcquirableEarly(r, t) == r.released \/ t + 1 >= r.exp
AcquirableReleased(r, t) == r.released /\ t = t

\* lease_acquirable, for the newest row that was read.
Acquirable(r, t) == r.released \/ t >= r.exp
OwnLive(r, h, t) == ~Acquirable(r, t) /\ r.holder = h
HeldByOther(r, h, t) == ~Acquirable(r, t) /\ r.holder # h

\* The unreleased row that was read under the handle's path.
Current(h) ==
  {r \in op[h].seen : Holds(h) /\ r.path = handle[h].path /\ ~r.released}

\* Mutant of StillOurs: any live row will do.
StillOursAny(h) == \E r \in op[h].seen : ~r.released

\* renew and release go on only with their own claim.
StillOurs(h) == \E r \in Current(h) : r.holder = h

\* What was read lets the operation write its row.
Writes(h) ==
  /\ op[h].loaded
  /\ \/ /\ phase[h] = "acquire"
        /\ \/ op[h].seen = {}
           \/ \E r \in Latest(op[h].seen) : Acquirable(r, op[h].now)
     \/ /\ phase[h] \in {"renew", "release"}
        /\ StillOurs(h)
  /\ Paths \ InUse # {}

\* lease_row: a claim that expires TTL after the operation started, or a
\* tombstone that is expired at once.
NewRow(h) ==
  IF phase[h] = "release"
    THEN Row(h, op[h].now, op[h].now, TRUE, FreshPath)
    ELSE Row(h, op[h].now, op[h].now + TTL, FALSE, FreshPath)

\* Mutant of Applies: rewrite_files without check_file_existence.
AppliesAlways(targets) == targets = targets

\* rewrite_files with check_file_existence: every file to delete is live.
Applies(targets) == targets \subseteq PathsOf(rows)

Replace(targets, r) == rows' = {q \in rows : q.path \notin targets} \cup {r}

\* CasOutcome::Committed.  What became of the files of replaced rows is of no
\* interest any more.
Commit(h) ==
  /\ Writes(h)
  /\ Applies(PathsOf(op[h].seen))
  /\ Replace(PathsOf(op[h].seen), NewRow(h))
  /\ doomed' = doomed \ PathsOf(op[h].seen)
  /\ Settled(h, IF phase[h] = "release" THEN "idle" ELSE "work")
  /\ handle' = [handle EXCEPT ![h] =
                  IF phase[h] = "release" THEN NoHandle
                  ELSE Handle(op[h].now + TTL, FreshPath)]
  /\ due' = [due EXCEPT ![h] = IF phase[h] = "acquire"
                               THEN now + Period
                               ELSE due[h]]
  /\ UNCHANGED <<late, now, faults, crashes>>

\* What an operation leaves behind when it ends without its commit: no
\* lease after an acquire or a release, the old handle after a renew.
GiveUp(h, next) ==
  /\ Settled(h, next)
  /\ handle' = [handle EXCEPT ![h] =
                  IF phase[h] = "renew" THEN handle[h] ELSE NoHandle]

\* CasOutcome::Lost: try_acquire answers None and this tick skips the
\* table, renew fails and the job goes on, release has nothing to do.
Lose(h) ==
  /\ Writes(h)
  /\ ~Applies(PathsOf(op[h].seen))
  /\ GiveUp(h, IF phase[h] = "renew" THEN "work" ELSE "idle")
  /\ UNCHANGED <<rows, late, doomed, now, due, faults, crashes>>

\* try_acquire, HeldByOther.
Skip(h) ==
  /\ phase[h] = "acquire"
  /\ \E r \in Latest(op[h].seen) : HeldByOther(r, h, op[h].now)
  /\ GiveUp(h, "idle")
  /\ UNCHANGED <<rows, late, doomed, now, due, faults, crashes>>

\* try_acquire, OwnLive: the claim that was read is the handle, no commit.
Reacquire(h) ==
  /\ phase[h] = "acquire"
  /\ \E r \in Latest(op[h].seen) :
       /\ OwnLive(r, h, op[h].now)
       /\ handle' = [handle EXCEPT ![h] = Handle(r.exp, r.path)]
  /\ Settled(h, "work")
  /\ due' = [due EXCEPT ![h] = now + Period]
  /\ UNCHANGED <<rows, late, doomed, now, faults, crashes>>

\* renew and release whose claim is not live under their path: an error
\* the job ignores, and a success without a write.
NotOurs(h) ==
  /\ phase[h] \in {"renew", "release"}
  /\ op[h].loaded
  /\ ~StillOurs(h)
  /\ GiveUp(h, IF phase[h] = "renew" THEN "work" ELSE "idle")
  /\ UNCHANGED <<rows, late, doomed, now, due, faults, crashes>>

\* An operation that fails: an acquire that fails runs the job unleased.
AfterError(h) ==
  /\ faults < MaxFaults
  /\ faults' = faults + 1
  /\ GiveUp(h, IF phase[h] = "release" THEN "idle" ELSE "work")

\* CasOutcome::Transient: again from the load, until the last attempt.
Conflict(h) ==
  /\ faults < MaxFaults
  /\ Writes(h)
  /\ op[h].attempt < MaxAttempts
  /\ op' = [op EXCEPT ![h] = Op(op[h].now, op[h].attempt + 1, FALSE, {})]
  /\ faults' = faults + 1
  /\ UNCHANGED <<rows, late, doomed, now, phase, handle, due, crashes>>

Exhausted(h) ==
  /\ AfterError(h)
  /\ Writes(h)
  /\ op[h].attempt = MaxAttempts
  /\ UNCHANGED <<rows, late, doomed, now, due, crashes>>

\* The table cannot be loaded, or the commit is refused.
Fail(h) ==
  /\ phase[h] \in Operations
  /\ AfterError(h)
  /\ UNCHANGED <<rows, late, doomed, now, due, crashes>>

\* An error of the commit: "commit state is unknown" keeps the new file
\* (keep_if_outcome_unknown), any other one lets the guard delete it.
Guarded == {doomed, doomed \cup {FreshPath}}

\* A commit whose answer was lost, and that was applied.
LostReply(h) ==
  /\ AfterError(h)
  /\ Writes(h)
  /\ Applies(PathsOf(op[h].seen))
  /\ Replace(PathsOf(op[h].seen), NewRow(h))
  /\ \E left \in Guarded : doomed' = left \ PathsOf(op[h].seen)
  /\ UNCHANGED <<late, now, due, crashes>>

\* A commit that is still on its way when its caller is told it failed.
Delay(h) ==
  /\ Late
  /\ AfterError(h)
  /\ Writes(h)
  /\ late' = late \cup {[targets |-> PathsOf(op[h].seen), row |-> NewRow(h)]}
  /\ doomed' \in Guarded
  /\ UNCHANGED <<rows, now, due, crashes>>

Land(c) ==
  /\ late' = late \ {c}
  /\ IF Applies(c.targets) THEN Replace(c.targets, c.row) ELSE rows' = rows
  /\ doomed' = doomed \ (IF Applies(c.targets) THEN c.targets ELSE {c.row.path})
  /\ UNCHANGED <<now, phase, op, handle, due, faults, crashes>>

\* read_lease_rows opens the file of every live row, and fails when one is
\* gone.  The delete of a dropped guard is spawned and may fail: before it is
\* done, or when it never is, the file can still be read.
AllRead == PathsOf(rows) \cap doomed = {}

Unreadable(h) ==
  /\ phase[h] \in Operations
  /\ ~op[h].loaded
  /\ ~AllRead
  /\ GiveUp(h, IF phase[h] = "release" THEN "idle" ELSE "work")
  /\ UNCHANGED <<rows, late, doomed, now, due, faults, crashes>>

-----------------------------------------------------------------------------
(* The scheduler around them. *)

\* active_one_table, as far as the lease: InflightGuard leaves one job of
\* a table at a time in a coordinator.
StartAcquire(h) ==
  /\ phase[h] = "idle"
  /\ Start(h, "acquire")
  /\ UNCHANGED <<rows, late, doomed, now, handle, due, faults, crashes>>

\* run_with_lease_renewal: the ticker fires; ticks that were missed are
\* skipped.
StartRenew(h) ==
  /\ phase[h] = "work"
  /\ Holds(h)
  /\ now >= due[h]
  /\ Start(h, "renew")
  /\ due' = [due EXCEPT ![h] =
               due[h] + Period * ((now - due[h]) \div Period + 1)]
  /\ UNCHANGED <<rows, late, doomed, now, handle, faults, crashes>>

\* The rewrite ends, well or badly; a lease is released either way.
Finish(h) ==
  /\ phase[h] = "work"
  /\ IF Holds(h)
       THEN Start(h, "release")
       ELSE Settled(h, "idle")
  /\ due' = [due EXCEPT ![h] = 0]
  /\ UNCHANGED <<rows, late, doomed, now, handle, faults, crashes>>

\* The process stops; its successor has another holder id.
Crash(h) ==
  /\ phase[h] # "down"
  /\ crashes < MaxCrashes
  /\ crashes' = crashes + 1
  /\ Settled(h, "down")
  /\ handle' = [handle EXCEPT ![h] = NoHandle]
  /\ due' = [due EXCEPT ![h] = 0]
  /\ UNCHANGED <<rows, late, doomed, now, faults>>

Tick ==
  /\ now < MaxTime
  /\ now' = now + 1
  /\ UNCHANGED <<rows, late, doomed, phase, op, handle, due, faults, crashes>>

Step(h) ==
  \/ Load(h) \/ Unreadable(h) \/ Commit(h) \/ Lose(h) \/ Skip(h)
  \/ Reacquire(h) \/ NotOurs(h) \/ StartAcquire(h) \/ Finish(h)

Fault(h) ==
  \/ Conflict(h) \/ Exhausted(h) \/ Fail(h) \/ LostReply(h) \/ Delay(h)
  \/ Crash(h)

Next ==
  \/ \E h \in Holders : Step(h) \/ StartRenew(h) \/ Fault(h)
  \/ \E c \in late : Land(c)
  \/ Tick

Spec == Init /\ [][Next]_vars

\* The scheduler ticks, a rewrite ends and a lease call returns; the
\* renewals, the faults and the crashes are not owed to anybody.
FairSpec ==
  Spec /\ WF_vars(Tick) /\ \A h \in Holders : WF_vars(Step(h))

-----------------------------------------------------------------------------
(* Properties. *)

Unexpired(h) == Holds(h) /\ now < handle[h].exp

\* Two coordinators never both hold an unexpired lease on the table, however
\* their loads and commits interleave, whichever replies are lost and
\* whoever stops (commit_cas with check_file_existence, lease_acquirable).
Exclusion ==
  \A g, h \in Holders : Unexpired(g) /\ Unexpired(h) => g = h

\* Once a job_key has a lease row it has exactly one: every claim, renewal
\* and release replaces what it read, or nothing (commit_cas, release).
OneLiveRow == ~Fresh => \E r \in rows : rows = {r}

\* A release never takes the running claim of another coordinator away: one
\* that lost its lease to a steal has nothing to release any more.
ReleaseSparesOthers ==
  [][\A h \in Holders :
       phase[h] = "release" /\ phase'[h] # "release"
         => \A r \in rows : r.holder # h /\ ~r.released /\ now < r.exp
                              => r \in rows']_vars

\* The claim the one live row makes; a tombstone makes none.
LiveClaim ==
  LET r == CHOOSE q \in rows : TRUE
  IN  IF r.released THEN [holder |-> NoHolder, exp |-> 0]
      ELSE [holder |-> r.holder, exp |-> r.exp]

Cell == INSTANCE LeaseCell WITH Nobody <- NoHolder, claim <- LiveClaim

\* The rows of a job_key that was claimed before are one LeaseCell: two-step
\* reads and commits, lost answers, and commits that land after their caller
\* gave up take no running claim from its holder, revive none that was given
\* up, and shorten none (lease_acquirable, commit_cas, renew, release).
ImplementsLeaseCell == Cell!Spec

Abandoned ==
  \E r \in rows : ~r.released /\ phase[r.holder] = "down" /\ r.exp <= MaxTime

\* A claim whose holder stopped does not stay: another coordinator takes
\* it over once it expires (the steal of try_acquire), unless its commit was
\* applied, answered by an error and its file deleted by the guard: a lease
\* that cannot be read is not stolen, and its table is compacted without one.
AbandonedIsStolen == Abandoned ~> (~Abandoned \/ ~AllRead)

=============================================================================
