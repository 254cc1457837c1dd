---------------------------- MODULE FragmentRun ----------------------------
(***************************************************************************)
(* Distributed scans over the worker pool: a query plans a fragment onto a *)
(* healthy worker, reserves its load, drives it (dispatch, stream, retry)  *)
(* and hands the batches to the query (query_handler.rs try_distribute,    *)
(* distributed_scan.rs FragmentRun, credential_refresh.rs).  Composed with *)
(* the registry: a failed attempt evicts the worker, a retry asks the      *)
(* registry for another, a hello of a new process purges the credential    *)
(* tracker.                                                                *)
(***************************************************************************)
EXTENDS WorkerRegistry

CONSTANTS
  Fragments,   \* the fragments of the queries under way
  Batches,     \* bound: record batches in a fragment
  MaxRetries   \* max_retries

ASSUME FragmentAssumption ==
  IsFiniteSet(Fragments) /\ Batches \in Nat /\ MaxRetries \in Nat

VARIABLES
  frag,      \* the state of each fragment's stream
  load,      \* WorkerLoadTracker: the fragments counted on each URL
  tracked,   \* CredentialRefreshTracker: fragment -> URL, or NoUrl
  untrack,   \* fragments whose spawned unregister has not run
  purge      \* URLs whose restart is noted, the purge still to come

vars == <<registryVars, frag, load, tracked, untrack, purge>>

NoUrl == "none"

Idle == [st |-> "idle", home |-> NoUrl, at |-> NoUrl, inst |-> 0, tries |-> 0,
         failed |-> {}, policy |-> "same", sent |-> 0, out |-> <<>>]

Init ==
  /\ RegistryInit
  /\ frag = [f \in Fragments |-> Idle]
  /\ load = [u \in Urls |-> 0]
  /\ tracked = [f \in Fragments |-> NoUrl]
  /\ untrack = {}
  /\ purge = {}

Live == {"planned", "dispatch", "stream", "retry"}
Ended == {"finished", "failed", "cancelled"}

(***************************************************************************)
(* Planning reserves the load; the first poll registers the fragment for   *)
(* credential refreshes and starts the driver.                             *)
(***************************************************************************)
Plan(f) ==
  /\ frag[f].st = "idle"
  /\ \E u \in HealthyWorkers :
       /\ frag' = [frag EXCEPT ![f].st = "planned", ![f].home = u, ![f].at = u]
       /\ load' = [load EXCEPT ![u] = @ + 1]
  /\ UNCHANGED <<registryVars, tracked, untrack, purge>>

FirstPoll(f) ==
  /\ frag[f].st = "planned"
  /\ frag' = [frag EXCEPT ![f].st = "dispatch"]
  /\ tracked' = [tracked EXCEPT ![f] = frag[f].home]
  /\ UNCHANGED <<registryVars, load, untrack, purge>>

(***************************************************************************)
(* CallbackStream::finish, once per fragment: the callback drops the       *)
(* reservation, the unregister is spawned.                                 *)
(***************************************************************************)
Release(f) == load' = [load EXCEPT ![frag[f].home] = @ - 1]

\* The driver's state is dropped; what the query received stays.
Over(g, outcome) == [Idle EXCEPT !.st = outcome, !.out = g.out]

\* Mutant: only a failed fragment is unregistered.
FinishLeaky(f, outcome) ==
  /\ frag' = [frag EXCEPT ![f] = Over(@, outcome)]
  /\ Release(f)
  /\ untrack' = IF outcome = "failed" THEN untrack \cup {f} ELSE untrack
  /\ UNCHANGED <<tracked, purge>>

Finish(f, outcome) ==
  /\ frag' = [frag EXCEPT ![f] = Over(@, outcome)]
  /\ Release(f)
  /\ untrack' = untrack \cup {f}
  /\ UNCHANGED <<tracked, purge>>

\* Mutant: every call of the callback releases.
RetryingReleases(f) == Release(f)

\* The callback sees a failed attempt that will be retried: nothing is released.
Retrying(f) == UNCHANGED load

(***************************************************************************)
(* A failed attempt.  The policy is worker_fault.rs's table: "elsewhere"   *)
(* evicts the worker, whichever process now answers under its URL.         *)
(***************************************************************************)
Penalise(u, policy) ==
  reg' = IF policy = "elsewhere" THEN Evicted(u) ELSE reg

MayRetry(f, policy) == policy # "fail_fast" /\ frag[f].tries < MaxRetries

AfterFailure(f, policy) ==
  LET u == frag[f].at
  IN \/ /\ ~MayRetry(f, policy)
        /\ Finish(f, "failed")
     \/ /\ MayRetry(f, policy)
        /\ frag' = [frag EXCEPT ![f].st = "retry", ![f].policy = policy,
                                ![f].failed = IF policy = "elsewhere" THEN @ \cup {u} ELSE @]
        /\ UNCHANGED <<load, tracked, untrack, purge>>

\* Mutant: a mid-stream failure is always treated as a dispatch failure.
AttemptAlwaysRetried(f, policy) ==
  /\ Penalise(frag[f].at, policy)
  /\ AfterFailure(f, policy)

\* Once the query holds a batch the fragment cannot be dispatched again.
AttemptFails(f, policy) ==
  /\ Penalise(frag[f].at, policy)
  /\ \/ frag[f].out = <<>> /\ AfterFailure(f, policy)
     \/ frag[f].out # <<>> /\ Finish(f, "failed")

\* Mutant: the attempt is not counted.
DispatchedUncounted(f, u) ==
  /\ frag' = [frag EXCEPT ![f].st = "dispatch", ![f].at = u, ![f].sent = 0]
  /\ Retrying(f)
  /\ UNCHANGED <<registryVars, tracked, untrack, purge>>

\* The next attempt, on a worker the registry calls healthy by now.
Dispatched(f, u) ==
  /\ frag' = [frag EXCEPT ![f].st = "dispatch", ![f].at = u,
                          ![f].tries = @ + 1, ![f].sent = 0]
  /\ Retrying(f)
  /\ UNCHANGED <<registryVars, tracked, untrack, purge>>

Retry(f) ==
  /\ frag[f].st = "retry"
  /\ \/ frag[f].policy = "same" /\ Dispatched(f, frag[f].at)
     \/ /\ frag[f].policy = "elsewhere"
        /\ \E u \in HealthyWorkers \ frag[f].failed : Dispatched(f, u)

NoWorkerLeft(f) ==
  /\ frag[f].st = "retry" /\ frag[f].policy = "elsewhere"
  /\ HealthyWorkers \subseteq frag[f].failed
  /\ Finish(f, "failed")
  /\ UNCHANGED registryVars

(***************************************************************************)
(* One attempt against the process behind the URL.                         *)
(***************************************************************************)
Serving(f) ==
  LET p == proc[frag[f].at]
  IN p.up /\ (frag[f].st = "stream" => p.inst = frag[f].inst)

Attempting(f) == frag[f].st \in {"dispatch", "stream"}

Connect(f) ==
  /\ frag[f].st = "dispatch" /\ Serving(f) /\ proc[frag[f].at].pinned
  /\ frag' = [frag EXCEPT ![f].st = "stream", ![f].inst = proc[frag[f].at].inst]
  /\ UNCHANGED <<registryVars, load, tracked, untrack, purge>>

\* "Coordinator ticket-signing key not pinned yet": the ticket is refused.
TicketRefused(f) ==
  /\ frag[f].st = "dispatch" /\ Serving(f) /\ ~proc[frag[f].at].pinned
  /\ AttemptFails(f, "fail_fast")
  /\ UNCHANGED <<proc, cap, hellos, round, faults>>

\* Nobody answers, or the process that streamed is gone.
WorkerGone(f) ==
  /\ Attempting(f) /\ ~Serving(f)
  /\ AttemptFails(f, "elsewhere")
  /\ UNCHANGED <<proc, cap, hellos, round, faults>>

\* The worker's own fault, which it counts against itself, or the connection's.
WorkerFails(f) ==
  /\ Attempting(f) /\ Serving(f)
  /\ Fault
  /\ \/ proc' = [proc EXCEPT ![frag[f].at].pending = @ + 1]
     \/ UNCHANGED proc
  /\ AttemptFails(f, "elsewhere")
  /\ UNCHANGED <<cap, hellos, round>>

\* A throttled source is tried again where it was; a user's error is final.
SourceFails(f) ==
  /\ Attempting(f) /\ Serving(f)
  /\ \E policy \in {"same", "fail_fast"} : AttemptFails(f, policy)
  /\ UNCHANGED <<proc, cap, hellos, round, faults>>

Batch(f) ==
  /\ frag[f].st = "stream" /\ Serving(f) /\ frag[f].sent < Batches
  /\ frag' = [frag EXCEPT ![f].sent = @ + 1, ![f].out = Append(@, frag[f].sent + 1)]
  /\ UNCHANGED <<registryVars, load, tracked, untrack, purge>>

Eof(f) ==
  /\ frag[f].st = "stream" /\ frag[f].sent = Batches
  /\ Finish(f, "finished")
  /\ UNCHANGED registryVars

\* The stream is dropped (LIMIT, cancel, disconnect); before the first poll
\* there is no stream, and the reservation goes with the plan.
Cancel(f) ==
  /\ \/ frag[f].st \in Live \ {"planned"} /\ Finish(f, "cancelled")
     \/ /\ frag[f].st = "planned"
        /\ frag' = [frag EXCEPT ![f] = Over(@, "cancelled")]
        /\ Release(f)
        /\ UNCHANGED <<tracked, untrack, purge>>
  /\ UNCHANGED registryVars

(***************************************************************************)
(* The credential tracker.                                                 *)
(***************************************************************************)
Untrack(f) ==
  /\ f \in untrack
  /\ tracked' = [tracked EXCEPT ![f] = NoUrl]
  /\ untrack' = untrack \ {f}
  /\ UNCHANGED <<registryVars, frag, load, purge>>

\* The heartbeat handler notes a new process, and purges after the registry's
\* lock is released.  (The handler answers after the purge; here the answer
\* may also leave before it.)
Hello(m) ==
  /\ Greet(m)
  /\ purge' = IF InstanceChanged(m) THEN purge \cup {m.url} ELSE purge
  /\ UNCHANGED <<frag, load, tracked, untrack>>

Purge(u) ==
  /\ u \in purge
  /\ tracked' = [f \in Fragments |-> IF tracked[f] = u THEN NoUrl ELSE tracked[f]]
  /\ purge' = purge \ {u}
  /\ UNCHANGED <<registryVars, frag, load, untrack>>

Next ==
  \/ RegistryStep /\ UNCHANGED <<frag, load, tracked, untrack, purge>>
  \/ \E m \in hellos : Hello(m)
  \/ \E u \in Urls : Purge(u)
  \/ \E f \in Fragments :
       \/ Plan(f) \/ FirstPoll(f) \/ Connect(f) \/ Batch(f) \/ Eof(f)
       \/ TicketRefused(f) \/ WorkerGone(f) \/ WorkerFails(f) \/ SourceFails(f)
       \/ Retry(f) \/ NoWorkerLeft(f) \/ Cancel(f) \/ Untrack(f)

Spec == Init /\ [][Next]_vars

(***************************************************************************)
(* Fairness.  The heartbeat task and the health-check task tick for ever   *)
(* and each call they make ends (10 s, 3 s); a hello that is on its way    *)
(* arrives; a stream that is polled makes progress (connect and RPC have   *)
(* timeouts), and its consumer polls it or drops it.  Nothing promises     *)
(* that a process starts, that a quiet period is noticed, or that a query  *)
(* is planned.                                                             *)
(***************************************************************************)
RegistryOnly(A) == A /\ UNCHANGED <<frag, load, tracked, untrack, purge>>

BeatTask(u) == RegistryOnly(Heartbeat(u) \/ Accepted(u) \/ Refused(u))

Arrives(u) == \E m \in hellos : m.url = u /\ (Hello(m) \/ RegistryOnly(Refuse(m)))

CheckTask == RegistryOnly(StartRound \/ \E u \in Urls : CheckAnswered(u) \/ ApplyCheck(u))

Drive(f) ==
  \/ FirstPoll(f) \/ Connect(f) \/ Batch(f) \/ Eof(f) \/ TicketRefused(f)
  \/ WorkerGone(f) \/ Retry(f) \/ NoWorkerLeft(f)

FairSpec ==
  /\ Spec
  /\ \A u \in Beating : WF_vars(BeatTask(u)) /\ WF_vars(Arrives(u))
  /\ WF_vars(CheckTask)
  /\ \A f \in Fragments : WF_vars(Drive(f))

-----------------------------------------------------------------------------

FragmentStates ==
  [st : {"idle"} \cup Live \cup Ended, home : Urls \cup {NoUrl},
   at : Urls \cup {NoUrl}, inst : Nat, tries : 0..MaxRetries,
   failed : SUBSET Urls, policy : {"same", "elsewhere", "fail_fast"},
   sent : 0..Batches, out : Seq(1..Batches)]

\* Every variable stays in its type: a worker beyond the cap is not admitted,
\* a live fragment has a worker, no fragment is dispatched more than
\* max_retries times again, and no load goes below zero.
TypeOK ==
  /\ RegistryTypeOK
  /\ frag \in [Fragments -> FragmentStates]
  /\ \A f \in Fragments : frag[f].st \in Live => frag[f].home \in Urls /\ frag[f].at \in Urls
  /\ load \in [Urls -> 0..Cardinality(Fragments)]
  /\ tracked \in [Fragments -> Urls \cup {NoUrl}]
  /\ untrack \subseteq Fragments /\ purge \subseteq Urls

\* What the query received of a fragment is a prefix of it, each batch once
\* and in order, whatever failed and was retried; a finished fragment is
\* complete (FragmentRun::drive's "re-dispatching would duplicate rows").
CleanPrefix ==
  \A f \in Fragments :
    /\ frag[f].out = [i \in 1..Len(frag[f].out) |-> i]
    /\ frag[f].st = "finished" => Len(frag[f].out) = Batches

\* The load the scheduler sees on a worker is exactly the fragments planned
\* onto it that have not ended: nothing is released at a retry, nothing twice
\* and nothing stays (ReservationGuard and the fragment callback).
LoadIsLive ==
  \A u \in Urls :
    load[u] = Cardinality({f \in Fragments : frag[f].st \in Live /\ frag[f].home = u})

\* The credential tracker forgets every fragment that ended, by every way of
\* ending, once its spawned unregister has run (COORD-02).
NoTrackerLeak ==
  \A f \in Fragments :
    frag[f].st \in {"idle", "planned"} \cup Ended /\ f \notin untrack => tracked[f] = NoUrl

\* A worker forgets a failure only when a hello that reported it has been
\* handled by the coordinator: a lost hello or a failure recorded during the
\* round trip is never dropped (acknowledge_failures).
FailuresReported == \A u \in Urls : proc[u].forgotten <= proc[u].told

\* The pool converges, whatever late hello, stale check or failed scan came
\* before: a registered worker that runs this coordinator's build, and can
\* show it has the key, is healthy in the end; one that is down is not; and
\* one of an older ScanTask version that cannot show the key stays out.  (An
\* older one that passes its checks is evicted by its hellos and readmitted
\* by the checks for ever, and a process of another protocol version is
\* refused before the registry hears of it: of these nothing is promised.)
PoolConverges ==
  \A u \in Urls :
    <>[](u \in Registered =>
           /\ ~proc[u].up => ~reg[u].healthy
           /\ proc[u].up /\ proc[u].build = "same"
                /\ (u \in Beating \/ TicketKeyReady(proc[u])) => reg[u].healthy
           /\ proc[u].up /\ proc[u].build = "older_task" /\ ~TicketKeyReady(proc[u])
                => ~reg[u].healthy)

\* A fragment that was polled ends: attempts are bounded, whatever the workers
\* do (max_retries).
FragmentsEnd ==
  \A f \in Fragments : (frag[f].st = "dispatch") ~> (frag[f].st \in Ended)

=============================================================================
