--------------------------- MODULE WorkerRegistry ---------------------------
(***************************************************************************)
(* The coordinator's pool of scan workers: the registry, the heartbeats    *)
(* ("hellos") the worker processes send it, and the health checks it runs  *)
(* against them (crates/sqe-coordinator/src/worker_registry.rs, the        *)
(* heartbeat arm of flight_sql.rs, crates/sqe-worker/src/heartbeat.rs and  *)
(* status.rs).                                                             *)
(*                                                                         *)
(* A worker is known by its URL; the process behind the URL stops and is   *)
(* started again, perhaps from another build.  Everything the coordinator  *)
(* learns of it is late: a hello is answered after the process that sent   *)
(* it is gone, a health-check result is applied after every other check of *)
(* the round has returned, a scan reports the failure of an earlier        *)
(* process.                                                                *)
(***************************************************************************)
EXTENDS Naturals, Sequences, FiniteSetsExt

CONSTANTS
  Urls,        \* the URLs workers advertise
  Seeds,       \* the ones listed in the coordinator's configuration
  Beating,     \* the workers configured to send heartbeats
  Configured,  \* the workers whose ticket key is configured: the others learn
               \* it from the reply to a heartbeat
  Caps,        \* the values of max_workers considered
  Threshold,   \* max_consecutive_failures
  Builds,      \* Builds[u]: for each process in turn, what it may run
  MaxHellos,   \* bound: hellos of one URL on their way at once
  MaxFaults    \* bound: stops, lost hellos, stalls and failed scans

\* A build is compatible with the coordinator's or not, and answers a health
\* check by naming the key it verifies tickets with, or with a plain "ok".
BuildKinds == {"same", "older_task", "other_protocol"}
ReplyKinds == {"keyed", "plain"}
AllBuilds == [kind : BuildKinds, reply : ReplyKinds]

ASSUME RegistryAssumption ==
  /\ Seeds \subseteq Urls /\ Beating \subseteq Urls /\ Configured \subseteq Urls
  /\ IsFiniteSet(Seeds)
  /\ Caps \subseteq Nat /\ Threshold \in Nat \ {0}
  /\ \A u \in Urls : Builds[u] \in Seq(SUBSET AllBuilds) /\ Len(Builds[u]) > 0
  /\ MaxHellos \in Nat \ {0} /\ MaxFaults \in Nat

VARIABLES
  proc,    \* the process behind each URL
  reg,     \* the registry: an entry for each URL it knows
  hellos,  \* the heartbeats on their way to the registry
  cap,     \* max_workers in force
  round,   \* the results of the health checks under way, "none" outside
  faults   \* how much has gone wrong so far

registryVars == <<proc, reg, cap, hellos, round, faults>>

Registered == DOMAIN reg

\* What the planner and the retry loop ask for.
HealthyWorkers == {u \in Registered : reg[u].healthy}

\* WorkerState::unknown: not yet seen, never evicted, no process known.
FreshEntry == [healthy |-> FALSE, failures |-> 0, recent |-> FALSE, inst |-> 0]

(***************************************************************************)
(* A process: its number behind this URL, its build, how that answers a    *)
(* health check, whether it verifies tickets with this coordinator's key,  *)
(* the failures it has yet to report, and its heartbeat's round trip.      *)
(* forgotten counts the failures it no longer holds and told the ones some *)
(* hello the registry has handled reported; both are history, read only by *)
(* the properties.                                                         *)
(***************************************************************************)
NewProcess(u, n, b) ==
  [inst |-> n, up |-> TRUE, build |-> b.kind, reply |-> b.reply,
   pinned |-> u \in Configured,
   pending |-> 0, beat |-> "idle", reported |-> 0, forgotten |-> 0, told |-> 0]

\* The workers run, none has been heard of.  effective_cap: the configured
\* cap never refuses a seed.
RegistryInit ==
  /\ \E b \in [Urls -> UNION {Builds[u][1] : u \in Urls}] :
       /\ \A u \in Urls : b[u] \in Builds[u][1]
       /\ proc = [u \in Urls |-> NewProcess(u, 1, b[u])]
  /\ \E n \in Caps : cap = Max({n, Cardinality(Seeds)})
  /\ reg = [u \in Seeds |-> FreshEntry]
  /\ hellos = {}
  /\ round = [u \in Urls |-> "none"]
  /\ faults = 0

Fault == faults < MaxFaults /\ faults' = faults + 1

(***************************************************************************)
(* Processes start and stop.  Whoever waits for the stopped process's      *)
(* hello is gone; the hello may still be on its way.                       *)
(***************************************************************************)
Unheard(u) == {IF m.url = u THEN [m EXCEPT !.heard = FALSE] ELSE m : m \in hellos}

Start(u) ==
  /\ ~proc[u].up /\ proc[u].inst < Len(Builds[u])
  /\ \E b \in Builds[u][proc[u].inst + 1] :
       proc' = [proc EXCEPT ![u] = NewProcess(u, @.inst + 1, b)]
  /\ UNCHANGED <<reg, cap, hellos, round, faults>>

Stop(u) ==
  /\ proc[u].up
  /\ Fault
  /\ proc' = [proc EXCEPT ![u].up = FALSE, ![u].beat = "idle"]
  /\ hellos' = Unheard(u)
  /\ UNCHANGED <<reg, cap, round>>

(***************************************************************************)
(* The heartbeat task: read the failures, say hello, wait for the answer;  *)
(* an answer acknowledges the failures the hello reported, no others.      *)
(***************************************************************************)
Heartbeat(u) ==
  /\ u \in Beating /\ proc[u].up /\ proc[u].beat = "idle"
  /\ Cardinality({m \in hellos : m.url = u}) < MaxHellos
  /\ hellos' = hellos \cup
       {[url |-> u, inst |-> proc[u].inst, build |-> proc[u].build,
         failures |-> proc[u].pending,
         total |-> proc[u].forgotten + proc[u].pending, heard |-> TRUE]}
  /\ proc' = [proc EXCEPT ![u].beat = "waiting", ![u].reported = proc[u].pending]
  /\ UNCHANGED <<reg, cap, round, faults>>

\* Mutant: the counter is set to zero.
AcknowledgedAll(p) == p.pending

\* acknowledge_failures: a saturating subtraction of what was reported.
Acknowledged(p) == IF p.reported > p.pending THEN p.pending ELSE p.reported

\* The reply accepts the hello and carries the ticket key.
Accepted(u) ==
  /\ proc[u].beat = "accepted"
  /\ LET n == Acknowledged(proc[u])
     IN proc' = [proc EXCEPT ![u].beat = "idle", ![u].reported = 0, ![u].pinned = TRUE,
                             ![u].pending = @ - n, ![u].forgotten = @ + n]
  /\ UNCHANGED <<reg, cap, hellos, round, faults>>

\* A refusal, like a failed call, acknowledges nothing.
Refused(u) ==
  /\ proc[u].beat = "refused"
  /\ proc' = [proc EXCEPT ![u].beat = "idle", ![u].reported = 0]
  /\ UNCHANGED <<reg, cap, hellos, round, faults>>

\* The hello or its answer is lost, or late: the call fails after 10 s.
GiveUp(u) ==
  /\ proc[u].beat # "idle"
  /\ Fault
  /\ proc' = [proc EXCEPT ![u].beat = "idle", ![u].reported = 0]
  /\ hellos' \in {Unheard(u), {m \in hellos : m.url # u}}
  /\ UNCHANGED <<reg, cap, round>>

(***************************************************************************)
(* The registry's transitions, each under its write lock.  recent stands   *)
(* for last_unhealthy_at: the quiet period since the eviction is not over. *)
(***************************************************************************)
MarkHealthy(e) == [e EXCEPT !.healthy = TRUE, !.failures = 0]

MarkUnhealthy(e) == [e EXCEPT !.healthy = FALSE, !.failures = Threshold, !.recent = TRUE]

\* The count is only ever compared with the threshold, so it stops there.
MarkFailed(e) ==
  IF e.failures + 1 >= Threshold
    THEN [e EXCEPT !.healthy = FALSE, !.failures = Threshold, !.recent = TRUE]
    ELSE [e EXCEPT !.failures = @ + 1]

\* workers.get_mut(url): an unknown URL is left unknown.
Evicted(u) == [v \in Registered |-> IF v = u THEN MarkUnhealthy(reg[v]) ELSE reg[v]]

\* Does a hello return an evicted worker to the pool?
Readmits(e, m) == m.failures = 0 \/ ~e.recent

Greeted(e, m) ==
  LET known == [e EXCEPT !.inst = m.inst]
  IN IF ~e.healthy /\ Readmits(e, m) THEN MarkHealthy(known) ELSE known

\* register_hello after the compatibility checks: unknown URLs up to the cap.
Admits(m) == m.url \in Registered \/ Cardinality(Registered) < cap

EntryFor(u) == IF u \in Registered THEN reg[u] ELSE FreshEntry

Insert(u, e) == [v \in Registered \cup {u} |-> IF v = u THEN e ELSE reg[v]]

InstanceChanged(m) ==
  m.url \in Registered /\ reg[m.url].inst # 0 /\ reg[m.url].inst # m.inst

\* The answer reaches the process if it still waits; what it was told stays.
Answer(m, answer) ==
  LET u == m.url
      mine == m.inst = proc[u].inst
      toldNow == IF mine /\ m.total > proc[u].told THEN m.total ELSE proc[u].told
  IN proc' = [proc EXCEPT ![u].told = toldNow,
                          ![u].beat = IF m.heard THEN answer ELSE @]

Received(m) == hellos' = hellos \ {m} /\ UNCHANGED <<cap, round, faults>>

\* check_worker_protocol: another protocol or DataFusion version is refused
\* before the registry is asked.
RefuseProtocol(m) ==
  /\ m.build = "other_protocol"
  /\ Answer(m, "refused")
  /\ UNCHANGED reg
  /\ Received(m)

\* Mutant: the hello is refused, the old registration stays.
RefuseTaskOnly(m) ==
  /\ m.build = "older_task"
  /\ Answer(m, "refused")
  /\ UNCHANGED reg
  /\ Received(m)

\* register_hello, an older ScanTask version: refused, and evicted if known.
RefuseTask(m) ==
  /\ m.build = "older_task"
  /\ Answer(m, "refused")
  /\ reg' = Evicted(m.url)
  /\ Received(m)

RefuseFull(m) ==
  /\ m.build = "same" /\ ~Admits(m)
  /\ Answer(m, "refused")
  /\ UNCHANGED reg
  /\ Received(m)

Refuse(m) == RefuseProtocol(m) \/ RefuseTask(m) \/ RefuseFull(m)

Greet(m) ==
  /\ m.build = "same" /\ Admits(m)
  /\ Answer(m, "accepted")
  /\ reg' = Insert(m.url, Greeted(EntryFor(m.url), m))
  /\ Received(m)

QuietElapses(u) ==
  /\ u \in Registered /\ reg[u].recent
  /\ reg' = [reg EXCEPT ![u].recent = FALSE]
  /\ UNCHANGED <<proc, cap, hellos, round, faults>>

(***************************************************************************)
(* check_all_workers: list the URLs, check them all at once, and only when *)
(* the last check has returned apply the results, one lock each.           *)
(***************************************************************************)
StartRound ==
  /\ \A u \in Urls : round[u] = "none"
  /\ Registered # {}
  /\ round' = [u \in Urls |-> IF u \in Registered THEN "asked" ELSE "none"]
  /\ UNCHANGED <<proc, reg, cap, hellos, faults>>

\* ticket_key_ready.  A plain "ok" counts as ready, pinned or not.  (It also
\* says ready when the registry expects no key; the server always sets one.)
TicketKeyReady(p) == p.reply = "plain" \/ p.pinned

\* health_check_worker.
CheckResult(p) ==
  IF ~p.up THEN "error" ELSE IF TicketKeyReady(p) THEN "ready" ELSE "other_key"

CheckAnswered(u) ==
  /\ round[u] = "asked"
  /\ round' = [round EXCEPT ![u] = CheckResult(proc[u])]
  /\ UNCHANGED <<proc, reg, cap, hellos, faults>>

\* A live worker that does not answer within HEALTH_CHECK_TIMEOUT.
CheckStalls(u) ==
  /\ round[u] = "asked" /\ proc[u].up
  /\ Fault
  /\ round' = [round EXCEPT ![u] = "error"]
  /\ UNCHANGED <<proc, reg, cap, hellos>>

Applied(e, result) ==
  CASE result = "ready"     -> MarkHealthy(e)
    [] result = "other_key" -> e
    [] result = "error"     -> MarkFailed(e)

ApplyCheck(u) ==
  /\ \A v \in Urls : round[v] # "asked"
  /\ round[u] # "none"
  /\ reg' = [reg EXCEPT ![u] = Applied(@, round[u])]
  /\ round' = [round EXCEPT ![u] = "none"]
  /\ UNCHANGED <<proc, cap, hellos, faults>>

\* Every step but Greet, which the fragments' credentials take part in.
RegistryStep ==
  \/ \E u \in Urls : \/ Start(u) \/ Stop(u)
                     \/ Heartbeat(u) \/ Accepted(u) \/ Refused(u) \/ GiveUp(u)
                     \/ QuietElapses(u)
                     \/ CheckAnswered(u) \/ CheckStalls(u) \/ ApplyCheck(u)
  \/ \E m \in hellos : Refuse(m)
  \/ StartRound

-----------------------------------------------------------------------------
(* The types. *)

Processes ==
  [inst : Nat, up : BOOLEAN, build : BuildKinds, reply : ReplyKinds,
   pinned : BOOLEAN, pending : 0..MaxFaults,
   beat : {"idle", "waiting", "accepted", "refused"},
   reported : 0..MaxFaults, forgotten : 0..MaxFaults, told : 0..MaxFaults]

Entries == [healthy : BOOLEAN, failures : 0..Threshold, recent : BOOLEAN, inst : Nat]

Hellos ==
  [url : Urls, inst : Nat, build : BuildKinds, failures : 0..MaxFaults,
   total : 0..MaxFaults, heard : BOOLEAN]

RegistryTypeOK ==
  /\ proc \in [Urls -> Processes]
  /\ Seeds \subseteq Registered /\ Registered \subseteq Urls
  /\ IsFiniteSet(Registered) /\ cap \in Nat /\ Cardinality(Registered) <= cap
  /\ reg \in [Registered -> Entries]
  /\ hellos \subseteq Hellos
  /\ round \in [Urls -> {"none", "asked", "ready", "other_key", "error"}]
  /\ \A u \in Urls : round[u] # "none" => u \in Registered
  /\ faults \in 0..MaxFaults

=============================================================================
