--------------------------- MODULE CircuitBreaker ---------------------------
(***************************************************************************)
(* The circuit breaker in front of the catalog and of Ranger               *)
(* (crates/sqe-core/src/circuit_breaker.rs), shared by every caller of a   *)
(* backend and made of four atomics that no lock joins: one action per     *)
(* atomic operation.  The timestamps are kept as ages in clock ticks, no   *)
(* larger than the window they are compared with.                          *)
(***************************************************************************)
EXTENDS Naturals, FiniteSets

CONSTANTS
  Callers,    \* the requests that use the breaker, one at a time each
  Threshold,  \* failure_threshold
  Recovery,   \* recovery_timeout, in ticks
  Lease,      \* probe_lease, in ticks: floored at 1 by the constructor
  MaxTurns,   \* bound: times the backend goes down or comes back
  MaxDrops    \* bound: calls that record no outcome

ASSUME BreakerAssumption ==
  /\ Threshold \in Nat \ {0} /\ Recovery \in Nat /\ Lease \in Nat \ {0}
  /\ MaxTurns \in Nat /\ MaxDrops \in Nat

VARIABLES
  state,        \* "closed", "open" or "half_open"
  failures,     \* failure_count, no further than the threshold
  lastFailure,  \* age of last_failure_ms
  halfOpen,     \* age of half_open_since_ms
  pc,           \* where each caller is
  current,      \* callers whose read of half_open_since_ms is still its value
  backend,      \* "up" or "down"
  turns, drops, \* how often the environment acted
  entered,      \* age of the last change from Open to Half-Open (history)
  extra         \* probes admitted beside its winner within a lease (history)

vars == <<state, failures, lastFailure, halfOpen, pc, current, backend, turns, drops,
          entered, extra>>

atomics == <<state, failures, lastFailure, halfOpen>>
history == <<entered, extra>>
world == <<backend, turns, drops>>

\* Both timestamps start at 0, the epoch: every window is long over.
Init ==
  /\ state = "closed" /\ failures = 0
  /\ lastFailure = Recovery /\ halfOpen = Lease
  /\ pc = [c \in Callers |-> "idle"]
  /\ current = {}
  /\ backend = "up" /\ turns = 0 /\ drops = 0
  /\ entered = Lease /\ extra = 0

Goto(c, from, to) == pc[c] = from /\ pc' = [pc EXCEPT ![c] = to]

Older(age, window) == IF age < window THEN age + 1 ELSE age

Tick ==
  /\ lastFailure' = Older(lastFailure, Recovery)
  /\ halfOpen' = Older(halfOpen, Lease)
  /\ entered' = Older(entered, Lease)
  /\ UNCHANGED <<state, failures, pc, current, world, extra>>

(***************************************************************************)
(* check: the state, then a timestamp, then a compare-exchange, then (for  *)
(* the winner of Open -> Half-Open) the start of the lease.                *)
(***************************************************************************)
LoadState(c) ==
  /\ \/ state = "closed" /\ Goto(c, "idle", "calling")
     \/ state = "open" /\ Goto(c, "idle", "saw_open")
     \/ state = "half_open" /\ Goto(c, "idle", "saw_half_open")
  /\ UNCHANGED <<atomics, current, world, history>>

Recovered == lastFailure >= Recovery

LoadFailure(c) ==
  /\ Goto(c, "saw_open", IF Recovered THEN "due" ELSE "idle")
  /\ UNCHANGED <<atomics, current, world, history>>

TryHalfOpen(c) ==
  /\ \/ /\ state = "open" /\ Goto(c, "due", "won")
        /\ state' = "half_open" /\ entered' = 0 /\ extra' = 0
     \/ /\ state # "open" /\ Goto(c, "due", "idle")
        /\ UNCHANGED <<state, history>>
  /\ UNCHANGED <<failures, lastFailure, halfOpen, current, world>>

StartLease(c) ==
  /\ Goto(c, "won", "calling")
  /\ halfOpen' = 0 /\ current' = {}
  /\ UNCHANGED <<state, failures, lastFailure, world, history>>

\* Mutant: a probe holds its slot until it answers.
LeaseNeverEnds == FALSE

LeaseOver == halfOpen >= Lease

LoadLease(c) ==
  /\ Goto(c, "saw_half_open", IF LeaseOver THEN "replacing" ELSE "idle")
  /\ current' = IF LeaseOver THEN current \cup {c} ELSE current
  /\ UNCHANGED <<atomics, world, history>>

\* Mutant: the new lease is stored, not exchanged for the one that was read.
TryReplaceByStore(c) ==
  /\ Goto(c, "replacing", "calling")
  /\ halfOpen' = 0 /\ current' = {}
  /\ extra' = IF state = "half_open" /\ entered < Lease THEN extra + 1 ELSE extra
  /\ UNCHANGED <<state, failures, lastFailure, world, entered>>

TryReplace(c) ==
  /\ \/ /\ c \in current /\ Goto(c, "replacing", "calling")
        /\ halfOpen' = 0 /\ current' = {}
        /\ extra' = IF state = "half_open" /\ entered < Lease THEN extra + 1 ELSE extra
     \/ /\ c \notin current /\ Goto(c, "replacing", "idle")
        /\ UNCHANGED <<halfOpen, current, extra>>
  /\ UNCHANGED <<state, failures, lastFailure, world, entered>>

(***************************************************************************)
(* The call, and what it records.  A dropped future, or an uncounted       *)
(* timeout, records nothing.                                               *)
(***************************************************************************)
Answered(c) ==
  /\ Goto(c, "calling", IF backend = "up" THEN "succeeded" ELSE "failed")
  /\ UNCHANGED <<atomics, current, world, history>>

Dropped(c) ==
  /\ drops < MaxDrops /\ drops' = drops + 1
  /\ Goto(c, "calling", "idle")
  /\ UNCHANGED <<atomics, current, backend, turns, history>>

\* Mutant: a success resets the counter and leaves the state alone.
CloseNot(c) ==
  /\ Goto(c, "succeeded", "closed")
  /\ UNCHANGED <<atomics, current, world, history>>

\* record_success
Close(c) ==
  /\ Goto(c, "succeeded", "closed")
  /\ state' = "closed"
  /\ UNCHANGED <<failures, lastFailure, halfOpen, current, world, history>>

ResetCount(c) ==
  /\ Goto(c, "closed", "idle")
  /\ failures' = 0
  /\ UNCHANGED <<state, lastFailure, halfOpen, current, world, history>>

\* record_failure_with_reason
StoreFailure(c) ==
  /\ Goto(c, "failed", "stored")
  /\ lastFailure' = 0
  /\ UNCHANGED <<state, failures, halfOpen, current, world, history>>

LoadStateAgain(c) ==
  /\ Goto(c, "stored", IF state = "half_open" THEN "reopening" ELSE "counting")
  /\ UNCHANGED <<atomics, current, world, history>>

Reopen(c) ==
  /\ Goto(c, "reopening", "idle")
  /\ state' = "open"
  /\ UNCHANGED <<failures, lastFailure, halfOpen, current, world, history>>

Trips(n) == n + 1 >= Threshold

CountFailure(c) ==
  /\ Goto(c, "counting", IF Trips(failures) THEN "tripping" ELSE "idle")
  /\ failures' = Older(failures, Threshold)
  /\ UNCHANGED <<state, lastFailure, halfOpen, current, world, history>>

TryOpen(c) ==
  /\ Goto(c, "tripping", "idle")
  /\ state' = IF state = "closed" THEN "open" ELSE state
  /\ UNCHANGED <<failures, lastFailure, halfOpen, current, world, history>>

Turn ==
  /\ turns < MaxTurns /\ turns' = turns + 1
  /\ backend' = IF backend = "up" THEN "down" ELSE "up"
  /\ UNCHANGED <<atomics, pc, current, drops, history>>

\* Every step of a caller but the loss of its call.
Proceed(c) ==
  \/ LoadState(c) \/ LoadFailure(c) \/ TryHalfOpen(c) \/ StartLease(c)
  \/ LoadLease(c) \/ TryReplace(c) \/ Answered(c)
  \/ Close(c) \/ ResetCount(c)
  \/ StoreFailure(c) \/ LoadStateAgain(c) \/ Reopen(c) \/ CountFailure(c) \/ TryOpen(c)

Next == Tick \/ Turn \/ \E c \in Callers : Proceed(c) \/ Dropped(c)

Spec == Init /\ [][Next]_vars

(***************************************************************************)
(* Fairness: the clock runs and requests keep coming, each running to its  *)
(* end (every call has a timeout).  Dropped and Turn may never happen.     *)
(***************************************************************************)
FairSpec == Spec /\ WF_vars(Tick) /\ \A c \in Callers : WF_vars(Proceed(c))

-----------------------------------------------------------------------------

\* Where a caller may be.
Places == {"idle", "calling", "saw_open", "due", "won", "saw_half_open", "replacing",
           "succeeded", "closed", "failed", "stored", "reopening", "counting", "tripping"}

\* Every variable stays in its type.
TypeOK ==
  /\ state \in {"closed", "open", "half_open"}
  /\ failures \in 0..Threshold
  /\ lastFailure \in 0..Recovery /\ halfOpen \in 0..Lease /\ entered \in 0..Lease
  /\ pc \in [Callers -> Places]
  /\ current \subseteq Callers
  /\ backend \in {"up", "down"} /\ turns \in 0..MaxTurns /\ drops \in 0..MaxDrops
  /\ extra \in Nat

\* Callers are not let through to a recovering backend in a crowd: within one
\* lease of the change to Half-Open at most one request is admitted beside the
\* winner, however many race (the one that reads the timestamp before the
\* winner has stored it; "deny concurrent callers so we do not stampede").
NoStampede == extra <= 1

\* The breaker never refuses for ever: while requests come some are let
\* through, whatever probe recorded no outcome, failure came late or race was
\* lost ("a dropped or unanswered probe cannot latch the breaker").
NeverLatched == []<>(\E c \in Callers : pc[c] = "calling")

\* In the end the breaker follows the backend: closed for good when it is up,
\* not closed when it is down, whatever outcomes of earlier calls were still
\* on their way when it turned.
FollowsBackend == <>[]((state = "closed") <=> (backend = "up"))

=============================================================================
