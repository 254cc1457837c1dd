----------------------------- MODULE PoolProofs -----------------------------
(***************************************************************************)
(* Proofs about the worker pool and the distributed scans (FragmentRun,    *)
(* WorkerRegistry), for every set of workers and fragments, every cap,     *)
(* threshold and number of retries, and any number of faults: the pool is  *)
(* well typed, a worker forgets only the failures it has reported, what a  *)
(* query receives of a fragment is a clean prefix, the scheduler's load    *)
(* counts the live fragments, and the credential tracker leaks none.       *)
(***************************************************************************)
EXTENDS FragmentRun, FiniteSetTheorems, TLAPS

-----------------------------------------------------------------------------
(* The registry's records. *)

\* The bounds, as the types use them.
LEMMA Bounds ==
  /\ Threshold \in Nat /\ 0 \in 0..Threshold /\ Threshold \in 0..Threshold
  /\ MaxFaults \in Nat /\ 0 \in 0..MaxFaults
  /\ MaxRetries \in Nat /\ 0 \in 0..MaxRetries
  /\ Batches \in Nat /\ 0 \in 0..Batches
BY RegistryAssumption, FragmentAssumption

\* A new process is well typed.
LEMMA NewProcessType ==
  ASSUME NEW u \in Urls, NEW n \in Nat, NEW b \in AllBuilds
  PROVE  NewProcess(u, n, b) \in Processes
BY RegistryAssumption DEF NewProcess, Processes, AllBuilds

\* Every build a process may be started from is a known one.
LEMMA BuildsType ==
  ASSUME NEW u \in Urls, NEW i \in 1..Len(Builds[u]), NEW b \in Builds[u][i]
  PROVE  b \in AllBuilds
<1>1. Builds[u] \in Seq(SUBSET AllBuilds)
  BY RegistryAssumption
<1>2. Builds[u][i] \in SUBSET AllBuilds
  BY <1>1
<1> QED
  BY <1>2

\* What the registry does to an entry keeps it well typed.
LEMMA EntryTypes ==
  /\ FreshEntry \in Entries
  /\ \A e \in Entries : /\ MarkHealthy(e) \in Entries
                        /\ MarkUnhealthy(e) \in Entries
                        /\ MarkFailed(e) \in Entries
                        /\ \A m \in Hellos : Greeted(e, m) \in Entries
<1>1. FreshEntry \in Entries
  BY RegistryAssumption DEF FreshEntry, Entries
<1> SUFFICES ASSUME NEW e \in Entries
             PROVE  /\ MarkHealthy(e) \in Entries
                    /\ MarkUnhealthy(e) \in Entries
                    /\ MarkFailed(e) \in Entries
                    /\ \A m \in Hellos : Greeted(e, m) \in Entries
  BY <1>1
<1>2. MarkHealthy(e) \in Entries /\ MarkUnhealthy(e) \in Entries
  BY Bounds DEF MarkHealthy, MarkUnhealthy, Entries
<1>3. MarkFailed(e) \in Entries
  <2>1. e.failures + 1 < Threshold => e.failures + 1 \in 0..Threshold
    BY Bounds DEF Entries
  <2>2. CASE e.failures + 1 >= Threshold
    BY <2>2, Bounds DEF MarkFailed, Entries
  <2>3. CASE ~(e.failures + 1 >= Threshold)
    BY <2>1, <2>3, Bounds DEF MarkFailed, Entries
  <2> QED
    BY <2>2, <2>3
<1>4. ASSUME NEW m \in Hellos
      PROVE  Greeted(e, m) \in Entries
  <2>1. [e EXCEPT !.inst = m.inst] \in Entries
    BY <1>4 DEF Entries, Hellos
  <2> QED
    BY <2>1, Bounds DEF Greeted, MarkHealthy, Entries
<1> QED
  BY <1>2, <1>3, <1>4

\* The result of a health check keeps an entry well typed.
LEMMA AppliedType ==
  ASSUME NEW e \in Entries, NEW r \in {"ready", "other_key", "error"}
  PROVE  Applied(e, r) \in Entries
<1>1. CASE r = "ready"
  BY <1>1, EntryTypes DEF Applied
<1>2. CASE r = "other_key"
  BY <1>2 DEF Applied
<1>3. CASE r = "error"
  BY <1>3, EntryTypes DEF Applied
<1> QED
  BY <1>1, <1>2, <1>3

\* Evicting a worker changes no other part of the registry.
LEMMA EvictedType ==
  ASSUME RegistryTypeOK, NEW u
  PROVE  DOMAIN Evicted(u) = Registered /\ Evicted(u) \in [Registered -> Entries]
BY EntryTypes DEF RegistryTypeOK, Evicted

\* The cap in force is a number, and no smaller than the seeds.
LEMMA CapType ==
  ASSUME NEW n \in Nat
  PROVE  /\ Max({n, Cardinality(Seeds)}) \in Nat
         /\ Max({n, Cardinality(Seeds)}) >= Cardinality(Seeds)
<1> DEFINE c == Cardinality(Seeds)
<1>1. c \in Nat
  BY RegistryAssumption, FS_CardinalityType
<1> HIDE DEF c
<1>2. \E x \in {n, c} : \A y \in {n, c} : x >= y
  BY <1>1
<1>3. Max({n, c}) \in {n, c} /\ \A y \in {n, c} : Max({n, c}) >= y
  BY <1>2 DEF Max
<1> QED
  BY <1>1, <1>3 DEF c

-----------------------------------------------------------------------------
(* What a process has counted. *)

\* No process holds, reported or forgot more failures than went wrong, and no
\* hello says so.
Counted ==
  /\ \A u \in Urls : /\ proc[u].pending + proc[u].forgotten <= faults
                     /\ proc[u].reported <= faults
                     /\ proc[u].told <= faults
  /\ \A m \in hellos : m.failures <= faults /\ m.total <= faults

\* The hello a process waits for: at most one of its URL, of this very
\* process, and its total is what the process will have forgotten.
Awaited ==
  /\ \A m \in hellos : m.heard =>
       /\ proc[m.url].up
       /\ proc[m.url].inst = m.inst
       /\ proc[m.url].beat = "waiting"
       /\ m.total = proc[m.url].forgotten + proc[m.url].reported
  /\ \A m, n \in hellos : m.heard /\ n.heard /\ m.url = n.url => m = n

\* An accepted process may acknowledge all it reported; and what is forgotten
\* was told.
Acknowledgeable ==
  \A u \in Urls :
    /\ proc[u].forgotten <= proc[u].told
    /\ proc[u].beat = "accepted" => proc[u].forgotten + proc[u].reported <= proc[u].told

RegistryInv == RegistryTypeOK /\ Counted /\ Awaited /\ Acknowledgeable

\* The pool's first state satisfies the registry's invariant.
LEMMA RegistryInitInv == RegistryInit => RegistryInv
<1> SUFFICES ASSUME RegistryInit PROVE RegistryInv
  OBVIOUS
<1>1. PICK b \in [Urls -> UNION {Builds[u][1] : u \in Urls}] :
        /\ \A u \in Urls : b[u] \in Builds[u][1]
        /\ proc = [u \in Urls |-> NewProcess(u, 1, b[u])]
  BY DEF RegistryInit
<1>2. ASSUME NEW u \in Urls
      PROVE  b[u] \in AllBuilds
  <2>1. 1 \in 1..Len(Builds[u])
    BY RegistryAssumption
  <2> QED
    BY <1>1, <2>1, BuildsType
<1>3. proc \in [Urls -> Processes]
  BY <1>1, <1>2, NewProcessType
<1>4. PICK n \in Caps : cap = Max({n, Cardinality(Seeds)})
  BY DEF RegistryInit
<1>5. cap \in Nat /\ Cardinality(Seeds) <= cap
  <2>1. n \in Nat
    BY RegistryAssumption
  <2>2. cap \in Nat /\ cap >= Cardinality(Seeds)
    BY <1>4, <2>1, CapType
  <2>3. Cardinality(Seeds) \in Nat
    BY FS_CardinalityType, RegistryAssumption
  <2> QED
    BY <2>2, <2>3
<1>6. Registered = Seeds /\ reg \in [Seeds -> Entries]
  BY EntryTypes DEF RegistryInit, Registered
<1>7. RegistryTypeOK
  BY <1>3, <1>5, <1>6, RegistryAssumption DEF RegistryTypeOK, RegistryInit
<1>8. \A u \in Urls : /\ proc[u].pending = 0 /\ proc[u].forgotten = 0
                      /\ proc[u].reported = 0 /\ proc[u].told = 0
                      /\ proc[u].beat = "idle"
  BY <1>1 DEF NewProcess
<1>9. hellos = {} /\ faults = 0
  BY DEF RegistryInit
<1>10. Counted
  BY <1>8, <1>9 DEF Counted
<1>11. Awaited /\ Acknowledgeable
  BY <1>8, <1>9 DEF Awaited, Acknowledgeable
<1> QED
  BY <1>7, <1>10, <1>11 DEF RegistryInv

-----------------------------------------------------------------------------
(* The processes' steps. *)

\* A process starts: it has counted nothing.
LEMMA StartInv ==
  ASSUME RegistryInv, NEW u \in Urls, Start(u)
  PROVE  RegistryInv'
<1> USE DEF RegistryInv
<1>1. PICK b \in Builds[u][proc[u].inst + 1] :
        proc' = [proc EXCEPT ![u] = NewProcess(u, @.inst + 1, b)]
  BY DEF Start
<1>2. proc[u] \in Processes /\ proc[u].inst \in Nat
  BY DEF RegistryTypeOK, Processes
<1>3. proc[u].inst + 1 \in 1..Len(Builds[u])
  BY <1>2, RegistryAssumption DEF Start
<1>4. b \in AllBuilds
  BY <1>3, BuildsType
<1>5. NewProcess(u, proc[u].inst + 1, b) \in Processes
  BY <1>2, <1>4, NewProcessType
<1>6. proc' \in [Urls -> Processes] /\ proc'[u] = NewProcess(u, proc[u].inst + 1, b)
      /\ \A v \in Urls : v # u => proc'[v] = proc[v]
  BY <1>1, <1>5 DEF RegistryTypeOK
<1>7. RegistryTypeOK'
  BY <1>6 DEF RegistryTypeOK, Registered, Start
<1>8. /\ proc'[u].pending = 0 /\ proc'[u].forgotten = 0 /\ proc'[u].reported = 0
      /\ proc'[u].told = 0 /\ proc'[u].beat = "idle"
  BY <1>6 DEF NewProcess
<1>9. Counted'
  BY <1>6, <1>8 DEF Counted, RegistryTypeOK, Start
<1>10. \A m \in hellos : m.heard => m.url # u
  BY DEF Start, Awaited
<1>11. Awaited'
  BY <1>6, <1>10 DEF Awaited, RegistryTypeOK, Hellos, Start
<1>12. Acknowledgeable'
  BY <1>6, <1>8 DEF Acknowledgeable, RegistryTypeOK
<1> QED
  BY <1>7, <1>9, <1>11, <1>12

\* A hello nobody waits for any more is the hello that was sent.
LEMMA UnheardParts ==
  ASSUME hellos \subseteq Hellos, NEW u \in Urls, NEW m \in Unheard(u)
  PROVE  /\ m \in Hellos
         /\ m.heard => m \in hellos /\ m.url # u
         /\ \E n \in hellos : m.failures = n.failures /\ m.total = n.total
<1>1. PICK n \in hellos : m = IF n.url = u THEN [n EXCEPT !.heard = FALSE] ELSE n
  BY DEF Unheard
<1>2. CASE n.url = u
  <2>1. /\ m \in Hellos /\ m.heard = FALSE
        /\ m.failures = n.failures /\ m.total = n.total
    BY <1>1, <1>2 DEF Hellos
  <2> QED
    BY <2>1
<1>3. CASE n.url # u
  BY <1>1, <1>3
<1> QED
  BY <1>2, <1>3

\* A process stops waiting for its hello: no failure is acknowledged.
LEMMA NobodyWaits ==
  ASSUME RegistryInv, NEW u \in Urls, RegistryTypeOK', faults' \in Nat, faults' >= faults,
         NEW p, proc' = [proc EXCEPT ![u] = p],
         p.inst = proc[u].inst, p.beat = "idle",
         p.pending = proc[u].pending, p.forgotten = proc[u].forgotten,
         p.told = proc[u].told, p.reported <= faults,
         hellos' \subseteq Unheard(u)
  PROVE  RegistryInv'
<1> USE DEF RegistryInv
<1>1. proc'[u] = p /\ \A v \in Urls : v # u => proc'[v] = proc[v]
  BY DEF RegistryTypeOK
<1>2. \A v \in Urls : /\ proc[v].pending \in Nat /\ proc[v].forgotten \in Nat
                      /\ proc[v].reported \in Nat /\ proc[v].told \in Nat
                      /\ proc'[v].reported \in Nat
  BY DEF RegistryTypeOK, Processes
<1>3. faults \in Nat
  BY DEF RegistryTypeOK
<1>4. \A m \in hellos' : /\ m \in Hellos
                         /\ m.heard => m \in hellos /\ m.url # u
                         /\ m.failures <= faults /\ m.total <= faults
  BY UnheardParts DEF RegistryTypeOK, Counted
<1>5. \A m \in Hellos : m.failures \in Nat /\ m.total \in Nat /\ m.url \in Urls
  BY DEF Hellos
<1>6. Counted'
  <2>1. \A m \in hellos' : m.failures <= faults' /\ m.total <= faults'
    BY <1>3, <1>4, <1>5
  <2>2. \A v \in Urls : /\ proc'[v].pending + proc'[v].forgotten <= faults'
                        /\ proc'[v].reported <= faults'
                        /\ proc'[v].told <= faults'
    BY <1>1, <1>2, <1>3 DEF Counted
  <2> QED
    BY <2>1, <2>2 DEF Counted
<1>7. Awaited'
  BY <1>1, <1>4, <1>5 DEF Awaited
<1>8. Acknowledgeable'
  BY <1>1 DEF Acknowledgeable
<1> QED
  BY <1>6, <1>7, <1>8

\* A process stops: no answer reaches it.
LEMMA StopInv ==
  ASSUME RegistryInv, NEW u \in Urls, Stop(u)
  PROVE  RegistryInv'
<1> DEFINE p == [proc[u] EXCEPT !.up = FALSE, !.beat = "idle"]
<1>1. proc[u] \in Processes /\ faults \in 0..MaxFaults /\ hellos \subseteq Hellos
  BY DEF RegistryInv, RegistryTypeOK
<1>2. /\ p \in Processes /\ p.inst = proc[u].inst /\ p.beat = "idle"
      /\ p.pending = proc[u].pending /\ p.forgotten = proc[u].forgotten
      /\ p.told = proc[u].told /\ p.reported = proc[u].reported
  BY <1>1 DEF Processes
<1> HIDE DEF p
<1>3. proc' = [proc EXCEPT ![u] = p] /\ hellos' = Unheard(u) /\ faults' = faults + 1
      /\ UNCHANGED <<reg, cap, round>> /\ faults < MaxFaults
  BY DEF Stop, Fault, p
<1>4. hellos' \subseteq Hellos
  BY <1>1, <1>3, UnheardParts
<1>5. RegistryTypeOK'
  BY <1>1, <1>2, <1>3, <1>4, Bounds DEF RegistryInv, RegistryTypeOK, Registered
<1>6. p.reported <= faults
  BY <1>2 DEF RegistryInv, Counted
<1>7. faults' \in Nat /\ faults' >= faults
  BY <1>1, <1>3
<1> QED
  BY <1>2, <1>3, <1>5, <1>6, <1>7, NobodyWaits

\* The hello or its answer is lost: the process acknowledges nothing.
LEMMA GiveUpInv ==
  ASSUME RegistryInv, NEW u \in Urls, GiveUp(u)
  PROVE  RegistryInv'
<1> DEFINE p == [proc[u] EXCEPT !.beat = "idle", !.reported = 0]
<1>1. proc[u] \in Processes /\ faults \in 0..MaxFaults /\ hellos \subseteq Hellos
  BY DEF RegistryInv, RegistryTypeOK
<1>2. /\ p \in Processes /\ p.inst = proc[u].inst /\ p.beat = "idle"
      /\ p.pending = proc[u].pending /\ p.forgotten = proc[u].forgotten
      /\ p.told = proc[u].told /\ p.reported = 0
  BY <1>1, Bounds DEF Processes
<1> HIDE DEF p
<1>3. proc' = [proc EXCEPT ![u] = p] /\ faults' = faults + 1
      /\ hellos' \in {Unheard(u), {m \in hellos : m.url # u}}
      /\ UNCHANGED <<reg, cap, round>> /\ faults < MaxFaults
  BY DEF GiveUp, Fault, p
<1>4. hellos' \subseteq Unheard(u)
  BY <1>3 DEF Unheard
<1>5. hellos' \subseteq Hellos
  BY <1>1, <1>4, UnheardParts
<1>6. RegistryTypeOK'
  BY <1>1, <1>2, <1>3, <1>5, Bounds DEF RegistryInv, RegistryTypeOK, Registered
<1>7. faults' \in Nat /\ faults' >= faults /\ p.reported <= faults
  BY <1>1, <1>2, <1>3
<1> QED
  BY <1>2, <1>3, <1>4, <1>6, <1>7, NobodyWaits

\* A refusal acknowledges nothing; its hello is gone already.
LEMMA RefusedInv ==
  ASSUME RegistryInv, NEW u \in Urls, Refused(u)
  PROVE  RegistryInv'
<1> DEFINE p == [proc[u] EXCEPT !.beat = "idle", !.reported = 0]
<1>1. proc[u] \in Processes /\ faults \in 0..MaxFaults /\ hellos \subseteq Hellos
  BY DEF RegistryInv, RegistryTypeOK
<1>2. /\ p \in Processes /\ p.inst = proc[u].inst /\ p.beat = "idle"
      /\ p.pending = proc[u].pending /\ p.forgotten = proc[u].forgotten
      /\ p.told = proc[u].told /\ p.reported = 0
  BY <1>1, Bounds DEF Processes
<1> HIDE DEF p
<1>3. proc' = [proc EXCEPT ![u] = p] /\ UNCHANGED <<reg, cap, hellos, round, faults>>
  BY DEF Refused, p
<1>4. RegistryTypeOK'
  BY <1>2, <1>3 DEF RegistryInv, RegistryTypeOK, Registered
<1>5. proc'[u] = p /\ \A v \in Urls : v # u => proc'[v] = proc[v]
  BY <1>3 DEF RegistryInv, RegistryTypeOK
<1>6. \A m \in hellos : m.heard => m.url # u
  BY DEF Refused, RegistryInv, Awaited
<1>7. Awaited' /\ Acknowledgeable'
  BY <1>2, <1>3, <1>5, <1>6 DEF RegistryInv, RegistryTypeOK, Hellos, Awaited, Acknowledgeable
<1>8. Counted'
  BY <1>1, <1>2, <1>3, <1>5 DEF RegistryInv, Counted
<1> QED
  BY <1>4, <1>7, <1>8 DEF RegistryInv

\* A heartbeat: the hello carries all the process holds, and is the only one
\* it waits for.
LEMMA HeartbeatInv ==
  ASSUME RegistryInv, NEW u \in Urls, Heartbeat(u)
  PROVE  RegistryInv'
<1> DEFINE p == [proc[u] EXCEPT !.beat = "waiting", !.reported = proc[u].pending]
           m == [url |-> u, inst |-> proc[u].inst, build |-> proc[u].build,
                 failures |-> proc[u].pending,
                 total |-> proc[u].forgotten + proc[u].pending, heard |-> TRUE]
<1>1. proc[u] \in Processes /\ faults \in 0..MaxFaults /\ hellos \subseteq Hellos
  BY DEF RegistryInv, RegistryTypeOK
<1>2. /\ p \in Processes /\ p.inst = proc[u].inst /\ p.beat = "waiting"
      /\ p.pending = proc[u].pending /\ p.forgotten = proc[u].forgotten
      /\ p.told = proc[u].told /\ p.reported = proc[u].pending /\ p.up
  BY <1>1 DEF Processes, Heartbeat
<1>3. proc[u].forgotten + proc[u].pending \in 0..MaxFaults
      /\ proc[u].forgotten + proc[u].pending <= faults /\ proc[u].pending <= faults
  BY <1>1, Bounds DEF RegistryInv, Counted, Processes
<1>4. /\ m \in Hellos /\ m.url = u /\ m.inst = proc[u].inst /\ m.failures = proc[u].pending
      /\ m.total = proc[u].forgotten + proc[u].pending
  BY <1>1, <1>3 DEF Hellos, Processes
<1>5. proc' = [proc EXCEPT ![u] = p] /\ hellos' = hellos \cup {m}
      /\ UNCHANGED <<reg, cap, round, faults>> /\ proc[u].up /\ proc[u].beat = "idle"
  BY DEF Heartbeat
<1> HIDE DEF p, m
<1>6. RegistryTypeOK'
  BY <1>2, <1>4, <1>5 DEF RegistryInv, RegistryTypeOK, Registered
<1>7. proc'[u] = p /\ \A v \in Urls : v # u => proc'[v] = proc[v]
  BY <1>5 DEF RegistryInv, RegistryTypeOK
<1>8. \A n \in hellos : n.heard => n.url # u
  BY <1>5 DEF RegistryInv, Awaited
<1>9. Counted'
  BY <1>2, <1>3, <1>4, <1>5, <1>7 DEF RegistryInv, Counted
<1>10. Awaited'
  <2>1. ASSUME NEW n \in hellos', n.heard
        PROVE  /\ proc'[n.url].up
               /\ proc'[n.url].inst = n.inst
               /\ proc'[n.url].beat = "waiting"
               /\ n.total = proc'[n.url].forgotten + proc'[n.url].reported
    <3>1. CASE n = m
      BY <1>2, <1>4, <1>5, <1>7, <3>1
    <3>2. CASE n \in hellos
      BY <1>1, <1>7, <1>8, <2>1, <3>2 DEF RegistryInv, Awaited, Hellos
    <3> QED
      BY <1>5, <3>1, <3>2
  <2>2. ASSUME NEW n \in hellos', NEW k \in hellos', n.heard, k.heard, n.url = k.url
        PROVE  n = k
    BY <1>4, <1>5, <1>8, <2>2 DEF RegistryInv, Awaited
  <2> QED
    BY <2>1, <2>2 DEF Awaited
<1>11. Acknowledgeable'
  BY <1>2, <1>7 DEF RegistryInv, Acknowledgeable
<1> QED
  BY <1>6, <1>9, <1>10, <1>11 DEF RegistryInv

\* acknowledge_failures never subtracts more than the process holds, nor more
\* than it reported.
LEMMA AcknowledgedParts ==
  ASSUME NEW p \in Processes
  PROVE  /\ Acknowledged(p) \in Nat
         /\ Acknowledged(p) <= p.pending
         /\ Acknowledged(p) <= p.reported
         /\ p.pending - Acknowledged(p) \in Nat
BY DEF Acknowledged, Processes

\* An accepted process acknowledges what it reported, all of it told.
LEMMA AcceptedInv ==
  ASSUME RegistryInv, NEW u \in Urls, Accepted(u)
  PROVE  RegistryInv'
<1> DEFINE n == Acknowledged(proc[u])
           p == [proc[u] EXCEPT !.beat = "idle", !.reported = 0, !.pinned = TRUE,
                                !.pending = @ - n, !.forgotten = @ + n]
<1>1. proc[u] \in Processes /\ faults \in 0..MaxFaults /\ hellos \subseteq Hellos
  BY DEF RegistryInv, RegistryTypeOK
<1>2. /\ proc[u].pending \in Nat /\ proc[u].forgotten \in Nat
      /\ proc[u].reported \in Nat /\ proc[u].told \in Nat
  BY <1>1 DEF Processes
<1>3. n \in Nat /\ n <= proc[u].pending /\ n <= proc[u].reported
      /\ proc[u].pending - n \in Nat
  BY <1>1, AcknowledgedParts
<1>4. proc' = [proc EXCEPT ![u] = p] /\ UNCHANGED <<reg, cap, hellos, round, faults>>
      /\ proc[u].beat = "accepted"
  BY DEF Accepted
<1> HIDE DEF n
<1>5. proc[u].pending + proc[u].forgotten <= faults
      /\ proc[u].forgotten + proc[u].reported <= proc[u].told /\ proc[u].told <= faults
  BY <1>4 DEF RegistryInv, Counted, Acknowledgeable
<1>6. proc[u].pending - n \in 0..MaxFaults /\ proc[u].forgotten + n \in 0..MaxFaults
      /\ proc[u].forgotten + n <= proc[u].told
      /\ (proc[u].pending - n) + (proc[u].forgotten + n) <= faults
  BY <1>1, <1>2, <1>3, <1>5, Bounds
<1>7. /\ p \in Processes /\ p.inst = proc[u].inst /\ p.beat = "idle"
      /\ p.pending = proc[u].pending - n /\ p.forgotten = proc[u].forgotten + n
      /\ p.told = proc[u].told /\ p.reported = 0
  BY <1>1, <1>6, Bounds DEF Processes
<1> HIDE DEF p
<1>8. RegistryTypeOK'
  BY <1>4, <1>7 DEF RegistryInv, RegistryTypeOK, Registered
<1>9. proc'[u] = p /\ \A v \in Urls : v # u => proc'[v] = proc[v]
  BY <1>4 DEF RegistryInv, RegistryTypeOK
<1>10. \A k \in hellos : k.heard => k.url # u
  BY <1>4 DEF RegistryInv, Awaited
<1>11. Counted'
  BY <1>1, <1>4, <1>6, <1>7, <1>9 DEF RegistryInv, Counted
<1>12. Awaited'
  BY <1>1, <1>4, <1>9, <1>10 DEF RegistryInv, Awaited, Hellos
<1>13. Acknowledgeable'
  BY <1>6, <1>7, <1>9 DEF RegistryInv, Acknowledgeable
<1> QED
  BY <1>8, <1>11, <1>12, <1>13 DEF RegistryInv

-----------------------------------------------------------------------------
(* The registry's steps. *)

\* A step of the registry alone: nothing a process counted depends on it.
LEMMA RegistryAlone ==
  ASSUME RegistryInv, UNCHANGED <<proc, hellos>>, RegistryTypeOK', faults' >= faults
  PROVE  RegistryInv'
<1>1. faults \in Nat /\ faults' \in Nat
  BY DEF RegistryInv, RegistryTypeOK
<1>2. \A u \in Urls : /\ proc[u].pending \in Nat /\ proc[u].forgotten \in Nat
                      /\ proc[u].reported \in Nat /\ proc[u].told \in Nat
  BY DEF RegistryInv, RegistryTypeOK, Processes
<1>3. \A m \in hellos : m.failures \in Nat /\ m.total \in Nat
  BY DEF RegistryInv, RegistryTypeOK, Hellos
<1>4. Counted'
  BY <1>1, <1>2, <1>3 DEF RegistryInv, Counted
<1>5. Awaited' /\ Acknowledgeable'
  BY DEF RegistryInv, Awaited, Acknowledgeable
<1> QED
  BY <1>4, <1>5 DEF RegistryInv

\* The quiet period of an evicted worker ends.
LEMMA QuietInv ==
  ASSUME RegistryInv, NEW u \in Urls, QuietElapses(u)
  PROVE  RegistryInv'
<1>1. reg[u] \in Entries /\ [reg[u] EXCEPT !.recent = FALSE] \in Entries
  BY DEF RegistryInv, RegistryTypeOK, QuietElapses, Entries
<1>2. reg' \in [Registered -> Entries] /\ DOMAIN reg' = Registered
  BY <1>1 DEF RegistryInv, RegistryTypeOK, QuietElapses
<1>3. RegistryTypeOK'
  BY <1>2 DEF RegistryInv, RegistryTypeOK, QuietElapses, Registered
<1> QED
  BY <1>3, RegistryAlone DEF QuietElapses, RegistryInv, RegistryTypeOK

\* The health check's steps.
LEMMA CheckInv ==
  ASSUME RegistryInv,
         \/ StartRound
         \/ \E u \in Urls : CheckAnswered(u) \/ CheckStalls(u) \/ ApplyCheck(u)
  PROVE  RegistryInv'
<1>1. CASE StartRound
  <2>1. RegistryTypeOK'
    BY <1>1 DEF StartRound, RegistryInv, RegistryTypeOK, Registered
  <2> QED
    BY <1>1, <2>1, RegistryAlone DEF StartRound, RegistryInv, RegistryTypeOK
<1>2. ASSUME NEW u \in Urls, CheckAnswered(u)
      PROVE  RegistryInv'
  <2>1. RegistryTypeOK'
    BY <1>2 DEF CheckAnswered, CheckResult, RegistryInv, RegistryTypeOK, Registered
  <2> QED
    BY <1>2, <2>1, RegistryAlone DEF CheckAnswered, RegistryInv, RegistryTypeOK
<1>3. ASSUME NEW u \in Urls, CheckStalls(u)
      PROVE  RegistryInv'
  <2>1. faults' \in 0..MaxFaults /\ faults' >= faults
    BY <1>3, Bounds DEF CheckStalls, Fault, RegistryInv, RegistryTypeOK
  <2>2. RegistryTypeOK'
    BY <1>3, <2>1 DEF CheckStalls, RegistryInv, RegistryTypeOK, Registered
  <2> QED
    BY <1>3, <2>1, <2>2, RegistryAlone DEF CheckStalls
<1>4. ASSUME NEW u \in Urls, ApplyCheck(u)
      PROVE  RegistryInv'
  <2>1. round[u] \in {"ready", "other_key", "error"} /\ u \in Registered
    BY <1>4 DEF ApplyCheck, RegistryInv, RegistryTypeOK
  <2>2. Applied(reg[u], round[u]) \in Entries
    BY <2>1, AppliedType DEF RegistryInv, RegistryTypeOK
  <2>3. reg' \in [Registered -> Entries] /\ DOMAIN reg' = Registered
    BY <1>4, <2>2 DEF ApplyCheck, RegistryInv, RegistryTypeOK
  <2>4. RegistryTypeOK'
    BY <1>4, <2>3 DEF ApplyCheck, RegistryInv, RegistryTypeOK, Registered
  <2> QED
    BY <1>4, <2>4, RegistryAlone DEF ApplyCheck, RegistryInv, RegistryTypeOK
<1> QED
  BY <1>1, <1>2, <1>3, <1>4

\* A hello is answered: the process may then acknowledge what it reported,
\* the registry has been told.
LEMMA AnswerInv ==
  ASSUME RegistryInv, NEW m \in hellos, NEW a \in {"accepted", "refused"},
         Answer(m, a), Received(m),
         Seeds \subseteq Registered', Registered' \subseteq Urls,
         IsFiniteSet(Registered'), Cardinality(Registered') <= cap,
         Registered \subseteq Registered', reg' \in [Registered' -> Entries]
  PROVE  RegistryInv'
<1> DEFINE u == m.url
           toldNow == IF m.inst = proc[u].inst /\ m.total > proc[u].told
                        THEN m.total ELSE proc[u].told
           b == IF m.heard THEN a ELSE proc[u].beat
           p == [proc[u] EXCEPT !.told = toldNow, !.beat = b]
<1>1. /\ m \in Hellos /\ u \in Urls /\ proc[u] \in Processes
      /\ faults \in 0..MaxFaults /\ hellos \subseteq Hellos
  BY DEF RegistryInv, RegistryTypeOK, Hellos
<1>2. proc' = [proc EXCEPT ![u] = p]
  BY DEF Answer
<1>3. /\ proc[u].told \in 0..MaxFaults /\ m.total \in 0..MaxFaults
      /\ proc[u].told <= faults /\ m.total <= faults
      /\ proc[u].forgotten \in Nat /\ proc[u].reported \in Nat
  BY <1>1 DEF RegistryInv, Counted, Processes, Hellos
<1>4. toldNow \in 0..MaxFaults /\ toldNow <= faults /\ proc[u].told <= toldNow
      /\ (m.inst = proc[u].inst => m.total <= toldNow)
  BY <1>3, Bounds
<1>5. b \in {"idle", "waiting", "accepted", "refused"}
  BY <1>1 DEF Processes
<1> HIDE DEF toldNow, b
<1>6. /\ p \in Processes /\ p.inst = proc[u].inst /\ p.beat = b
      /\ p.pending = proc[u].pending /\ p.forgotten = proc[u].forgotten
      /\ p.told = toldNow /\ p.reported = proc[u].reported
      /\ (proc[u].up => p.up)
  BY <1>1, <1>4, <1>5 DEF Processes
<1> HIDE DEF p
<1>7. proc' \in [Urls -> Processes] /\ proc'[u] = p
      /\ \A v \in Urls : v # u => proc'[v] = proc[v]
  BY <1>1, <1>2, <1>6 DEF RegistryInv, RegistryTypeOK
<1>8. hellos' = hellos \ {m} /\ UNCHANGED <<cap, round, faults>>
  BY DEF Received
<1>9. RegistryTypeOK'
  BY <1>7, <1>8 DEF RegistryInv, RegistryTypeOK, Registered
<1>10. Counted'
  BY <1>1, <1>3, <1>4, <1>6, <1>7, <1>8 DEF RegistryInv, Counted
<1>11. Awaited'
  <2>1. ASSUME NEW n \in hellos', n.heard
        PROVE  /\ proc'[n.url].up
               /\ proc'[n.url].inst = n.inst
               /\ proc'[n.url].beat = "waiting"
               /\ n.total = proc'[n.url].forgotten + proc'[n.url].reported
    <3>1. /\ n \in hellos /\ n # m /\ n.url \in Urls
          /\ proc[n.url].up /\ proc[n.url].inst = n.inst /\ proc[n.url].beat = "waiting"
          /\ n.total = proc[n.url].forgotten + proc[n.url].reported
      BY <1>1, <1>8, <2>1 DEF RegistryInv, Awaited, Hellos
    <3>2. CASE n.url = u
      <4>1. ~m.heard
        BY <2>1, <3>1, <3>2 DEF RegistryInv, Awaited
      <4> QED
        BY <1>6, <1>7, <3>1, <3>2, <4>1 DEF b
    <3>3. CASE n.url # u
      BY <1>7, <3>1, <3>3
    <3> QED
      BY <3>2, <3>3
  <2>2. \A n, k \in hellos' : n.heard /\ k.heard /\ n.url = k.url => n = k
    BY <1>8 DEF RegistryInv, Awaited
  <2> QED
    BY <2>1, <2>2 DEF Awaited
<1>12. Acknowledgeable'
  <2>1. proc[u].forgotten <= toldNow
    BY <1>1, <1>3, <1>4 DEF RegistryInv, Acknowledgeable
  <2>2. ASSUME b = "accepted"
        PROVE  proc[u].forgotten + proc[u].reported <= toldNow
    <3>1. CASE m.heard
      <4>1. m.inst = proc[u].inst /\ m.total = proc[u].forgotten + proc[u].reported
        BY <3>1 DEF RegistryInv, Awaited
      <4> QED
        BY <1>4, <4>1
    <3>2. CASE ~m.heard
      <4>1. proc[u].forgotten + proc[u].reported <= proc[u].told
        BY <1>1, <2>2, <3>2 DEF b, RegistryInv, Acknowledgeable
      <4> QED
        BY <1>3, <1>4, <4>1
    <3> QED
      BY <3>1, <3>2
  <2> QED
    BY <1>6, <1>7, <2>1, <2>2 DEF RegistryInv, Acknowledgeable
<1> QED
  BY <1>9, <1>10, <1>11, <1>12 DEF RegistryInv

\* A hello is refused.
LEMMA RefuseInv ==
  ASSUME RegistryInv, NEW m \in hellos, Refuse(m)
  PROVE  RegistryInv'
<1>1. CASE RefuseProtocol(m) \/ RefuseFull(m)
  <2>1. Answer(m, "refused") /\ Received(m) /\ UNCHANGED reg
    BY <1>1 DEF RefuseProtocol, RefuseFull
  <2>2. Registered' = Registered /\ reg' \in [Registered' -> Entries]
    BY <2>1 DEF RegistryInv, RegistryTypeOK, Registered
  <2> QED
    BY <2>1, <2>2, AnswerInv DEF RegistryInv, RegistryTypeOK
<1>2. CASE RefuseTask(m)
  <2>1. Answer(m, "refused") /\ Received(m) /\ reg' = Evicted(m.url)
    BY <1>2 DEF RefuseTask
  <2>2. Registered' = Registered /\ reg' \in [Registered' -> Entries]
    BY <2>1, EvictedType DEF RegistryInv, Registered
  <2> QED
    BY <2>1, <2>2, AnswerInv DEF RegistryInv, RegistryTypeOK
<1> QED
  BY <1>1, <1>2 DEF Refuse

\* A hello is accepted: an unknown worker is admitted up to the cap.
LEMMA GreetInv ==
  ASSUME RegistryInv, NEW m \in hellos, Greet(m)
  PROVE  RegistryInv'
<1>1. m \in Hellos /\ m.url \in Urls
  BY DEF RegistryInv, RegistryTypeOK, Hellos
<1>2. Answer(m, "accepted") /\ Received(m)
      /\ reg' = Insert(m.url, Greeted(EntryFor(m.url), m))
      /\ (m.url \in Registered \/ Cardinality(Registered) < cap)
  BY DEF Greet, Admits
<1>3. EntryFor(m.url) \in Entries
  BY EntryTypes DEF EntryFor, RegistryInv, RegistryTypeOK
<1>4. Greeted(EntryFor(m.url), m) \in Entries
  BY <1>1, <1>3, EntryTypes
<1>5. Registered' = Registered \cup {m.url} /\ reg' \in [Registered' -> Entries]
  BY <1>2, <1>4 DEF Insert, Registered, RegistryInv, RegistryTypeOK
<1>6. /\ IsFiniteSet(Registered) /\ Cardinality(Registered) \in Nat
      /\ cap \in Nat /\ Cardinality(Registered) <= cap
  BY FS_CardinalityType DEF RegistryInv, RegistryTypeOK
<1>7. IsFiniteSet(Registered') /\ Cardinality(Registered') <= cap
  <2>1. /\ IsFiniteSet(Registered \cup {m.url})
        /\ Cardinality(Registered \cup {m.url}) =
             IF m.url \in Registered THEN Cardinality(Registered) ELSE Cardinality(Registered) + 1
    BY <1>6, FS_AddElement
  <2> QED
    BY <1>2, <1>5, <1>6, <2>1
<1>8. Seeds \subseteq Registered' /\ Registered' \subseteq Urls /\ Registered \subseteq Registered'
  BY <1>1, <1>5 DEF RegistryInv, RegistryTypeOK
<1> QED
  BY <1>2, <1>5, <1>7, <1>8, AnswerInv

\* Every step of the registry and of the processes.
LEMMA RegistryStepInv ==
  ASSUME RegistryInv, RegistryStep
  PROVE  RegistryInv'
BY StartInv, StopInv, HeartbeatInv, AcceptedInv, RefusedInv, GiveUpInv, QuietInv,
   CheckInv, RefuseInv DEF RegistryStep

-----------------------------------------------------------------------------
(* One fragment. *)

\* The numbers from 1 to the length of the sequence, in order.
Counting(s) == s = [i \in 1..Len(s) |-> i]

\* A fragment's state is sound: well typed, at a worker while it is live, with
\* nothing handed to the query before it streams, and exactly what this
\* attempt sent while it does.
Sound(g) ==
  /\ g \in FragmentStates
  /\ g.st \in Live => g.home \in Urls /\ g.at \in Urls
  /\ Counting(g.out)
  /\ g.st \in {"idle", "planned", "dispatch"} => g.sent = 0
  /\ g.st \in {"idle", "planned", "dispatch", "retry"} => g.out = <<>>
  /\ g.st = "retry" => g.tries < MaxRetries
  /\ g.st = "stream" => Len(g.out) = g.sent
  /\ g.st = "finished" => Len(g.out) = Batches

\* The next batch keeps the prefix clean.
LEMMA AppendCounting ==
  ASSUME NEW s \in Seq(1..Batches), Counting(s), Len(s) < Batches
  PROVE  /\ Append(s, Len(s) + 1) \in Seq(1..Batches)
         /\ Counting(Append(s, Len(s) + 1))
         /\ Len(Append(s, Len(s) + 1)) = Len(s) + 1
<1>1. Len(s) \in Nat /\ Len(s) + 1 \in 1..Batches
  BY Bounds
<1>2. Append(s, Len(s) + 1) \in Seq(1..Batches)
      /\ Len(Append(s, Len(s) + 1)) = Len(s) + 1
  BY <1>1
<1>3. Counting(Append(s, Len(s) + 1))
  BY <1>1, <1>2 DEF Counting
<1> QED
  BY <1>2, <1>3

\* A fragment nobody planned is sound.
LEMMA IdleSound == Sound(Idle)
<1>1. Idle \in FragmentStates
  BY Bounds DEF Idle, FragmentStates, Live, Ended
<1>2. Counting(<<>>)
  BY DEF Counting
<1> QED
  BY <1>1, <1>2 DEF Idle, Sound, Live, Ended

\* However a fragment ends, what the query received stays.
LEMMA OverSound ==
  ASSUME NEW g, Sound(g), NEW o \in Ended, o = "finished" => Len(g.out) = Batches
  PROVE  Sound(Over(g, o)) /\ Over(g, o).st = o
<1>1. g.out \in Seq(1..Batches)
  BY DEF Sound, FragmentStates
<1>2. /\ Over(g, o) \in FragmentStates /\ Over(g, o).st = o /\ Over(g, o).out = g.out
  BY <1>1, Bounds DEF Over, Idle, FragmentStates, Live, Ended
<1> QED
  BY <1>2 DEF Sound, Live, Ended

\* A fragment is planned onto a worker.
LEMMA PlannedSound ==
  ASSUME NEW g, Sound(g), g.st = "idle", NEW u \in Urls
  PROVE  LET h == [g EXCEPT !.st = "planned", !.home = u, !.at = u]
         IN Sound(h) /\ h.st = "planned" /\ h.home = u
<1> DEFINE h == [g EXCEPT !.st = "planned", !.home = u, !.at = u]
<1>1. h \in FragmentStates /\ h.st = "planned" /\ h.home = u /\ h.at = u
      /\ h.sent = g.sent /\ h.out = g.out
  BY DEF Sound, FragmentStates, Live, Ended
<1> QED
  BY <1>1 DEF Sound, Live

\* The driver starts.
LEMMA PolledSound ==
  ASSUME NEW g, Sound(g), g.st = "planned"
  PROVE  LET h == [g EXCEPT !.st = "dispatch"]
         IN Sound(h) /\ h.st = "dispatch" /\ h.home = g.home
<1> DEFINE h == [g EXCEPT !.st = "dispatch"]
<1>1. h \in FragmentStates /\ h.st = "dispatch" /\ h.home = g.home /\ h.at = g.at
      /\ h.sent = g.sent /\ h.out = g.out
  BY DEF Sound, FragmentStates, Live, Ended
<1> QED
  BY <1>1 DEF Sound, Live

\* The worker starts to stream.
LEMMA ConnectedSound ==
  ASSUME NEW g, Sound(g), g.st = "dispatch", NEW n \in Nat
  PROVE  LET h == [g EXCEPT !.st = "stream", !.inst = n]
         IN Sound(h) /\ h.st = "stream" /\ h.home = g.home
<1> DEFINE h == [g EXCEPT !.st = "stream", !.inst = n]
<1>1. h \in FragmentStates /\ h.st = "stream" /\ h.home = g.home /\ h.at = g.at
      /\ h.sent = g.sent /\ h.out = g.out
  BY DEF Sound, FragmentStates, Live, Ended
<1> QED
  BY <1>1 DEF Sound, Live

\* A batch reaches the query.
LEMMA BatchSound ==
  ASSUME NEW g, Sound(g), g.st = "stream", g.sent < Batches
  PROVE  LET h == [g EXCEPT !.sent = @ + 1, !.out = Append(@, g.sent + 1)]
         IN Sound(h) /\ h.st = "stream" /\ h.home = g.home
<1> DEFINE k == g.sent + 1
           s == Append(g.out, k)
           h == [g EXCEPT !.sent = @ + 1, !.out = Append(@, g.sent + 1)]
<1>1. g.out \in Seq(1..Batches) /\ Counting(g.out) /\ Len(g.out) = g.sent
      /\ g.sent \in 0..Batches
  BY DEF Sound, FragmentStates
<1>2. s \in Seq(1..Batches) /\ Counting(s) /\ Len(s) = k /\ k \in 0..Batches
  BY <1>1, AppendCounting, Bounds
<1>3. h = [[g EXCEPT !.sent = k] EXCEPT !.out = s]
  OBVIOUS
<1> HIDE DEF k, s
<1>4. h \in FragmentStates /\ h.st = "stream" /\ h.home = g.home /\ h.at = g.at
      /\ h.sent = k /\ h.out = s
  BY <1>2, <1>3 DEF Sound, FragmentStates, Live, Ended
<1> QED
  BY <1>2, <1>4 DEF Sound, Live

\* The next attempt starts.
LEMMA DispatchedSound ==
  ASSUME NEW g, Sound(g), g.st = "retry", NEW u \in Urls
  PROVE  LET h == [g EXCEPT !.st = "dispatch", !.at = u, !.tries = @ + 1, !.sent = 0]
         IN Sound(h) /\ h.st = "dispatch" /\ h.home = g.home
<1> DEFINE n == g.tries + 1
           h == [g EXCEPT !.st = "dispatch", !.at = u, !.tries = @ + 1, !.sent = 0]
<1>1. n \in 0..MaxRetries
  BY Bounds DEF Sound, FragmentStates
<1>2. h = [g EXCEPT !.st = "dispatch", !.at = u, !.tries = n, !.sent = 0]
  OBVIOUS
<1> HIDE DEF n
<1>3. h \in FragmentStates /\ h.st = "dispatch" /\ h.home = g.home /\ h.at = u
      /\ h.sent = 0 /\ h.out = g.out
  BY <1>1, <1>2, Bounds DEF Sound, FragmentStates, Live, Ended
<1> QED
  BY <1>3 DEF Sound, Live

-----------------------------------------------------------------------------
(* The invariant of the pool and its fragments. *)

LiveOn(u) == {f \in Fragments : frag[f].st \in Live /\ frag[f].home = u}

FragmentsSound ==
  /\ frag \in [Fragments -> FragmentStates]
  /\ \A f \in Fragments : Sound(frag[f])

TrackerTypeOK ==
  /\ load \in [Urls -> Nat]
  /\ tracked \in [Fragments -> Urls \cup {NoUrl}]
  /\ untrack \subseteq Fragments /\ purge \subseteq Urls

PoolInv ==
  RegistryInv /\ FragmentsSound /\ TrackerTypeOK /\ LoadIsLive /\ NoTrackerLeak

\* The fragments live on a worker are finitely many, at most all of them.
LEMMA LiveOnFinite ==
  ASSUME NEW u
  PROVE  /\ IsFiniteSet(LiveOn(u)) /\ Cardinality(LiveOn(u)) \in Nat
         /\ Cardinality(LiveOn(u)) <= Cardinality(Fragments)
<1>1. LiveOn(u) \in SUBSET Fragments
  BY DEF LiveOn
<1>2. IsFiniteSet(Fragments)
  BY FragmentAssumption
<1>3. IsFiniteSet(LiveOn(u)) /\ Cardinality(LiveOn(u)) <= Cardinality(Fragments)
  BY <1>1, <1>2, FS_Subset
<1> QED
  BY <1>3, FS_CardinalityType

\* The invariant gives the types and the properties.
LEMMA PoolInvImplies ==
  PoolInv => TypeOK /\ CleanPrefix /\ LoadIsLive /\ NoTrackerLeak /\ FailuresReported
<1> SUFFICES ASSUME PoolInv
             PROVE  TypeOK /\ CleanPrefix /\ LoadIsLive /\ NoTrackerLeak /\ FailuresReported
  OBVIOUS
<1>1. CleanPrefix
  BY DEF PoolInv, FragmentsSound, Sound, Counting, CleanPrefix
<1>2. FailuresReported
  BY DEF PoolInv, RegistryInv, Acknowledgeable, FailuresReported
<1>3. load \in [Urls -> 0..Cardinality(Fragments)]
  <2>1. Cardinality(Fragments) \in Nat
    BY FragmentAssumption, FS_CardinalityType
  <2>2. ASSUME NEW u \in Urls
        PROVE  load[u] \in 0..Cardinality(Fragments)
    <3>1. load[u] = Cardinality(LiveOn(u))
      BY DEF PoolInv, LoadIsLive, LiveOn
    <3> QED
      BY <2>1, <3>1, LiveOnFinite
  <2> QED
    BY <2>2 DEF PoolInv, TrackerTypeOK
<1>4. TypeOK
  BY <1>3 DEF PoolInv, RegistryInv, FragmentsSound, TrackerTypeOK, Sound, TypeOK
<1> QED
  BY <1>1, <1>2, <1>4 DEF PoolInv

\* The first state.
LEMMA PoolInitInv == Init => PoolInv
<1> SUFFICES ASSUME Init PROVE PoolInv
  OBVIOUS
<1>1. RegistryInv
  BY RegistryInitInv DEF Init
<1>2. frag = [f \in Fragments |-> Idle]
  BY DEF Init
<1>3. FragmentsSound
  BY <1>2, IdleSound DEF FragmentsSound, Sound
<1>4. TrackerTypeOK /\ NoTrackerLeak
  BY DEF Init, TrackerTypeOK, NoTrackerLeak
<1>5. LoadIsLive
  <2>1. ASSUME NEW u \in Urls
        PROVE  LiveOn(u) = {}
    BY <1>2 DEF LiveOn, Idle, Live
  <2> QED
    BY <2>1, FS_EmptySet DEF Init, LoadIsLive, LiveOn
<1> QED
  BY <1>1, <1>3, <1>4, <1>5 DEF PoolInv

\* A step that leaves the fragments and the trackers alone.
LEMMA FragmentsAlone ==
  ASSUME PoolInv, RegistryInv', UNCHANGED <<frag, load, tracked, untrack>>, purge' \subseteq Urls
  PROVE  PoolInv'
<1>1. FragmentsSound' /\ TrackerTypeOK'
  BY DEF PoolInv, FragmentsSound, TrackerTypeOK
<1>2. LoadIsLive' /\ NoTrackerLeak'
  BY DEF PoolInv, LoadIsLive, NoTrackerLeak
<1> QED
  BY <1>1, <1>2 DEF PoolInv

\* A live fragment moves on and stays live, on its reservation.
LEMMA MovesOn ==
  ASSUME PoolInv, RegistryInv', NEW f \in Fragments, NEW g, Sound(g),
         frag[f].st \in Live, g.st \in Live \ {"planned"}, g.home = frag[f].home,
         frag' = [frag EXCEPT ![f] = g], UNCHANGED <<load, untrack, purge>>,
         tracked' \in [Fragments -> Urls \cup {NoUrl}],
         \A h \in Fragments \ {f} : tracked'[h] = tracked[h]
  PROVE  PoolInv'
<1>1. frag'[f] = g /\ \A h \in Fragments \ {f} : frag'[h] = frag[h]
  BY DEF PoolInv, FragmentsSound
<1>2. FragmentsSound'
  BY <1>1 DEF PoolInv, FragmentsSound, Sound
<1>3. TrackerTypeOK'
  BY DEF PoolInv, TrackerTypeOK
<1>4. NoTrackerLeak'
  BY <1>1 DEF PoolInv, NoTrackerLeak, Live, Ended
<1>5. \A u \in Urls : LiveOn(u)' = LiveOn(u)
  BY <1>1 DEF LiveOn
<1>6. LoadIsLive'
  BY <1>5 DEF PoolInv, LoadIsLive, LiveOn
<1> QED
  BY <1>2, <1>3, <1>4, <1>6 DEF PoolInv

\* A live fragment ends: its reservation is dropped, once.
LEMMA EndsOnce ==
  ASSUME PoolInv, RegistryInv', NEW f \in Fragments, NEW o \in Ended,
         o = "finished" => Len(frag[f].out) = Batches,
         frag[f].st \in Live, frag' = [frag EXCEPT ![f] = Over(@, o)], Release(f),
         UNCHANGED <<tracked, purge>>, untrack' \subseteq Fragments,
         untrack \subseteq untrack', frag[f].st = "planned" \/ f \in untrack'
  PROVE  PoolInv'
<1> DEFINE g == Over(frag[f], o)
<1>1. Sound(g) /\ g.st = o
  BY OverSound DEF PoolInv, FragmentsSound
<1>2. PICK u \in Urls : u = frag[f].home
  BY DEF PoolInv, FragmentsSound, Sound
<1>3. frag'[f] = g /\ \A h \in Fragments \ {f} : frag'[h] = frag[h]
  BY DEF PoolInv, FragmentsSound
<1> HIDE DEF g
<1>4. FragmentsSound'
  <2>1. frag' = [frag EXCEPT ![f] = g] /\ g \in FragmentStates
    BY <1>1 DEF Sound, g
  <2> QED
    BY <1>1, <1>3, <2>1 DEF PoolInv, FragmentsSound
<1>5. f \in LiveOn(u) /\ LiveOn(u)' = LiveOn(u) \ {f}
  BY <1>1, <1>2, <1>3 DEF LiveOn, Live, Ended
<1>6. \A v \in Urls \ {u} : LiveOn(v)' = LiveOn(v)
  BY <1>1, <1>2, <1>3 DEF LiveOn, Live, Ended
<1>7. \A v \in Urls : load[v] = Cardinality(LiveOn(v))
  BY DEF PoolInv, LoadIsLive, LiveOn
<1>8. load' = [load EXCEPT ![u] = @ - 1] /\ load \in [Urls -> Nat]
  BY <1>2 DEF Release, PoolInv, TrackerTypeOK
<1>9. Cardinality(LiveOn(u) \ {f}) = Cardinality(LiveOn(u)) - 1
      /\ Cardinality(LiveOn(u) \ {f}) \in Nat
  <2>1. IsFiniteSet(LiveOn(u))
    BY LiveOnFinite
  <2>2. IsFiniteSet(LiveOn(u) \ {f})
        /\ Cardinality(LiveOn(u) \ {f}) = Cardinality(LiveOn(u)) - 1
    BY <1>5, <2>1, FS_RemoveElement
  <2> QED
    BY <2>2, FS_CardinalityType
<1>10. \A v \in Urls : load'[v] = Cardinality(LiveOn(v)') /\ load'[v] \in Nat
  BY <1>2, <1>5, <1>6, <1>7, <1>8, <1>9
<1>11. LoadIsLive'
  BY <1>10 DEF LoadIsLive, LiveOn
<1>12. TrackerTypeOK'
  BY <1>8, <1>10 DEF PoolInv, TrackerTypeOK
<1>13. NoTrackerLeak'
  BY <1>1, <1>3 DEF PoolInv, NoTrackerLeak, Ended
<1> QED
  BY <1>4, <1>11, <1>12, <1>13 DEF PoolInv

-----------------------------------------------------------------------------
(* The fragments' steps. *)

\* Planning adds the fragment to the load of its worker.
LEMMA PlanInv ==
  ASSUME PoolInv, NEW f \in Fragments, Plan(f)
  PROVE  PoolInv'
<1>1. PICK u \in HealthyWorkers :
        /\ frag' = [frag EXCEPT ![f].st = "planned", ![f].home = u, ![f].at = u]
        /\ load' = [load EXCEPT ![u] = @ + 1]
  BY DEF Plan
<1>2. u \in Urls
  BY DEF HealthyWorkers, PoolInv, RegistryInv, RegistryTypeOK
<1> DEFINE g == [frag[f] EXCEPT !.st = "planned", !.home = u, !.at = u]
<1>3. frag[f].st = "idle" /\ Sound(frag[f])
  BY DEF Plan, PoolInv, FragmentsSound
<1>4. Sound(g) /\ g.st = "planned" /\ g.home = u
  BY <1>2, <1>3, PlannedSound
<1>5. frag' = [frag EXCEPT ![f] = g]
  BY <1>1
<1> HIDE DEF g
<1>6. frag'[f] = g /\ \A h \in Fragments \ {f} : frag'[h] = frag[h]
  BY <1>5 DEF PoolInv, FragmentsSound
<1>7. FragmentsSound'
  BY <1>4, <1>5, <1>6 DEF PoolInv, FragmentsSound, Sound
<1>8. f \notin LiveOn(u) /\ LiveOn(u)' = LiveOn(u) \cup {f}
  BY <1>3, <1>4, <1>6 DEF LiveOn, Live
<1>9. \A v \in Urls \ {u} : LiveOn(v)' = LiveOn(v)
  BY <1>3, <1>4, <1>6 DEF LiveOn, Live
<1>10. \A v \in Urls : load[v] = Cardinality(LiveOn(v))
  BY DEF PoolInv, LoadIsLive, LiveOn
<1>11. load \in [Urls -> Nat]
  BY DEF PoolInv, TrackerTypeOK
<1>12. Cardinality(LiveOn(u) \cup {f}) = Cardinality(LiveOn(u)) + 1
  BY <1>8, LiveOnFinite, FS_AddElement
<1>13. \A v \in Urls : load'[v] = Cardinality(LiveOn(v)') /\ load'[v] \in Nat
  <2>1. load' = [load EXCEPT ![u] = @ + 1]
    BY <1>1
  <2>2. load'[u] = load[u] + 1 /\ \A v \in Urls \ {u} : load'[v] = load[v]
    BY <1>2, <1>11, <2>1
  <2> SUFFICES ASSUME NEW v \in Urls
               PROVE  load'[v] = Cardinality(LiveOn(v)') /\ load'[v] \in Nat
    OBVIOUS
  <2>3. CASE v = u
    BY <1>2, <1>8, <1>10, <1>11, <1>12, <2>2, <2>3
  <2>4. CASE v # u
    BY <1>9, <1>10, <1>11, <2>2, <2>4
  <2> QED
    BY <2>3, <2>4
<1>14. LoadIsLive'
  BY <1>13 DEF LoadIsLive, LiveOn
<1>15. UNCHANGED <<registryVars, tracked, untrack, purge>>
  BY DEF Plan
<1>16. TrackerTypeOK'
  BY <1>1, <1>11, <1>13, <1>15 DEF PoolInv, TrackerTypeOK
<1>17. NoTrackerLeak'
  BY <1>3, <1>4, <1>6, <1>15 DEF PoolInv, NoTrackerLeak
<1>18. RegistryInv'
  BY <1>15, RegistryAlone DEF PoolInv, registryVars, RegistryInv, RegistryTypeOK, Registered
<1> QED
  BY <1>7, <1>14, <1>16, <1>17, <1>18 DEF PoolInv

\* What a step that leaves the registry alone preserves.
LEMMA RegistryUntouched ==
  ASSUME RegistryInv, UNCHANGED registryVars
  PROVE  RegistryInv'
BY RegistryAlone DEF registryVars, RegistryInv, RegistryTypeOK, Registered

\* The steps by which an attempt goes well.
LEMMA DriveInv ==
  ASSUME PoolInv, NEW f \in Fragments, FirstPoll(f) \/ Connect(f) \/ Batch(f) \/ Retry(f)
  PROVE  PoolInv'
<1>1. Sound(frag[f])
  BY DEF PoolInv, FragmentsSound
<1>2. CASE FirstPoll(f)
  <2> DEFINE g == [frag[f] EXCEPT !.st = "dispatch"]
  <2>1. frag[f].st = "planned" /\ frag[f].home \in Urls
    BY <1>1, <1>2 DEF FirstPoll, Sound, Live
  <2>2. Sound(g) /\ g.st = "dispatch" /\ g.home = frag[f].home
    BY <1>1, <2>1, PolledSound
  <2>3. frag' = [frag EXCEPT ![f] = g]
    BY <1>2 DEF FirstPoll
  <2> HIDE DEF g
  <2>4. RegistryInv' /\ UNCHANGED <<load, untrack, purge>>
    BY <1>2, RegistryUntouched DEF FirstPoll, PoolInv
  <2>5. tracked' = [tracked EXCEPT ![f] = frag[f].home]
    BY <1>2 DEF FirstPoll
  <2>6. tracked' \in [Fragments -> Urls \cup {NoUrl}]
        /\ \A h \in Fragments \ {f} : tracked'[h] = tracked[h]
    BY <2>1, <2>5 DEF PoolInv, TrackerTypeOK
  <2>7. frag[f].st \in Live /\ g.st \in Live \ {"planned"}
    BY <2>1, <2>2 DEF Live
  <2> QED
    BY <2>2, <2>3, <2>4, <2>6, <2>7, MovesOn
<1>3. CASE Connect(f)
  <2> DEFINE n == proc[frag[f].at].inst
             g == [frag[f] EXCEPT !.st = "stream", !.inst = n]
  <2>1. frag[f].st = "dispatch" /\ n \in Nat
    BY <1>1, <1>3 DEF Connect, Sound, Live, PoolInv, RegistryInv, RegistryTypeOK, Processes
  <2>2. frag' = [frag EXCEPT ![f] = g]
    BY <1>3 DEF Connect
  <2>3. Sound(g) /\ g.st = "stream" /\ g.home = frag[f].home
    BY <1>1, <2>1, ConnectedSound
  <2> HIDE DEF g
  <2>4. RegistryInv' /\ UNCHANGED <<load, tracked, untrack, purge>>
    BY <1>3, RegistryUntouched DEF Connect, PoolInv
  <2>5. frag[f].st \in Live /\ g.st \in Live \ {"planned"}
    BY <2>1, <2>3 DEF Live
  <2>6. tracked' \in [Fragments -> Urls \cup {NoUrl}]
    BY <2>4 DEF PoolInv, TrackerTypeOK
  <2> QED
    BY <2>2, <2>3, <2>4, <2>5, <2>6, MovesOn
<1>4. CASE Batch(f)
  <2> DEFINE g == [frag[f] EXCEPT !.sent = @ + 1, !.out = Append(@, frag[f].sent + 1)]
  <2>1. frag[f].st = "stream" /\ frag[f].sent < Batches
    BY <1>4 DEF Batch
  <2>2. frag' = [frag EXCEPT ![f] = g]
    BY <1>4 DEF Batch
  <2>3. Sound(g) /\ g.st = "stream" /\ g.home = frag[f].home
    BY <1>1, <2>1, BatchSound
  <2> HIDE DEF g
  <2>4. RegistryInv' /\ UNCHANGED <<load, tracked, untrack, purge>>
    BY <1>4, RegistryUntouched DEF Batch, PoolInv
  <2>5. frag[f].st \in Live /\ g.st \in Live \ {"planned"}
    BY <2>1, <2>3 DEF Live
  <2>6. tracked' \in [Fragments -> Urls \cup {NoUrl}]
    BY <2>4 DEF PoolInv, TrackerTypeOK
  <2> QED
    BY <2>2, <2>3, <2>4, <2>5, <2>6, MovesOn
<1>5. CASE Retry(f)
  <2>1. PICK u \in Urls : Dispatched(f, u)
    BY <1>1, <1>5 DEF Retry, Sound, Live, HealthyWorkers, PoolInv, RegistryInv, RegistryTypeOK
  <2> DEFINE g == [frag[f] EXCEPT !.st = "dispatch", !.at = u, !.tries = @ + 1, !.sent = 0]
  <2>2. frag[f].st = "retry"
    BY <1>5 DEF Retry
  <2>3. frag' = [frag EXCEPT ![f] = g]
    BY <2>1 DEF Dispatched
  <2>4. Sound(g) /\ g.st = "dispatch" /\ g.home = frag[f].home
    BY <1>1, <2>2, DispatchedSound
  <2> HIDE DEF g
  <2>5. RegistryInv' /\ UNCHANGED <<load, tracked, untrack, purge>>
    BY <2>1, RegistryUntouched DEF Dispatched, Retrying, PoolInv
  <2>6. frag[f].st \in Live /\ g.st \in Live \ {"planned"}
    BY <2>2, <2>4 DEF Live
  <2>7. tracked' \in [Fragments -> Urls \cup {NoUrl}]
    BY <2>5 DEF PoolInv, TrackerTypeOK
  <2> QED
    BY <2>3, <2>4, <2>5, <2>6, <2>7, MovesOn
<1> QED
  BY <1>2, <1>3, <1>4, <1>5

\* CallbackStream::finish, from every state that has a stream.
LEMMA FinishInv ==
  ASSUME PoolInv, RegistryInv', NEW f \in Fragments, NEW o \in Ended,
         o = "finished" => Len(frag[f].out) = Batches,
         frag[f].st \in Live, Finish(f, o)
  PROVE  PoolInv'
<1>1. /\ frag' = [frag EXCEPT ![f] = Over(@, o)] /\ Release(f)
      /\ untrack' = untrack \cup {f} /\ UNCHANGED <<tracked, purge>>
  BY DEF Finish
<1>2. untrack' \subseteq Fragments /\ untrack \subseteq untrack' /\ f \in untrack'
  BY <1>1 DEF PoolInv, TrackerTypeOK
<1> QED
  BY <1>1, <1>2, EndsOnce

\* A failed attempt ends the fragment or leaves it to be retried.
LEMMA AttemptFailsInv ==
  ASSUME PoolInv, RegistryInv', NEW f \in Fragments, Attempting(f),
         NEW policy \in {"same", "elsewhere", "fail_fast"}, AttemptFails(f, policy)
  PROVE  PoolInv'
<1>1. Sound(frag[f]) /\ frag[f].st \in {"dispatch", "stream"} /\ frag[f].st \in Live
  BY DEF PoolInv, FragmentsSound, Attempting, Live
<1>2. CASE Finish(f, "failed")
  BY <1>1, <1>2, FinishInv DEF Ended
<1>3. CASE /\ frag[f].out = <<>> /\ MayRetry(f, policy) /\ ~Finish(f, "failed")
  <2> DEFINE e == frag[f]
             k == IF policy = "elsewhere" THEN e.failed \cup {e.at} ELSE e.failed
             g == [e EXCEPT !.st = "retry", !.policy = policy, !.failed = k]
  <2>1. frag' = [frag EXCEPT ![f] = g] /\ UNCHANGED <<load, tracked, untrack, purge>>
    BY <1>3 DEF AttemptFails, AfterFailure
  <2>2. /\ Sound(e) /\ e.st \in {"dispatch", "stream"} /\ e.st \in Live /\ e.out = <<>>
        /\ e.tries < MaxRetries /\ k \in SUBSET Urls
    BY <1>1, <1>3 DEF MayRetry, Sound, FragmentStates
  <2> HIDE DEF k, e
  <2>3. /\ g \in FragmentStates /\ g.st = "retry" /\ g.home = e.home /\ g.at = e.at
        /\ g.sent = e.sent /\ g.out = e.out /\ g.tries = e.tries
    BY <2>2 DEF Sound, FragmentStates, Live, Ended
  <2> HIDE DEF g
  <2>4. Sound(g) /\ g.st \in Live \ {"planned"}
    BY <2>2, <2>3 DEF Sound, Live
  <2>5. tracked' \in [Fragments -> Urls \cup {NoUrl}]
    BY <2>1 DEF PoolInv, TrackerTypeOK
  <2> QED
    BY <1>1, <2>1, <2>3, <2>4, <2>5, MovesOn DEF e
<1> QED
  BY <1>2, <1>3 DEF AttemptFails, AfterFailure

\* Evicting a worker after a failed attempt keeps the registry's invariant.
LEMMA PenaliseInv ==
  ASSUME RegistryInv, NEW u, NEW policy, Penalise(u, policy), UNCHANGED <<proc, cap, hellos, round>>,
         faults' \in 0..MaxFaults, faults' >= faults
  PROVE  RegistryInv'
<1>1. Registered' = Registered /\ reg' \in [Registered -> Entries]
  BY EvictedType DEF Penalise, Registered, RegistryInv, RegistryTypeOK
<1>2. RegistryTypeOK'
  BY <1>1 DEF RegistryInv, RegistryTypeOK
<1> QED
  BY <1>2, RegistryAlone

\* A worker that counts a failure against itself has one more to report.
LEMMA CountsFailure ==
  ASSUME RegistryInv, NEW u \in Urls, proc' = [proc EXCEPT ![u].pending = @ + 1],
         faults < MaxFaults, faults' = faults + 1, NEW v, NEW policy, Penalise(v, policy),
         UNCHANGED <<cap, hellos, round>>
  PROVE  RegistryInv'
<1> DEFINE n == proc[u].pending + 1
           p == [proc[u] EXCEPT !.pending = n]
<1>1. /\ proc[u] \in Processes /\ faults \in 0..MaxFaults /\ hellos \subseteq Hellos
      /\ proc[u].pending \in Nat /\ proc[u].forgotten \in Nat
      /\ proc[u].pending + proc[u].forgotten <= faults
  BY DEF RegistryInv, RegistryTypeOK, Processes, Counted
<1>2. n \in 0..MaxFaults /\ n + proc[u].forgotten <= faults + 1
  BY <1>1, Bounds
<1>3. proc' = [proc EXCEPT ![u] = p]
  OBVIOUS
<1> HIDE DEF n
<1>4. /\ p \in Processes /\ p.inst = proc[u].inst /\ p.beat = proc[u].beat
      /\ p.pending = n /\ p.forgotten = proc[u].forgotten
      /\ p.told = proc[u].told /\ p.reported = proc[u].reported /\ (proc[u].up => p.up)
  BY <1>1, <1>2 DEF Processes
<1> HIDE DEF p
<1>5. proc' \in [Urls -> Processes] /\ proc'[u] = p
      /\ \A w \in Urls : w # u => proc'[w] = proc[w]
  BY <1>3, <1>4 DEF RegistryInv, RegistryTypeOK
<1>6. Registered' = Registered /\ reg' \in [Registered -> Entries]
  BY EvictedType DEF Penalise, Registered, RegistryInv, RegistryTypeOK
<1>7. RegistryTypeOK'
  BY <1>1, <1>5, <1>6, Bounds DEF RegistryInv, RegistryTypeOK
<1>8. Counted'
  <2>1. \A w \in Urls : /\ proc[w].pending \in Nat /\ proc[w].forgotten \in Nat
                        /\ proc[w].reported \in Nat /\ proc[w].told \in Nat
    BY DEF RegistryInv, RegistryTypeOK, Processes
  <2>2. \A m \in hellos : m.failures \in Nat /\ m.total \in Nat
    BY <1>1 DEF Hellos
  <2>3. \A w \in Urls : /\ proc'[w].pending + proc'[w].forgotten <= faults'
                        /\ proc'[w].reported <= faults'
                        /\ proc'[w].told <= faults'
    BY <1>1, <1>2, <1>4, <1>5, <2>1 DEF RegistryInv, Counted
  <2>4. \A m \in hellos' : m.failures <= faults' /\ m.total <= faults'
    BY <1>1, <2>2 DEF RegistryInv, Counted
  <2> QED
    BY <2>3, <2>4 DEF Counted
<1>9. Awaited'
  BY <1>1, <1>4, <1>5 DEF RegistryInv, Awaited, Hellos
<1>10. Acknowledgeable'
  BY <1>4, <1>5 DEF RegistryInv, Acknowledgeable
<1> QED
  BY <1>7, <1>8, <1>9, <1>10 DEF RegistryInv

\* The steps by which an attempt fails.
LEMMA FailureInv ==
  ASSUME PoolInv, NEW f \in Fragments,
         TicketRefused(f) \/ WorkerGone(f) \/ WorkerFails(f) \/ SourceFails(f)
  PROVE  PoolInv'
<1>1. RegistryInv /\ faults \in 0..MaxFaults
  BY DEF PoolInv, RegistryInv, RegistryTypeOK
<1>2. ASSUME NEW policy \in {"same", "elsewhere", "fail_fast"}, AttemptFails(f, policy),
             Attempting(f), UNCHANGED <<proc, cap, hellos, round, faults>>
      PROVE  PoolInv'
  <2>1. Penalise(frag[f].at, policy)
    BY <1>2 DEF AttemptFails
  <2>2. RegistryInv'
    BY <1>1, <1>2, <2>1, PenaliseInv
  <2> QED
    BY <1>2, <2>2, AttemptFailsInv
<1>3. CASE TicketRefused(f)
  BY <1>2, <1>3 DEF TicketRefused, Attempting
<1>4. CASE WorkerGone(f)
  BY <1>2, <1>4 DEF WorkerGone
<1>5. CASE SourceFails(f)
  BY <1>2, <1>5 DEF SourceFails
<1>6. CASE WorkerFails(f)
  <2>1. /\ Attempting(f) /\ AttemptFails(f, "elsewhere") /\ UNCHANGED <<cap, hellos, round>>
        /\ faults < MaxFaults /\ faults' = faults + 1
        /\ Penalise(frag[f].at, "elsewhere")
    BY <1>6 DEF WorkerFails, Fault, AttemptFails
  <2>2. frag[f].at \in Urls
    BY <2>1 DEF Attempting, PoolInv, FragmentsSound, Sound, Live
  <2>3. CASE proc' = [proc EXCEPT ![frag[f].at].pending = @ + 1]
    <3>1. RegistryInv'
      BY <1>1, <2>1, <2>2, <2>3, CountsFailure
    <3> QED
      BY <2>1, <3>1, AttemptFailsInv
  <2>4. CASE UNCHANGED proc
    <3>1. faults' \in 0..MaxFaults /\ faults' >= faults
      BY <1>1, <2>1, Bounds
    <3>2. RegistryInv'
      BY <1>1, <2>1, <2>4, <3>1, PenaliseInv
    <3> QED
      BY <2>1, <3>2, AttemptFailsInv
  <2> QED
    BY <1>6, <2>3, <2>4 DEF WorkerFails
<1> QED
  BY <1>3, <1>4, <1>5, <1>6

\* The steps by which a fragment ends.
LEMMA EndInv ==
  ASSUME PoolInv, NEW f \in Fragments, Eof(f) \/ NoWorkerLeft(f) \/ Cancel(f)
  PROVE  PoolInv'
<1>1. RegistryInv'
  BY RegistryUntouched DEF PoolInv, Eof, NoWorkerLeft, Cancel
<1>2. CASE Eof(f)
  <2>1. frag[f].st = "stream" /\ Len(frag[f].out) = Batches /\ Finish(f, "finished")
    BY <1>2 DEF Eof, PoolInv, FragmentsSound, Sound
  <2> QED
    BY <1>1, <2>1, FinishInv DEF Live, Ended
<1>3. CASE NoWorkerLeft(f)
  BY <1>1, <1>3, FinishInv DEF NoWorkerLeft, Live, Ended
<1>4. CASE frag[f].st \in Live \ {"planned"} /\ Finish(f, "cancelled")
  BY <1>1, <1>4, FinishInv DEF Live, Ended
<1>5. CASE /\ frag[f].st = "planned"
           /\ frag' = [frag EXCEPT ![f] = Over(@, "cancelled")]
           /\ Release(f) /\ UNCHANGED <<tracked, untrack, purge>>
  <2>1. untrack' \subseteq Fragments /\ untrack \subseteq untrack'
    BY <1>5 DEF PoolInv, TrackerTypeOK
  <2>2. "cancelled" \in Ended /\ frag[f].st \in Live
    BY <1>5 DEF Live, Ended
  <2> QED
    BY <1>1, <1>5, <2>1, <2>2, EndsOnce
<1> QED
  BY <1>2, <1>3, <1>4, <1>5 DEF Cancel

\* The credential tracker's own steps, and the hello that starts a purge.
LEMMA TrackerInv ==
  ASSUME PoolInv,
         \/ \E f \in Fragments : Untrack(f)
         \/ \E u \in Urls : Purge(u)
         \/ \E m \in hellos : Hello(m)
  PROVE  PoolInv'
<1>1. ASSUME NEW f \in Fragments, Untrack(f)
      PROVE  PoolInv'
  <2>1. RegistryInv' /\ UNCHANGED <<frag, load, purge>>
    BY <1>1, RegistryUntouched DEF Untrack, PoolInv
  <2>2. FragmentsSound' /\ LoadIsLive'
    BY <2>1 DEF PoolInv, FragmentsSound, LoadIsLive
  <2>3. TrackerTypeOK' /\ NoTrackerLeak'
    BY <1>1, <2>1 DEF Untrack, PoolInv, TrackerTypeOK, NoTrackerLeak
  <2> QED
    BY <2>1, <2>2, <2>3 DEF PoolInv
<1>2. ASSUME NEW u \in Urls, Purge(u)
      PROVE  PoolInv'
  <2>1. RegistryInv' /\ UNCHANGED <<frag, load, untrack>>
    BY <1>2, RegistryUntouched DEF Purge, PoolInv
  <2>2. FragmentsSound' /\ LoadIsLive'
    BY <2>1 DEF PoolInv, FragmentsSound, LoadIsLive
  <2>3. TrackerTypeOK' /\ NoTrackerLeak'
    BY <1>2, <2>1 DEF Purge, PoolInv, TrackerTypeOK, NoTrackerLeak
  <2> QED
    BY <2>1, <2>2, <2>3 DEF PoolInv
<1>3. ASSUME NEW m \in hellos, Hello(m)
      PROVE  PoolInv'
  <2>1. RegistryInv'
    BY <1>3, GreetInv DEF Hello, PoolInv
  <2>2. m.url \in Urls
    BY DEF PoolInv, RegistryInv, RegistryTypeOK, Hellos
  <2>3. UNCHANGED <<frag, load, tracked, untrack>> /\ purge' \subseteq Urls
    BY <1>3, <2>2 DEF Hello, PoolInv, TrackerTypeOK
  <2> QED
    BY <2>1, <2>3, FragmentsAlone
<1> QED
  BY <1>1, <1>2, <1>3

\* Every step of the pool.
LEMMA PoolNextInv == PoolInv /\ [Next]_vars => PoolInv'
<1> SUFFICES ASSUME PoolInv, [Next]_vars PROVE PoolInv'
  OBVIOUS
<1>1. CASE RegistryStep /\ UNCHANGED <<frag, load, tracked, untrack, purge>>
  <2>1. RegistryInv'
    BY <1>1, RegistryStepInv DEF PoolInv
  <2>2. purge' \subseteq Urls
    BY <1>1 DEF PoolInv, TrackerTypeOK
  <2> QED
    BY <1>1, <2>1, <2>2, FragmentsAlone
<1>2. CASE UNCHANGED vars
  <2>1. RegistryInv' /\ UNCHANGED <<frag, load, tracked, untrack, purge>>
    BY <1>2, RegistryUntouched DEF vars, PoolInv
  <2> QED
    BY <2>1, FragmentsAlone DEF PoolInv, TrackerTypeOK
<1>3. ASSUME NEW f \in Fragments,
             \/ Plan(f) \/ FirstPoll(f) \/ Connect(f) \/ Batch(f) \/ Eof(f)
             \/ TicketRefused(f) \/ WorkerGone(f) \/ WorkerFails(f) \/ SourceFails(f)
             \/ Retry(f) \/ NoWorkerLeft(f) \/ Cancel(f) \/ Untrack(f)
      PROVE  PoolInv'
  BY <1>3, PlanInv, DriveInv, FailureInv, EndInv, TrackerInv
<1>4. CASE (\E u \in Urls : Purge(u)) \/ (\E m \in hellos : Hello(m))
  BY <1>4, TrackerInv
<1> QED
  BY <1>1, <1>2, <1>3, <1>4 DEF Next

\* The invariant of the pool and its fragments.
LEMMA PoolInvariant == Spec => []PoolInv
BY PoolInitInv, PoolNextInv, PTL DEF Spec

-----------------------------------------------------------------------------
(* The theorems. *)

\* The pool is well typed: the registry never exceeds the cap
\* (WorkerRegistry::register_hello), no fragment is dispatched more than
\* max_retries times again and no load falls below zero.
THEOREM PoolTypes == Spec => []TypeOK
BY PoolInvariant, PoolInvImplies, PTL

\* Whatever fails and is retried, a query receives of a fragment each batch
\* once and in order, and all of them if it finished (FragmentRun::drive).
THEOREM CleanPrefixAlways == Spec => []CleanPrefix
BY PoolInvariant, PoolInvImplies, PTL

\* The load the scheduler sees is exactly the live fragments
\* (WorkerLoadTracker, ReservationGuard).
THEOREM LoadIsLiveAlways == Spec => []LoadIsLive
BY PoolInvariant, PoolInvImplies, PTL

\* No fragment that ended stays with the credential tracker
\* (CredentialRefreshTracker::unregister).
THEOREM NoTrackerLeakAlways == Spec => []NoTrackerLeak
BY PoolInvariant, PoolInvImplies, PTL

\* A worker forgets only failures the coordinator has been told
\* (WorkerStatus::acknowledge_failures).
THEOREM FailuresReportedAlways == Spec => []FailuresReported
BY PoolInvariant, PoolInvImplies, PTL

=============================================================================
