--------------------------- MODULE BreakerProofs ---------------------------
(***************************************************************************)
(* Proofs about CircuitBreaker, for any number of callers, every threshold *)
(* and every length of the two windows: the state is well typed and a      *)
(* recovering backend is not stampeded.                                    *)
(***************************************************************************)
EXTENDS CircuitBreaker, TLAPS

\* The constants, as the provers use them.
LEMMA Bounds ==
  /\ Threshold \in Nat /\ 0 \in 0..Threshold
  /\ Recovery \in Nat /\ 0 \in 0..Recovery /\ Recovery \in 0..Recovery
  /\ Lease \in Nat /\ 0 \in 0..Lease /\ Lease \in 0..Lease
  /\ MaxTurns \in Nat /\ 0 \in 0..MaxTurns /\ MaxDrops \in Nat /\ 0 \in 0..MaxDrops
BY BreakerAssumption

\* An age stays within its window, does not go back and stops at the window.
LEMMA OlderAge ==
  ASSUME NEW w \in Nat, NEW a \in 0..w
  PROVE  /\ Older(a, w) \in 0..w /\ Older(a, w) >= a
         /\ a = w => Older(a, w) = w
         /\ \A b \in 0..w : b <= a => Older(b, w) <= Older(a, w)
BY DEF Older

\* Goto is the only way a caller moves.
LEMMA GotoTypes ==
  ASSUME pc \in [Callers -> Places], NEW c \in Callers, NEW from, NEW to \in Places,
         Goto(c, from, to)
  PROVE  pc' \in [Callers -> Places]
BY DEF Goto

\* Why there is no stampede: a caller holds a read of half_open_since_ms that
\* is still its value only while the lease is over, and once a probe was
\* admitted beside the winner the lease is younger than the change to
\* Half-Open.
Leased ==
  /\ current # {} => halfOpen = Lease
  /\ extra >= 1 => halfOpen <= entered
  /\ extra <= 1

LEMMA BreakerInit == Init => TypeOK /\ Leased
<1> SUFFICES ASSUME Init PROVE TypeOK /\ Leased
  OBVIOUS
<1>1. pc \in [Callers -> Places]
  BY DEF Init, Places
<1> QED
  BY <1>1, Bounds DEF Init, TypeOK, Leased

\* A step of a caller.
LEMMA BreakerProceeds ==
  ASSUME TypeOK, Leased, NEW c \in Callers, Proceed(c)
  PROVE  TypeOK' /\ Leased'
<1>1. pc \in [Callers -> Places] /\ halfOpen \in 0..Lease /\ entered \in 0..Lease
      /\ extra \in Nat /\ Lease \in Nat
  BY Bounds DEF TypeOK
<1>2. CASE LoadState(c)
  <2>1. pc' \in [Callers -> Places]
    BY <1>1, <1>2, GotoTypes DEF LoadState, Places
  <2> QED
    BY <1>2, <2>1 DEF LoadState, TypeOK, Leased, atomics, world, history
<1>3. CASE LoadFailure(c)
  <2>1. pc' \in [Callers -> Places]
    BY <1>1, <1>3, GotoTypes DEF LoadFailure, Places
  <2> QED
    BY <1>3, <2>1 DEF LoadFailure, TypeOK, Leased, atomics, world, history
<1>4. CASE TryHalfOpen(c)
  <2>1. pc' \in [Callers -> Places]
    BY <1>1, <1>4, GotoTypes DEF TryHalfOpen, Places
  <2>2. state' \in {"closed", "open", "half_open"} /\ entered' \in 0..Lease /\ extra' \in Nat
    BY <1>4, Bounds DEF TryHalfOpen, TypeOK, history
  <2>3. Leased'
    BY <1>4 DEF TryHalfOpen, Leased, history
  <2> QED
    BY <1>4, <2>1, <2>2, <2>3 DEF TryHalfOpen, TypeOK, world
<1>5. CASE StartLease(c)
  <2>1. pc' \in [Callers -> Places]
    BY <1>1, <1>5, GotoTypes DEF StartLease, Places
  <2>2. Leased'
    BY <1>1, <1>5 DEF StartLease, Leased, history
  <2> QED
    BY <1>5, <2>1, <2>2, Bounds DEF StartLease, TypeOK, world, history
<1>6. CASE LoadLease(c)
  <2>1. pc' \in [Callers -> Places]
    BY <1>1, <1>6, GotoTypes DEF LoadLease, Places
  <2>2. Leased' /\ current' \subseteq Callers
    BY <1>1, <1>6 DEF LoadLease, LeaseOver, Leased, TypeOK, atomics, history
  <2> QED
    BY <1>6, <2>1, <2>2 DEF LoadLease, TypeOK, atomics, world, history
<1>7. CASE TryReplace(c)
  <2>1. pc' \in [Callers -> Places]
    BY <1>1, <1>7, GotoTypes DEF TryReplace, Places
  <2>2. CASE c \in current
    <3>1. /\ halfOpen = Lease /\ halfOpen' = 0 /\ current' = {} /\ entered' = entered
          /\ extra' = IF state = "half_open" /\ entered < Lease THEN extra + 1 ELSE extra
      BY <1>7, <2>2 DEF TryReplace, Leased
    <3>2. extra >= 1 => ~(entered < Lease)
      BY <1>1, <3>1 DEF Leased
    <3>3. Leased' /\ extra' \in Nat
      BY <1>1, <3>1, <3>2 DEF Leased
    <3> QED
      BY <1>7, <2>1, <3>1, <3>3, Bounds DEF TryReplace, TypeOK, world
  <2>3. CASE c \notin current
    BY <1>7, <2>1, <2>3 DEF TryReplace, TypeOK, Leased, world
  <2> QED
    BY <2>2, <2>3
<1>8. CASE Answered(c)
  <2>1. pc' \in [Callers -> Places]
    BY <1>1, <1>8, GotoTypes DEF Answered, Places
  <2> QED
    BY <1>8, <2>1 DEF Answered, TypeOK, Leased, atomics, world, history
<1>9. CASE Close(c)
  <2>1. pc' \in [Callers -> Places]
    BY <1>1, <1>9, GotoTypes DEF Close, Places
  <2> QED
    BY <1>9, <2>1 DEF Close, TypeOK, Leased, world, history
<1>10. CASE ResetCount(c)
  <2>1. pc' \in [Callers -> Places]
    BY <1>1, <1>10, GotoTypes DEF ResetCount, Places
  <2> QED
    BY <1>10, <2>1, Bounds DEF ResetCount, TypeOK, Leased, world, history
<1>11. CASE StoreFailure(c)
  <2>1. pc' \in [Callers -> Places]
    BY <1>1, <1>11, GotoTypes DEF StoreFailure, Places
  <2> QED
    BY <1>11, <2>1, Bounds DEF StoreFailure, TypeOK, Leased, world, history
<1>12. CASE LoadStateAgain(c)
  <2>1. pc' \in [Callers -> Places]
    BY <1>1, <1>12, GotoTypes DEF LoadStateAgain, Places
  <2> QED
    BY <1>12, <2>1 DEF LoadStateAgain, TypeOK, Leased, atomics, world, history
<1>13. CASE Reopen(c)
  <2>1. pc' \in [Callers -> Places]
    BY <1>1, <1>13, GotoTypes DEF Reopen, Places
  <2> QED
    BY <1>13, <2>1 DEF Reopen, TypeOK, Leased, world, history
<1>14. CASE CountFailure(c)
  <2>1. pc' \in [Callers -> Places]
    BY <1>1, <1>14, GotoTypes DEF CountFailure, Places
  <2>2. failures' \in 0..Threshold
    BY <1>14, Bounds, OlderAge DEF CountFailure, TypeOK
  <2> QED
    BY <1>14, <2>1, <2>2 DEF CountFailure, TypeOK, Leased, world, history
<1>15. CASE TryOpen(c)
  <2>1. pc' \in [Callers -> Places]
    BY <1>1, <1>15, GotoTypes DEF TryOpen, Places
  <2> QED
    BY <1>15, <2>1 DEF TryOpen, TypeOK, Leased, world, history
<1> QED
  BY <1>2, <1>3, <1>4, <1>5, <1>6, <1>7, <1>8, <1>9, <1>10, <1>11, <1>12, <1>13, <1>14, <1>15
  DEF Proceed

\* The clock.
LEMMA BreakerTicks ==
  ASSUME TypeOK, Leased, Tick
  PROVE  TypeOK' /\ Leased'
<1>1. /\ halfOpen \in 0..Lease /\ entered \in 0..Lease /\ lastFailure \in 0..Recovery
      /\ Lease \in Nat /\ Recovery \in Nat
  BY Bounds DEF TypeOK
<1>2. /\ lastFailure' \in 0..Recovery /\ halfOpen' \in 0..Lease /\ entered' \in 0..Lease
      /\ halfOpen = Lease => halfOpen' = Lease
      /\ halfOpen <= entered => halfOpen' <= entered'
  BY <1>1, OlderAge DEF Tick
<1>3. Leased'
  BY <1>2 DEF Tick, Leased
<1> QED
  BY <1>2, <1>3 DEF Tick, TypeOK, world

\* Every step.
LEMMA BreakerNext == TypeOK /\ Leased /\ [Next]_vars => (TypeOK /\ Leased)'
<1> SUFFICES ASSUME TypeOK, Leased, [Next]_vars PROVE TypeOK' /\ Leased'
  OBVIOUS
<1>1. CASE UNCHANGED vars
  BY <1>1 DEF vars, TypeOK, Leased
<1>2. CASE Turn
  <2>1. turns' \in 0..MaxTurns
    BY <1>2, Bounds DEF Turn, TypeOK
  <2> QED
    BY <1>2, <2>1 DEF Turn, TypeOK, Leased, atomics, history
<1>3. ASSUME NEW c \in Callers, Dropped(c)
      PROVE  TypeOK' /\ Leased'
  <2>1. pc' \in [Callers -> Places]
    BY <1>3, GotoTypes DEF Dropped, TypeOK, Places
  <2>2. drops' \in 0..MaxDrops
    BY <1>3, Bounds DEF Dropped, TypeOK
  <2> QED
    BY <1>3, <2>1, <2>2 DEF Dropped, TypeOK, Leased, atomics, history
<1> QED
  BY <1>1, <1>2, <1>3, BreakerProceeds, BreakerTicks DEF Next

LEMMA BreakerInvariant == Spec => [](TypeOK /\ Leased)
BY BreakerInit, BreakerNext, PTL DEF Spec

\* The state is well typed: the counter stops at the threshold and the ages at
\* their windows (circuit_breaker.rs).
THEOREM BreakerTypeCorrect == Spec => []TypeOK
BY BreakerInvariant, PTL

\* However many callers race, within one lease of the change to Half-Open at
\* most one request is admitted beside the winner: the compare-exchange on
\* half_open_since_ms succeeds only for a timestamp whose lease is over, and
\* the one that is exchanged in is younger than the change (check).
THEOREM NeverStampedes == Spec => []NoStampede
<1>1. Leased => NoStampede
  BY DEF Leased, NoStampede
<1> QED
  BY <1>1, BreakerInvariant, PTL

=============================================================================
