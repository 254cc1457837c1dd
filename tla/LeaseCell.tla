------------------------------ MODULE LeaseCell ------------------------------
(***************************************************************************)
(* What the maintenance lease promises about the claim on a table, without *)
(* rows, files, reads or retries: one cell that changes hands in one step. *)
(* A claim that runs is its holder's; only the holder extends it or gives  *)
(* it up, and no one gets more than TTL from now.                          *)
(***************************************************************************)
EXTENDS Naturals

CONSTANTS Holders, Nobody, TTL, MaxTime

VARIABLES
  claim,  \* who has the table, and until when
  now     \* the clock

Claim(h, e) == [holder |-> h, exp |-> e]
Free == Claim(Nobody, 0)

Init == claim = Free /\ now = 0

\* A free or expired claim is taken.  One that was sent long ago may have
\* less than TTL left when it arrives, or nothing.
Take(h) ==
  /\ claim.exp <= now
  /\ \E e \in TTL..(now + TTL) : claim' = Claim(h, e)
  /\ UNCHANGED now

\* The holder moves the end of its claim, never towards now.
Extend(h) ==
  /\ claim.holder = h
  /\ \E e \in claim.exp..(now + TTL) : claim' = Claim(h, e)
  /\ UNCHANGED now

Release(h) ==
  /\ claim.holder = h
  /\ claim' = Free
  /\ UNCHANGED now

Tick == now < MaxTime /\ now' = now + 1 /\ UNCHANGED claim

Next == Tick \/ \E h \in Holders : Take(h) \/ Extend(h) \/ Release(h)

Spec == Init /\ [][Next]_<<claim, now>>
=============================================================================
