---------------------------- MODULE AtomicCommit ----------------------------
(***************************************************************************)
(* What a transaction promises its client and everyone else, without       *)
(* branches, registries or retries: its writes reach main in one step, all *)
(* of the acknowledged ones together, once, and nobody's are lost.         *)
(***************************************************************************)
EXTENDS Naturals

CONSTANTS Txns, Tables, Outside, Nonempty, MaxWrites

VARIABLES
  main,   \* the writes on main of each table
  acked   \* the writes each transaction's client was told succeeded

WritesOf(x) == {x} \X (0..MaxWrites)

Published(x) == \E t \in Tables : main[t] \cap WritesOf(x) # {}

Init ==
  /\ main = [t \in Tables |-> IF t \in Nonempty THEN {<<Outside, 0>>} ELSE {}]
  /\ acked = [x \in Txns |-> {}]

\* A statement of an unpublished transaction is acknowledged.
Ack(x) ==
  /\ ~Published(x)
  /\ \E t \in Tables, w \in WritesOf(x) :
       acked' = [acked EXCEPT ![x] = @ \cup {<<t, w>>}]
  /\ UNCHANGED main

\* COMMIT: only writes of x are added, no table loses one, and every
\* acknowledged write of x is there afterwards.
Publish(x) ==
  /\ ~Published(x)
  /\ main' \in [Tables -> SUBSET ((Txns \cup {Outside}) \X (0..MaxWrites))]
  /\ \A t \in Tables :
       main[t] \subseteq main'[t] /\ main'[t] \ main[t] \subseteq WritesOf(x)
  /\ \A a \in acked[x] : a[2] \in main'[a[1]]
  /\ UNCHANGED acked

\* A commit outside the transactions.
OutsideWrite(t) ==
  /\ \E w \in WritesOf(Outside) : main' = [main EXCEPT ![t] = @ \cup {w}]
  /\ UNCHANGED acked

Next ==
  \/ \E x \in Txns : Ack(x) \/ Publish(x)
  \/ \E t \in Tables : OutsideWrite(t)

Spec == Init /\ [][Next]_<<main, acked>>
=============================================================================
