------------------------------- MODULE MCPool -------------------------------
(* Instances of the worker pool for TLC. *)
EXTENDS FragmentRun

\* "a" heartbeats and is started a second time, from any build: one that
\* names the key it has, or an older one that answers with a plain "ok" and
\* passes the checks its hellos evict it for.  "b" is a worker of the
\* coordinator's configuration that never heartbeats.
Keyed(kind) == [kind |-> kind, reply |-> "keyed"]
Plain(kind) == [kind |-> kind, reply |-> "plain"]

RunBuilds ==
  [u \in Urls |->
     IF u = "a"
       THEN <<{Keyed("same")},
              {Keyed(k) : k \in BuildKinds} \cup {Plain("same"), Plain("older_task")}>>
       ELSE <<{Keyed("same")}>>]
=============================================================================
