---------------------------- MODULE LeaseProofs ----------------------------
(***************************************************************************)
(* Proofs about MaintenanceLease for every set of coordinators, every      *)
(* lease time and every bound: it is well typed, a job_key that has a row  *)
(* keeps exactly one, two coordinators never both hold an unexpired lease, *)
(* a release takes no other coordinator's claim away, and the rows of a    *)
(* job_key are the one cell of LeaseCell.                                  *)
(***************************************************************************)
EXTENDS MaintenanceLease, TLAPS

-----------------------------------------------------------------------------
(* The records. *)

\* A lease row of well typed parts is well typed.
LEMMA RowType ==
  ASSUME NEW h \in Holders \cup {NoHolder}, NEW at \in Nat, NEW exp \in Nat,
         NEW released \in BOOLEAN, NEW path \in Paths
  PROVE  Row(h, at, exp, released, path) \in Rows
BY DEF Row, Rows

\* The fields of a well typed row.
LEMMA RowParts ==
  ASSUME NEW r \in Rows
  PROVE  /\ r.holder \in Holders \cup {NoHolder}
         /\ r.at \in Nat
         /\ r.exp \in Nat
         /\ r.released \in BOOLEAN
         /\ r.path \in Paths
BY DEF Rows

\* The state of an operation of well typed parts is well typed.
LEMMA OpType ==
  ASSUME NEW t \in Nat, NEW n \in 1..MaxAttempts, NEW loaded \in BOOLEAN,
         NEW seen \in SUBSET Rows
  PROVE  Op(t, n, loaded, seen) \in Ops
BY DEF Op, Ops

\* The fields of a well typed operation.
LEMMA OpParts ==
  ASSUME NEW o \in Ops
  PROVE  /\ o.now \in Nat
         /\ o.attempt \in 1..MaxAttempts
         /\ o.loaded \in BOOLEAN
         /\ o.seen \subseteq Rows
BY DEF Ops

\* A handle is well typed, keeps its parts, and is a handle.
LEMMA HandleType ==
  ASSUME NEW e \in Nat, NEW p \in Paths
  PROVE  /\ Handle(e, p) \in Handles
         /\ Handle(e, p).exp = e
         /\ Handle(e, p).path = p
         /\ Handle(e, p) # NoHandle
BY LeaseConstants DEF Handle, Handles

\* An operation that settled has read nothing.
LEMMA IdleOp == Op(0, 1, FALSE, {}) \in Ops
<1>1. 1 \in 1..MaxAttempts
  BY LeaseConstants
<1>2. {} \in SUBSET Rows
  OBVIOUS
<1> QED BY <1>1, <1>2, OpType

\* The name of the file to write is not in use.
LEMMA FreshIsFresh ==
  ASSUME Paths \ InUse # {}
  PROVE  FreshPath \in Paths /\ FreshPath \notin InUse
BY DEF FreshPath

\* The renewal ticker's period is a positive number.
LEMMA PeriodType == Period \in Nat \ {0}
BY LeaseConstants DEF Period

\* The row an operation writes, by the operation.
LEMMA NewRowType ==
  ASSUME TypeOK, NEW h \in Holders, Paths \ InUse # {}
  PROVE  /\ NewRow(h) \in Rows
         /\ NewRow(h).holder = h
         /\ NewRow(h).path = FreshPath
         /\ NewRow(h).exp <= op[h].now + TTL
         /\ phase[h] # "release" => /\ ~NewRow(h).released
                                    /\ NewRow(h).exp = op[h].now + TTL
<1>1. op[h].now \in Nat /\ op[h].now + TTL \in Nat
  BY OpParts, LeaseConstants DEF TypeOK
<1>2. FreshPath \in Paths
  BY FreshIsFresh
<1>3. CASE phase[h] = "release"
  <2>1. NewRow(h) = Row(h, op[h].now, op[h].now, TRUE, FreshPath)
    BY <1>3 DEF NewRow
  <2>2. Row(h, op[h].now, op[h].now, TRUE, FreshPath) \in Rows
    BY <1>1, <1>2, RowType
  <2>3. /\ NewRow(h).holder = h
        /\ NewRow(h).path = FreshPath
        /\ NewRow(h).exp = op[h].now
    BY <2>1 DEF Row
  <2>4. NewRow(h).exp <= op[h].now + TTL
    BY <1>1, <2>3, LeaseConstants
  <2> QED BY <1>3, <2>1, <2>2, <2>3, <2>4
<1>4. CASE phase[h] # "release"
  <2>1. NewRow(h) = Row(h, op[h].now, op[h].now + TTL, FALSE, FreshPath)
    BY <1>4 DEF NewRow
  <2>2. Row(h, op[h].now, op[h].now + TTL, FALSE, FreshPath) \in Rows
    BY <1>1, <1>2, RowType
  <2>3. /\ NewRow(h).holder = h
        /\ NewRow(h).path = FreshPath
        /\ NewRow(h).exp = op[h].now + TTL
        /\ NewRow(h).released = FALSE
    BY <2>1 DEF Row
  <2>4. NewRow(h).exp <= op[h].now + TTL
    BY <1>1, <2>3
  <2> QED BY <1>4, <2>1, <2>2, <2>3, <2>4
<1> QED BY <1>3, <1>4

-----------------------------------------------------------------------------
(* Type correctness. *)

\* An operation that settles leaves phase and op well typed.
LEMMA SettledType ==
  ASSUME TypeOK, NEW h \in Holders, NEW next \in Phases, Settled(h, next)
  PROVE  phase' \in [Holders -> Phases] /\ op' \in [Holders -> Ops]
BY IdleOp DEF TypeOK, Settled

\* So does one that starts.
LEMMA StartType ==
  ASSUME TypeOK, NEW h \in Holders, NEW o \in Phases, Start(h, o)
  PROVE  phase' \in [Holders -> Phases] /\ op' \in [Holders -> Ops]
<1>1. 1 \in 1..MaxAttempts /\ {} \in SUBSET Rows
  BY LeaseConstants
<1>2. Op(now, 1, FALSE, {}) \in Ops
  BY <1>1, OpType DEF TypeOK
<1> QED BY <1>2 DEF TypeOK, Start

\* Giving up leaves phase, op and handle well typed.
LEMMA GiveUpType ==
  ASSUME TypeOK, NEW h \in Holders, NEW next \in Phases, GiveUp(h, next)
  PROVE  /\ phase' \in [Holders -> Phases]
         /\ op' \in [Holders -> Ops]
         /\ handle' \in [Holders -> Handles \cup {NoHandle}]
<1>1. Settled(h, next)
  BY DEF GiveUp
<1>2. phase' \in [Holders -> Phases] /\ op' \in [Holders -> Ops]
  BY <1>1, SettledType
<1>3. handle' \in [Holders -> Handles \cup {NoHandle}]
  BY DEF GiveUp, TypeOK
<1> QED BY <1>2, <1>3

\* Replacing rows by a well typed one leaves them well typed.
LEMMA ReplaceType ==
  ASSUME rows \subseteq Rows, NEW targets, NEW r \in Rows, Replace(targets, r)
  PROVE  rows' \subseteq Rows
BY DEF Replace

\* The files a dropped guard may delete are files.
LEMMA GuardedType ==
  ASSUME TypeOK, Paths \ InUse # {}, NEW left \in Guarded
  PROVE  left \subseteq Paths
BY FreshIsFresh DEF Guarded, TypeOK

\* Every step of a coordinator keeps the state well typed.
LEMMA TypeStep ==
  ASSUME TypeOK, NEW h \in Holders, Step(h) \/ StartRenew(h) \/ Fault(h)
  PROVE  TypeOK'
<1> USE DEF Phases, Operations
<1>1. op[h] \in Ops /\ op[h].now \in Nat /\ op[h].attempt \in 1..MaxAttempts
      /\ op[h].seen \subseteq Rows /\ op[h].now + TTL \in Nat
  BY OpParts, LeaseConstants DEF TypeOK
<1>2. now + Period \in Nat /\ due[h] \in Nat /\ now \in Nat
  BY PeriodType DEF TypeOK
<1>3. "idle" \in Phases /\ "work" \in Phases /\ "down" \in Phases
  OBVIOUS
<1>4. faults + 1 \in Nat /\ crashes + 1 \in Nat
  BY DEF TypeOK
<1>5. CASE Load(h)
  <2>1. Op(op[h].now, op[h].attempt, TRUE, rows) \in Ops
    BY <1>1, OpType DEF TypeOK
  <2> QED BY <1>5, <2>1 DEF Load, TypeOK
<1>6. CASE Commit(h)
  <2>1. Paths \ InUse # {} /\ Settled(h, IF phase[h] = "release" THEN "idle" ELSE "work")
    BY <1>6 DEF Commit, Writes
  <2>2. NewRow(h) \in Rows /\ FreshPath \in Paths
    BY <2>1, NewRowType, FreshIsFresh
  <2>3. rows' \subseteq Rows
    BY <1>6, <2>2, ReplaceType DEF Commit, TypeOK
  <2>4. phase' \in [Holders -> Phases] /\ op' \in [Holders -> Ops]
    BY <2>1, <1>3, SettledType
  <2>5. Handle(op[h].now + TTL, FreshPath) \in Handles
    BY <1>1, <2>2, HandleType
  <2>6. handle' \in [Holders -> Handles \cup {NoHandle}]
    BY <1>6, <2>5 DEF Commit, TypeOK
  <2>7. due' \in [Holders -> Nat]
    BY <1>6, <1>2 DEF Commit, TypeOK
  <2>8. doomed' \subseteq Paths
    BY <1>6 DEF Commit, TypeOK
  <2> QED BY <1>6, <2>3, <2>4, <2>6, <2>7, <2>8 DEF Commit, TypeOK
<1>7. CASE Lose(h)
  BY <1>7, <1>3, GiveUpType DEF Lose, TypeOK
<1>8. CASE Skip(h)
  BY <1>8, <1>3, GiveUpType DEF Skip, TypeOK
<1>9. CASE Reacquire(h)
  <2>1. PICK r \in Latest(op[h].seen) :
          handle' = [handle EXCEPT ![h] = Handle(r.exp, r.path)]
    BY <1>9 DEF Reacquire
  <2>2. r \in Rows
    BY <2>1, <1>1 DEF Latest
  <2>3. Handle(r.exp, r.path) \in Handles
    BY <2>2, RowParts, HandleType
  <2>4. phase' \in [Holders -> Phases] /\ op' \in [Holders -> Ops]
    BY <1>9, <1>3, SettledType DEF Reacquire
  <2>5. due' \in [Holders -> Nat]
    BY <1>9, <1>2 DEF Reacquire, TypeOK
  <2> QED BY <1>9, <2>1, <2>3, <2>4, <2>5 DEF Reacquire, TypeOK
<1>10. CASE NotOurs(h)
  BY <1>10, <1>3, GiveUpType DEF NotOurs, TypeOK
<1>11. CASE StartAcquire(h)
  BY <1>11, StartType DEF StartAcquire, TypeOK
<1>12. CASE Finish(h)
  <2>1. phase' \in [Holders -> Phases] /\ op' \in [Holders -> Ops]
    BY <1>12, <1>3, StartType, SettledType DEF Finish
  <2> QED BY <1>12, <2>1 DEF Finish, TypeOK
<1>13. CASE StartRenew(h)
  <2> DEFINE late_by == now - due[h]
             missed == late_by \div Period
  <2>1. late_by \in Nat
    BY <1>13, <1>2 DEF StartRenew
  <2>2. missed \in Nat
    BY <2>1, PeriodType
  <2>3. Period * (missed + 1) \in Nat
    <3> HIDE DEF missed
    <3>1. missed + 1 \in Nat
      BY <2>2
    <3> QED BY <3>1, PeriodType
  <2>4. due[h] + Period * (missed + 1) \in Nat
    <3> HIDE DEF missed
    <3> QED BY <2>3, <1>2
  <2>5. due' \in [Holders -> Nat]
    BY <1>13, <2>4 DEF StartRenew, TypeOK
  <2>6. phase' \in [Holders -> Phases] /\ op' \in [Holders -> Ops]
    BY <1>13, StartType DEF StartRenew
  <2> QED BY <1>13, <2>5, <2>6 DEF StartRenew, TypeOK
<1>14. CASE Conflict(h)
  <2>1. op[h].attempt + 1 \in 1..MaxAttempts /\ {} \in SUBSET Rows
    BY <1>14, <1>1, LeaseConstants DEF Conflict
  <2>2. Op(op[h].now, op[h].attempt + 1, FALSE, {}) \in Ops
    BY <2>1, <1>1, OpType
  <2> QED BY <1>14, <2>2, <1>4 DEF Conflict, TypeOK
<1>15. CASE Exhausted(h)
  BY <1>15, <1>3, <1>4, GiveUpType DEF Exhausted, AfterError, TypeOK
<1>16. CASE Fail(h)
  BY <1>16, <1>3, <1>4, GiveUpType DEF Fail, AfterError, TypeOK
<1>17. CASE LostReply(h)
  <2>1. NewRow(h) \in Rows
    BY <1>17, NewRowType DEF LostReply, Writes
  <2>2. rows' \subseteq Rows
    BY <1>17, <2>1, ReplaceType DEF LostReply, TypeOK
  <2>3. doomed' \subseteq Paths
    BY <1>17, GuardedType DEF LostReply, Writes
  <2> QED BY <1>17, <2>2, <2>3, <1>3, <1>4, GiveUpType
          DEF LostReply, AfterError, TypeOK
<1>18. CASE Delay(h)
  <2>1. NewRow(h) \in Rows
    BY <1>18, NewRowType DEF Delay, Writes
  <2>2. PathsOf(op[h].seen) \subseteq Paths
    BY <1>1, RowParts DEF PathsOf
  <2>3. late' \subseteq Commits
    BY <1>18, <2>1, <2>2 DEF Delay, TypeOK, Commits
  <2>4. doomed' \subseteq Paths
    BY <1>18, GuardedType DEF Delay, Writes
  <2> QED BY <1>18, <2>3, <2>4, <1>3, <1>4, GiveUpType
          DEF Delay, AfterError, TypeOK
<1>19. CASE Crash(h)
  <2>1. phase' \in [Holders -> Phases] /\ op' \in [Holders -> Ops]
    BY <1>19, <1>3, SettledType DEF Crash
  <2> QED BY <1>19, <2>1, <1>4 DEF Crash, TypeOK
<1>20. CASE Unreadable(h)
  BY <1>20, <1>3, GiveUpType DEF Unreadable, TypeOK
<1> QED BY <1>5, <1>6, <1>7, <1>8, <1>9, <1>10, <1>11, <1>12, <1>13, <1>14,
           <1>15, <1>16, <1>17, <1>18, <1>19, <1>20 DEF Step, Fault

\* So does a commit that lands late.
LEMMA TypeLand ==
  ASSUME TypeOK, NEW c \in late, Land(c)
  PROVE  TypeOK'
<1>1. c.row \in Rows
  BY DEF TypeOK, Commits
<1>2. rows' \subseteq Rows
  BY <1>1, ReplaceType DEF Land, TypeOK
<1> QED BY <1>2 DEF Land, TypeOK

\* The initial state is well typed.
LEMMA TypeInit == Init => TypeOK
<1> SUFFICES ASSUME Init PROVE TypeOK
  OBVIOUS
<1>1. PICK p \in Paths : rows = IF Fresh THEN {} ELSE {Row(NoHolder, 0, 0, TRUE, p)}
  BY LeaseConstants DEF Init
<1>2. Row(NoHolder, 0, 0, TRUE, p) \in Rows
  BY RowType
<1> QED BY <1>1, <1>2, IdleOp DEF Init, TypeOK, Phases

\* A step of any kind keeps the state well typed.
LEMMA TypeNext == TypeOK /\ [Next]_vars => TypeOK'
<1> SUFFICES ASSUME TypeOK, [Next]_vars PROVE TypeOK'
  OBVIOUS
<1>1. CASE \E h \in Holders : Step(h) \/ StartRenew(h) \/ Fault(h)
  BY <1>1, TypeStep
<1>2. CASE \E c \in late : Land(c)
  BY <1>2, TypeLand
<1>3. CASE Tick
  BY <1>3 DEF Tick, TypeOK
<1>4. CASE UNCHANGED vars
  BY <1>4 DEF vars, TypeOK
<1> QED BY <1>1, <1>2, <1>3, <1>4 DEF Next

\* Every reachable state of the lease protocol is well typed: in particular
\* the attempts of a lease call never pass MAX_LEASE_ATTEMPTS.
THEOREM LeaseTypeCorrect == Spec => []TypeOK
BY TypeInit, TypeNext, PTL DEF Spec

-----------------------------------------------------------------------------
(* One live row. *)

\* An operation that has read the table has read exactly one row.
SeenOne == \A h \in Holders : op[h].loaded => \E s \in Rows : op[h].seen = {s}

\* A commit on its way has something to delete.
LateDeletes == \A c \in late : c.targets # {}

RowInv == TypeOK /\ OneLiveRow /\ (~Fresh => SeenOne /\ LateDeletes)

\* A replacement that applies, and deletes something, leaves its own row.
LEMMA ReplaceOne ==
  ASSUME NEW r, rows = {r}, NEW targets, targets # {}, Applies(targets),
         NEW n, Replace(targets, n)
  PROVE  rows' = {n} /\ targets = {r.path}
BY DEF Applies, PathsOf, Replace

\* What the step of a coordinator does to the operation it runs.
LEMMA OpStep ==
  ASSUME TypeOK, NEW h \in Holders, Step(h) \/ StartRenew(h) \/ Fault(h)
  PROVE  /\ \A g \in Holders \ {h} : op'[g] = op[g] /\ phase'[g] = phase[g]
                                       /\ handle'[g] = handle[g]
         /\ (op'[h].seen = {} /\ op'[h].loaded = FALSE) \/ Load(h)
<1> USE DEF TypeOK
<1>1. CASE Load(h)
  BY <1>1 DEF Load
<1>2. ASSUME NEW t, NEW n, op' = [op EXCEPT ![h] = Op(t, n, FALSE, {})]
      PROVE  /\ \A g \in Holders \ {h} : op'[g] = op[g]
             /\ op'[h].seen = {}
             /\ op'[h].loaded = FALSE
  <2>1. op'[h] = Op(t, n, FALSE, {})
    BY <1>2
  <2>2. op'[h].seen = {} /\ op'[h].loaded = FALSE
    BY <2>1 DEF Op
  <2> QED BY <1>2, <2>2
<1>3. ASSUME NEW next, Settled(h, next)
      PROVE  /\ \A g \in Holders \ {h} : op'[g] = op[g] /\ phase'[g] = phase[g]
             /\ op'[h].seen = {} /\ op'[h].loaded = FALSE
  BY <1>2, <1>3 DEF Settled
<1>4. ASSUME NEW next, GiveUp(h, next)
      PROVE  /\ \A g \in Holders \ {h} : op'[g] = op[g] /\ phase'[g] = phase[g]
                                           /\ handle'[g] = handle[g]
             /\ op'[h].seen = {} /\ op'[h].loaded = FALSE
  BY <1>3, <1>4 DEF GiveUp
<1>5. ASSUME NEW o, Start(h, o)
      PROVE  /\ \A g \in Holders \ {h} : op'[g] = op[g] /\ phase'[g] = phase[g]
             /\ op'[h].seen = {} /\ op'[h].loaded = FALSE
  BY <1>2, <1>5 DEF Start
<1>6. CASE Commit(h)
  BY <1>6, <1>3 DEF Commit
<1>7. CASE Lose(h)
  BY <1>7, <1>4 DEF Lose
<1>8. CASE Skip(h)
  BY <1>8, <1>4 DEF Skip
<1>9. CASE Reacquire(h)
  <2>1. \A g \in Holders \ {h} : handle'[g] = handle[g]
    BY <1>9 DEF Reacquire
  <2>2. Settled(h, "work")
    BY <1>9 DEF Reacquire
  <2> QED BY <2>1, <2>2, <1>3
<1>10. CASE NotOurs(h)
  BY <1>10, <1>4 DEF NotOurs
<1>11. CASE StartAcquire(h)
  BY <1>11, <1>5 DEF StartAcquire
<1>12. CASE Finish(h)
  BY <1>12, <1>3, <1>5 DEF Finish
<1>13. CASE StartRenew(h)
  BY <1>13, <1>5 DEF StartRenew
<1>14. CASE Conflict(h)
  BY <1>14, <1>2 DEF Conflict
<1>15. CASE Exhausted(h) \/ Fail(h) \/ LostReply(h) \/ Delay(h)
  <2>1. AfterError(h)
    BY <1>15 DEF Exhausted, Fail, LostReply, Delay
  <2> QED BY <2>1, <1>4 DEF AfterError
<1>16. CASE Crash(h)
  <2>1. \A g \in Holders \ {h} : handle'[g] = handle[g]
    BY <1>16 DEF Crash
  <2>2. Settled(h, "down")
    BY <1>16 DEF Crash
  <2> QED BY <2>1, <2>2, <1>3
<1>17. CASE Unreadable(h)
  BY <1>17, <1>4 DEF Unreadable
<1> QED BY <1>1, <1>6, <1>7, <1>8, <1>9, <1>10, <1>11, <1>12, <1>13, <1>14,
           <1>15, <1>16, <1>17 DEF Step, Fault

\* What the step of a coordinator does to the table.
LEMMA RowsStep ==
  ASSUME NEW h \in Holders, Step(h) \/ StartRenew(h) \/ Fault(h)
  PROVE  /\ \/ rows' = rows
            \/ /\ Commit(h) \/ LostReply(h)
               /\ Writes(h)
               /\ Applies(PathsOf(op[h].seen))
               /\ Replace(PathsOf(op[h].seen), NewRow(h))
         /\ \/ late' = late
            \/ /\ Late
               /\ Writes(h)
               /\ late' = late \cup {[targets |-> PathsOf(op[h].seen),
                                      row |-> NewRow(h)]}
         /\ now' = now
BY DEF Step, Fault, StartRenew, Load, Commit, Lose, Skip, Reacquire, NotOurs,
       StartAcquire, Finish, Conflict, Exhausted, Fail, LostReply, Delay, Crash,
       Unreadable

\* A coordinator's step keeps the one row.
LEMMA RowStep ==
  ASSUME RowInv, ~Fresh, NEW h \in Holders, Step(h) \/ StartRenew(h) \/ Fault(h)
  PROVE  OneLiveRow' /\ SeenOne' /\ LateDeletes'
<1>1. PICK r \in rows : rows = {r}
  BY DEF RowInv, OneLiveRow
<1>2. r \in Rows /\ TypeOK /\ SeenOne /\ LateDeletes
  BY <1>1 DEF RowInv, TypeOK
<1>3. Writes(h) => PathsOf(op[h].seen) # {}
  BY <1>2 DEF Writes, SeenOne, PathsOf
<1>4. OneLiveRow'
  <2>1. CASE rows' = rows
    BY <2>1, <1>1 DEF OneLiveRow
  <2>2. CASE rows' # rows
    <3>1. rows' = {NewRow(h)}
      BY <2>2, <1>1, <1>3, RowsStep, ReplaceOne
    <3> QED BY <3>1 DEF OneLiveRow
  <2> QED BY <2>1, <2>2
<1>5. SeenOne'
  <2> SUFFICES ASSUME NEW g \in Holders, op'[g].loaded
               PROVE  \E s \in Rows : op'[g].seen = {s}
    BY DEF SeenOne
  <2>1. CASE op'[g] = op[g]
    BY <2>1, <1>2 DEF SeenOne
  <2>2. CASE op'[g] # op[g]
    <3>1. g = h /\ Load(h)
      BY <2>2, <1>2, OpStep
    <3>2. op'[h] = Op(op[h].now, op[h].attempt, TRUE, rows)
      BY <3>1, <1>2 DEF Load, TypeOK
    <3>3. op'[h].seen = {r}
      BY <3>2, <1>1 DEF Op
    <3> QED BY <3>1, <3>3, <1>2
  <2> QED BY <2>1, <2>2
<1>6. LateDeletes'
  <2> DEFINE c == [targets |-> PathsOf(op[h].seen), row |-> NewRow(h)]
  <2>1. CASE late' = late
    BY <2>1, <1>2 DEF LateDeletes
  <2>2. CASE late' # late
    <3>1. Writes(h) /\ late' = late \cup {c}
      BY <2>2, RowsStep
    <3>2. c.targets # {}
      BY <3>1, <1>3
    <3> QED BY <3>1, <3>2, <1>2 DEF LateDeletes
  <2> QED BY <2>1, <2>2
<1> QED BY <1>4, <1>5, <1>6

\* So does a commit that lands late, and the clock.
LEMMA RowNext == RowInv /\ [Next]_vars => RowInv'
<1> SUFFICES ASSUME RowInv, [Next]_vars PROVE RowInv'
  OBVIOUS
<1>1. TypeOK'
  BY TypeNext DEF RowInv
<1> SUFFICES ASSUME ~Fresh PROVE OneLiveRow' /\ SeenOne' /\ LateDeletes'
  BY <1>1 DEF RowInv, OneLiveRow
<1>2. CASE \E h \in Holders : Step(h) \/ StartRenew(h) \/ Fault(h)
  BY <1>2, RowStep
<1>3. ASSUME NEW c \in late, Land(c)
      PROVE  OneLiveRow' /\ SeenOne' /\ LateDeletes'
  <2>1. PICK r \in rows : rows = {r}
    BY DEF RowInv, OneLiveRow
  <2>2. OneLiveRow'
    <3>1. CASE rows' = rows
      BY <3>1, <2>1 DEF OneLiveRow
    <3>2. CASE rows' # rows
      <4>1. Applies(c.targets) /\ Replace(c.targets, c.row) /\ c.targets # {}
        BY <1>3, <3>2 DEF Land, RowInv, LateDeletes
      <4>2. rows' = {c.row}
        BY <4>1, <2>1, ReplaceOne
      <4> QED BY <4>2 DEF OneLiveRow
    <3> QED BY <3>1, <3>2
  <2>3. op' = op /\ late' \subseteq late
    BY <1>3 DEF Land
  <2> QED BY <2>2, <2>3 DEF RowInv, SeenOne, LateDeletes
<1>4. CASE Tick
  BY <1>4 DEF Tick, RowInv, OneLiveRow, SeenOne, LateDeletes
<1>5. CASE UNCHANGED vars
  BY <1>5 DEF vars, RowInv, OneLiveRow, SeenOne, LateDeletes
<1> QED BY <1>2, <1>3, <1>4, <1>5 DEF Next

\* It holds at the start, when the job_key has its tombstone.
LEMMA RowInit == Init => RowInv
<1> SUFFICES ASSUME Init PROVE RowInv
  OBVIOUS
<1>1. \A h \in Holders : op[h] = Op(0, 1, FALSE, {})
  BY DEF Init
<1>2. \A h \in Holders : op[h].loaded = FALSE
  BY <1>1 DEF Op
<1>3. OneLiveRow
  BY DEF Init, OneLiveRow
<1> QED BY <1>2, <1>3, TypeInit DEF Init, RowInv, SeenOne, LateDeletes

\* A job_key that has a lease row keeps exactly one, also when replies are
\* lost, commits land after their caller gave up, and coordinators stop.
THEOREM OneRowForever == Spec => []OneLiveRow
<1>1. RowInv => OneLiveRow
  BY DEF RowInv
<1> QED BY <1>1, RowInit, RowNext, PTL DEF Spec

-----------------------------------------------------------------------------
(* Exclusion. *)

\* A file never changes: a row that was read is the live row of its path.
SeenIsLive ==
  \A h \in Holders : \A s \in op[h].seen, r \in rows : s.path = r.path => s = r

\* What an operation writes is not older than what its coordinator holds.
ClockInv ==
  \A h \in Holders :
    /\ op[h].now <= now
    /\ Holds(h) => handle[h].exp <= now + TTL
    /\ Holds(h) /\ phase[h] = "renew" => handle[h].exp <= op[h].now + TTL

\* No claim runs longer than TTL from now.
ExpiryInv ==
  /\ \A r \in rows : r.exp <= now + TTL
  /\ \A h \in Holders : \A s \in op[h].seen : s.exp <= now + TTL

\* The table agrees that h has the lease until e.
Backed(h, e) == \E r \in rows : r.holder = h /\ ~r.released /\ e <= r.exp

\* An unexpired handle is backed by the table, even when a renewal that was
\* applied has moved the claim to a file its holder does not know.
HandleBacked == \A h \in Holders : Unexpired(h) => Backed(h, handle[h].exp)

\* So is an own claim that try_acquire has read and may still return.
SeenBacked ==
  \A h \in Holders : phase[h] = "acquire" =>
    \A s \in op[h].seen :
      s.holder = h /\ ~s.released /\ now < s.exp => Backed(h, s.exp)

LeaseInv ==
  /\ RowInv
  /\ late = {}
  /\ SeenIsLive
  /\ ClockInv
  /\ ExpiryInv
  /\ HandleBacked
  /\ SeenBacked

\* A well typed handle has a number for its expiry.
LEMMA HandleExp ==
  ASSUME TypeOK, NEW h \in Holders, Holds(h)
  PROVE  handle[h].exp \in Nat
BY DEF TypeOK, Holds, Handles

\* The claim a write replaces is the one that was read.  Nobody but the
\* writer has a use for it: a claim is written over a row that is released
\* or expired, a renewal and a release over the writer's own.
LEMMA WriteFacts ==
  ASSUME LeaseInv, ~Fresh, NEW h \in Holders, Writes(h),
         Applies(PathsOf(op[h].seen)),
         Replace(PathsOf(op[h].seen), NewRow(h))
  PROVE  /\ rows' = {NewRow(h)}
         /\ \A g \in Holders, e \in Nat :
              now < e /\ Backed(g, e) => g = h /\ phase[h] # "acquire"
<1>1. TypeOK /\ SeenOne /\ SeenIsLive /\ ClockInv
  BY DEF LeaseInv, RowInv
<1>2. PICK r \in rows : rows = {r}
  BY DEF LeaseInv, RowInv, OneLiveRow
<1>3. PICK s \in Rows : op[h].seen = {s}
  BY <1>1 DEF SeenOne, Writes
<1>4. PathsOf(op[h].seen) = {s.path}
  BY <1>3 DEF PathsOf
<1>5. rows' = {NewRow(h)} /\ s.path = r.path
  BY <1>2, <1>4, ReplaceOne
<1>6. s = r
  BY <1>5, <1>1, <1>2, <1>3 DEF SeenIsLive
<1>7. r.exp \in Nat /\ op[h].now \in Nat /\ now \in Nat /\ op[h].now <= now
  BY <1>1, <1>3, <1>6, RowParts, OpParts DEF TypeOK, ClockInv
<1>8. phase[h] = "acquire" => r.released \/ r.exp <= now
  <2> SUFFICES ASSUME phase[h] = "acquire" PROVE r.released \/ r.exp <= now
    OBVIOUS
  <2>1. \E q \in Latest(op[h].seen) : Acquirable(q, op[h].now)
    BY <1>3 DEF Writes
  <2>2. Acquirable(r, op[h].now)
    BY <2>1, <1>3, <1>6 DEF Latest
  <2> QED BY <2>2, <1>7 DEF Acquirable
<1>9. phase[h] # "acquire" => r.holder = h
  BY <1>3, <1>6 DEF Writes, StillOurs, Current
<1>10. ASSUME NEW g \in Holders, NEW e \in Nat, now < e, Backed(g, e)
       PROVE  g = h /\ phase[h] # "acquire"
  <2>1. r.holder = g /\ ~r.released /\ e <= r.exp
    BY <1>10, <1>2 DEF Backed
  <2>2. phase[h] # "acquire"
    BY <2>1, <1>8, <1>7, <1>10
  <2> QED BY <2>1, <2>2, <1>9
<1> QED BY <1>5, <1>10

\* A file that was just written has been read by nobody.
LEMMA WriteUnseen ==
  ASSUME TypeOK, NEW h \in Holders, Writes(h), NEW g \in Holders,
         NEW s \in op[g].seen
  PROVE  s.path # NewRow(h).path
<1>1. NewRow(h).path = FreshPath /\ FreshPath \notin InUse
  BY NewRowType, FreshIsFresh DEF Writes
<1>2. s.path \in PathsOf(op[g].seen)
  BY DEF PathsOf
<1>3. s.path \in UNION {PathsOf(op[f].seen) : f \in Holders}
  BY <1>2
<1>4. s.path \in InUse
  BY <1>3 DEF InUse
<1> QED BY <1>1, <1>4

\* A commit or a lost reply keeps exclusion's invariant.
LEMMA WriteStep ==
  ASSUME LeaseInv, ~Fresh, NEW h \in Holders, Commit(h) \/ LostReply(h)
  PROVE  SeenIsLive' /\ ClockInv' /\ ExpiryInv' /\ HandleBacked' /\ SeenBacked'
<1> DEFINE n == NewRow(h)
<1>1. /\ TypeOK /\ SeenOne /\ SeenIsLive /\ ClockInv /\ ExpiryInv
      /\ HandleBacked /\ SeenBacked
  BY DEF LeaseInv, RowInv
<1>2. /\ Writes(h) /\ Applies(PathsOf(op[h].seen))
      /\ Replace(PathsOf(op[h].seen), n)
      /\ now' = now
  BY DEF Commit, LostReply
<1>3. Step(h) \/ StartRenew(h) \/ Fault(h)
  BY DEF Step, Fault
<1>4. /\ \A g \in Holders \ {h} : op'[g] = op[g] /\ phase'[g] = phase[g]
                                    /\ handle'[g] = handle[g]
      /\ op'[h].seen = {} \/ Load(h)
  BY <1>1, <1>3, OpStep
<1>5. op'[h] = Op(0, 1, FALSE, {})
  BY <1>1 DEF Commit, LostReply, AfterError, GiveUp, Settled, TypeOK
<1>6. op'[h].seen = {} /\ op'[h].now = 0
  BY <1>5 DEF Op
<1>7. phase'[h] \in {"idle", "work"}
  BY <1>1 DEF Commit, LostReply, AfterError, GiveUp, Settled, TypeOK
<1>8. /\ rows' = {n}
      /\ \A g \in Holders, e \in Nat :
           now < e /\ Backed(g, e) => g = h /\ phase[h] # "acquire"
  BY <1>2, WriteFacts
<1>9. /\ n \in Rows /\ n.holder = h /\ n.exp <= op[h].now + TTL
      /\ phase[h] # "release" => ~n.released /\ n.exp = op[h].now + TTL
  BY <1>1, <1>2, NewRowType DEF Writes
<1>10. op[h].now \in Nat /\ now \in Nat /\ op[h].now <= now /\ TTL \in Nat
  BY <1>1, OpParts, LeaseConstants DEF TypeOK, ClockInv
\* The writer's own handle, if it has one, expires no later than its row.
<1>11. Holds(h)' => /\ handle'[h].exp \in Nat
                    /\ handle'[h].exp <= op[h].now + TTL
                    /\ phase[h] # "release"
  <2>1. CASE Commit(h)
    <3>1. FreshPath \in Paths /\ op[h].now + TTL \in Nat
      BY <1>2, <1>10, FreshIsFresh DEF Writes
    <3>2. handle'[h] = IF phase[h] = "release" THEN NoHandle
                       ELSE Handle(op[h].now + TTL, FreshPath)
      BY <2>1, <1>1 DEF Commit, TypeOK
    <3> QED BY <3>1, <3>2, HandleType DEF Holds
  <2>2. CASE LostReply(h)
    <3>1. handle'[h] = IF phase[h] = "renew" THEN handle[h] ELSE NoHandle
      BY <2>2, <1>1 DEF LostReply, AfterError, GiveUp, TypeOK
    <3>2. CASE phase[h] = "renew"
      BY <3>1, <3>2, <1>1, HandleExp DEF Holds, ClockInv
    <3>3. CASE phase[h] # "renew"
      BY <3>1, <3>3 DEF Holds
    <3> QED BY <3>2, <3>3
  <2> QED BY <2>1, <2>2
<1>12. SeenIsLive'
  <2> SUFFICES ASSUME NEW g \in Holders, NEW s \in op'[g].seen, NEW r \in rows',
                      s.path = r.path
               PROVE  FALSE
    BY DEF SeenIsLive
  <2>1. g # h /\ s \in op[g].seen /\ r = n
    BY <1>4, <1>6, <1>8
  <2> QED BY <2>1, <1>1, <1>2, WriteUnseen
<1>13. ClockInv'
  <2> SUFFICES ASSUME NEW g \in Holders
               PROVE  /\ op'[g].now <= now'
                      /\ Holds(g)' => handle'[g].exp <= now' + TTL
                      /\ Holds(g)' /\ phase'[g] = "renew"
                           => handle'[g].exp <= op'[g].now + TTL
    BY DEF ClockInv
  <2>1. CASE g = h
    BY <2>1, <1>2, <1>6, <1>7, <1>10, <1>11
  <2>2. CASE g # h
    BY <2>2, <1>1, <1>2, <1>4 DEF ClockInv, Holds
  <2> QED BY <2>1, <2>2
<1>14. HandleBacked'
  <2> SUFFICES ASSUME NEW g \in Holders, Holds(g)', now' < handle'[g].exp
               PROVE  Backed(g, handle[g].exp)'
    BY DEF HandleBacked, Unexpired
  <2>1. g = h
    <3> SUFFICES ASSUME g # h PROVE FALSE
      OBVIOUS
    <3>1. Holds(g) /\ now < handle[g].exp
      BY <1>2, <1>4 DEF Holds
    <3>2. Backed(g, handle[g].exp) /\ handle[g].exp \in Nat
      BY <3>1, <1>1, HandleExp DEF HandleBacked, Unexpired
    <3> QED BY <3>1, <3>2, <1>8
  <2>2. handle'[h].exp <= n.exp /\ ~n.released
    BY <2>1, <1>9, <1>11
  <2> QED BY <2>1, <2>2, <1>8, <1>9 DEF Backed
<1>15. SeenBacked'
  <2> SUFFICES ASSUME NEW g \in Holders, phase'[g] = "acquire",
                      NEW s \in op'[g].seen, s.holder = g, ~s.released,
                      now' < s.exp
               PROVE  FALSE
    BY DEF SeenBacked
  <2>1. g # h
    BY <1>6
  <2>2. phase[g] = "acquire" /\ s \in op[g].seen /\ now < s.exp
    BY <2>1, <1>2, <1>4
  <2>3. Backed(g, s.exp)
    BY <2>2, <1>1 DEF SeenBacked
  <2>4. s.exp \in Nat
    BY <2>2, <1>1, OpParts, RowParts DEF TypeOK
  <2> QED BY <2>1, <2>2, <2>3, <2>4, <1>8
<1>16. ExpiryInv'
  <2>1. n.exp <= now' + TTL
    BY <1>2, <1>9, <1>10, RowParts
  <2>2. ASSUME NEW g \in Holders, NEW s \in op'[g].seen
        PROVE  s.exp <= now' + TTL
    <3>1. g # h /\ s \in op[g].seen
      BY <2>2, <1>4, <1>6
    <3> QED BY <3>1, <1>1, <1>2 DEF ExpiryInv
  <2> QED BY <2>1, <2>2, <1>8 DEF ExpiryInv
<1> QED BY <1>12, <1>13, <1>14, <1>15, <1>16

\* What the other steps of a coordinator do to its own operation and handle.
LEMMA QuietLocal ==
  ASSUME LeaseInv, NEW h \in Holders, Step(h) \/ StartRenew(h) \/ Fault(h),
         ~(Commit(h) \/ LostReply(h))
  PROVE  /\ op'[h].now \in {0, now, op[h].now}
         /\ \/ handle'[h] \in {handle[h], NoHandle}
            \/ \E s \in op[h].seen :
                 /\ phase[h] = "acquire" /\ s.holder = h /\ ~s.released
                 /\ handle'[h] = Handle(s.exp, s.path)
         /\ phase'[h] = "renew" =>
              /\ handle'[h] = handle[h]
              /\ \/ op'[h].now = now
                 \/ phase[h] = "renew" /\ op'[h].now = op[h].now
<1> USE DEF TypeOK
<1>1. TypeOK
  BY DEF LeaseInv, RowInv
<1>2. ASSUME NEW t, NEW n, NEW loaded, NEW seen,
             op' = [op EXCEPT ![h] = Op(t, n, loaded, seen)]
      PROVE  op'[h].now = t
  BY <1>1, <1>2 DEF Op
<1>3. ASSUME NEW next, Settled(h, next)
      PROVE  op'[h].now = 0 /\ phase'[h] = next
  BY <1>1, <1>2, <1>3 DEF Settled
<1>4. ASSUME NEW next, GiveUp(h, next)
      PROVE  op'[h].now = 0 /\ phase'[h] = next
             /\ handle'[h] \in {handle[h], NoHandle}
  BY <1>1, <1>3, <1>4 DEF GiveUp
<1>5. ASSUME NEW o, Start(h, o)
      PROVE  op'[h].now = now
  BY <1>1, <1>2, <1>5 DEF Start
<1>6. CASE Load(h)
  BY <1>1, <1>2, <1>6 DEF Load
<1>7. CASE Lose(h)
  BY <1>7, <1>4 DEF Lose
<1>8. CASE Skip(h)
  BY <1>8, <1>4 DEF Skip
<1>9. CASE Reacquire(h)
  <2>1. PICK s \in Latest(op[h].seen) :
          /\ OwnLive(s, h, op[h].now)
          /\ handle' = [handle EXCEPT ![h] = Handle(s.exp, s.path)]
    BY <1>9 DEF Reacquire
  <2>2. s \in op[h].seen /\ s.holder = h /\ ~s.released
    BY <2>1 DEF Latest, OwnLive, Acquirable
  <2>3. phase[h] = "acquire" /\ Settled(h, "work")
    BY <1>9 DEF Reacquire
  <2>4. handle'[h] = Handle(s.exp, s.path)
    BY <1>1, <2>1
  <2> QED BY <2>2, <2>3, <2>4, <1>3
<1>10. CASE NotOurs(h)
  BY <1>10, <1>4 DEF NotOurs
<1>11. CASE StartAcquire(h)
  BY <1>1, <1>11, <1>5 DEF StartAcquire, Start
<1>12. CASE Finish(h)
  <2>1. Start(h, "release") \/ Settled(h, "idle")
    BY <1>12 DEF Finish
  <2>2. handle' = handle
    BY <1>12 DEF Finish
  <2>3. op'[h].now \in {0, now}
    BY <2>1, <1>3, <1>5
  <2>4. phase'[h] \in {"release", "idle"}
    <3>1. CASE Start(h, "release")
      BY <3>1, <1>1 DEF Start
    <3>2. CASE Settled(h, "idle")
      BY <3>2, <1>3
    <3> QED BY <2>1, <3>1, <3>2
  <2> QED BY <2>2, <2>3, <2>4
<1>13. CASE StartRenew(h)
  <2>1. Start(h, "renew") /\ handle' = handle
    BY <1>13 DEF StartRenew
  <2>2. op'[h].now = now
    BY <2>1, <1>5
  <2> QED BY <2>1, <2>2
<1>14. CASE Conflict(h)
  BY <1>1, <1>14, <1>2 DEF Conflict
<1>15. CASE Exhausted(h) \/ Fail(h) \/ Delay(h)
  <2>1. AfterError(h)
    BY <1>15 DEF Exhausted, Fail, Delay
  <2> QED BY <2>1, <1>4 DEF AfterError
<1>16. CASE Crash(h)
  BY <1>1, <1>16, <1>3 DEF Crash
<1>17. CASE Unreadable(h)
  BY <1>17, <1>4 DEF Unreadable
<1> QED BY <1>6, <1>7, <1>8, <1>9, <1>10, <1>11, <1>12, <1>13, <1>14,
           <1>15, <1>16, <1>17 DEF Step, Fault

\* Every other step of a coordinator leaves the table alone.
LEMMA QuietStep ==
  ASSUME LeaseInv, ~Fresh, NEW h \in Holders,
         Step(h) \/ StartRenew(h) \/ Fault(h), ~(Commit(h) \/ LostReply(h))
  PROVE  SeenIsLive' /\ ClockInv' /\ ExpiryInv' /\ HandleBacked' /\ SeenBacked'
<1>1. /\ TypeOK /\ SeenIsLive /\ ClockInv /\ ExpiryInv
      /\ HandleBacked /\ SeenBacked
  BY DEF LeaseInv, RowInv
<1>2. rows' = rows /\ now' = now
  BY RowsStep
<1>4. \A g \in Holders \ {h} : op'[g] = op[g] /\ phase'[g] = phase[g]
                                 /\ handle'[g] = handle[g]
  BY <1>1, OpStep
<1>5. op'[h].seen = {} \/ (op'[h].seen = rows /\ phase'[h] = phase[h])
  <2>1. CASE Load(h)
    BY <2>1, <1>1 DEF Load, Op, TypeOK
  <2>2. CASE op'[h].seen = {}
    BY <2>2
  <2>3. op'[h].seen = {} \/ Load(h)
    BY <1>1, OpStep
  <2> QED BY <2>1, <2>2, <2>3
<1>6. now \in Nat /\ TTL \in Nat /\ op[h].now \in Nat /\ op[h].now <= now
  BY <1>1, OpParts, LeaseConstants DEF TypeOK, ClockInv
<1>7. rows \subseteq Rows /\ op[h].seen \subseteq Rows
  BY <1>1, OpParts DEF TypeOK
\* A handle that try_acquire returns is a claim that it read.
<1>8. Holds(h)' => \/ handle'[h] = handle[h] /\ Holds(h)
                   \/ \E s \in op[h].seen :
                        /\ phase[h] = "acquire" /\ s.holder = h /\ ~s.released
                        /\ handle'[h].exp = s.exp
  BY <1>7, QuietLocal, RowParts, HandleType DEF Holds
<1>9. SeenIsLive'
  <2> SUFFICES ASSUME NEW g \in Holders, NEW s \in op'[g].seen, NEW r \in rows,
                      s.path = r.path
               PROVE  s = r
    BY <1>2 DEF SeenIsLive
  <2>1. CASE g = h
    BY <2>1, <1>1, <1>5 DEF LeaseInv, RowInv, OneLiveRow
  <2>2. CASE g # h
    BY <2>2, <1>1, <1>4 DEF SeenIsLive
  <2> QED BY <2>1, <2>2
<1>10. ClockInv'
  <2> SUFFICES ASSUME NEW g \in Holders
               PROVE  /\ op'[g].now <= now
                      /\ Holds(g)' => handle'[g].exp <= now + TTL
                      /\ Holds(g)' /\ phase'[g] = "renew"
                           => handle'[g].exp <= op'[g].now + TTL
    BY <1>2 DEF ClockInv
  <2>1. CASE g # h
    BY <2>1, <1>1, <1>4 DEF ClockInv, Holds
  <2>2. CASE g = h
    <3>1. op'[h].now <= now
      BY <1>6, QuietLocal
    <3>2. Holds(h)' => handle'[h].exp <= now + TTL
      BY <1>1, <1>8 DEF ClockInv, ExpiryInv
    <3>3. Holds(h)' /\ phase'[h] = "renew" => handle'[h].exp <= op'[h].now + TTL
      <4> SUFFICES ASSUME Holds(h)', phase'[h] = "renew"
                   PROVE  handle'[h].exp <= op'[h].now + TTL
        OBVIOUS
      <4>1. handle'[h] = handle[h] /\ Holds(h)
        BY QuietLocal DEF Holds
      <4>2. \/ op'[h].now = now
            \/ phase[h] = "renew" /\ op'[h].now = op[h].now
        BY QuietLocal
      <4> QED BY <4>1, <4>2, <1>1 DEF ClockInv
    <3> QED BY <2>2, <3>1, <3>2, <3>3
  <2> QED BY <2>1, <2>2
<1>11. ExpiryInv'
  <2> SUFFICES ASSUME NEW g \in Holders, NEW s \in op'[g].seen
               PROVE  s.exp <= now + TTL
    BY <1>1, <1>2 DEF ExpiryInv
  <2> QED BY <1>1, <1>4, <1>5 DEF ExpiryInv
<1>12. HandleBacked'
  <2> SUFFICES ASSUME NEW g \in Holders, Holds(g)', now < handle'[g].exp
               PROVE  Backed(g, handle'[g].exp)
    BY <1>2 DEF HandleBacked, Unexpired, Backed
  <2>1. CASE g # h \/ handle'[h] = handle[h]
    <3>1. handle'[g] = handle[g] /\ Holds(g)
      BY <2>1, <1>4 DEF Holds
    <3> QED BY <3>1, <1>1 DEF HandleBacked, Unexpired
  <2>2. CASE g = h /\ handle'[h] # handle[h]
    BY <2>2, <1>1, <1>8 DEF SeenBacked
  <2> QED BY <2>1, <2>2
<1>13. SeenBacked'
  <2> SUFFICES ASSUME NEW g \in Holders, phase'[g] = "acquire",
                      NEW s \in op'[g].seen, s.holder = g, ~s.released,
                      now < s.exp
               PROVE  Backed(g, s.exp)
    BY <1>2 DEF SeenBacked, Backed
  <2>1. CASE g # h
    BY <2>1, <1>1, <1>4 DEF SeenBacked
  <2>2. CASE g = h
    <3>1. s \in rows /\ s.exp \in Nat
      BY <2>2, <1>5, <1>7, RowParts
    <3> QED BY <2>2, <3>1 DEF Backed
  <2> QED BY <2>1, <2>2
<1> QED BY <1>9, <1>10, <1>11, <1>12, <1>13

\* The clock.
LEMMA TickStep ==
  ASSUME LeaseInv, Tick
  PROVE  SeenIsLive' /\ ClockInv' /\ ExpiryInv' /\ HandleBacked' /\ SeenBacked'
<1>1. /\ TypeOK /\ SeenIsLive /\ ClockInv /\ ExpiryInv
      /\ HandleBacked /\ SeenBacked
  BY DEF LeaseInv, RowInv
<1>2. /\ now' = now + 1
      /\ rows' = rows /\ op' = op /\ phase' = phase /\ handle' = handle
  BY DEF Tick
<1>3. now \in Nat /\ TTL \in Nat
  BY <1>1, LeaseConstants DEF TypeOK
<1>4. \A h \in Holders : op[h].now \in Nat /\ op[h].seen \subseteq Rows
  BY <1>1, OpParts DEF TypeOK
<1>5. \A r \in Rows : r.exp \in Nat
  BY RowParts
<1>6. \A h \in Holders : Holds(h) => handle[h].exp \in Nat
  BY <1>1, HandleExp
<1>7. SeenIsLive'
  BY <1>1, <1>2 DEF SeenIsLive
<1>8. ClockInv'
  <2> SUFFICES ASSUME NEW h \in Holders
               PROVE  /\ op[h].now <= now'
                      /\ Holds(h) => handle[h].exp <= now' + TTL
                      /\ Holds(h) /\ phase[h] = "renew"
                           => handle[h].exp <= op[h].now + TTL
    BY <1>2 DEF ClockInv, Holds
  <2>1. op[h].now <= now'
    BY <1>1, <1>2, <1>3, <1>4 DEF ClockInv
  <2>2. Holds(h) => handle[h].exp <= now' + TTL
    BY <1>1, <1>2, <1>3, <1>6 DEF ClockInv
  <2> QED BY <2>1, <2>2, <1>1 DEF ClockInv
<1>9. ExpiryInv'
  <2>1. ASSUME NEW r \in Rows, r.exp <= now + TTL
        PROVE  r.exp <= now' + TTL
    BY <2>1, <1>2, <1>3, <1>5
  <2> QED BY <2>1, <1>1, <1>2, <1>4 DEF ExpiryInv, TypeOK
<1>10. HandleBacked'
  <2> SUFFICES ASSUME NEW h \in Holders, Holds(h), now' < handle[h].exp
               PROVE  Backed(h, handle[h].exp)
    BY <1>2 DEF HandleBacked, Unexpired, Holds, Backed
  <2>1. now < handle[h].exp
    BY <1>2, <1>3, <1>6
  <2> QED BY <2>1, <1>1 DEF HandleBacked, Unexpired
<1>11. SeenBacked'
  <2> SUFFICES ASSUME NEW h \in Holders, phase[h] = "acquire",
                      NEW s \in op[h].seen, s.holder = h, ~s.released,
                      now' < s.exp
               PROVE  Backed(h, s.exp)
    BY <1>2 DEF SeenBacked, Backed
  <2>1. now < s.exp
    BY <1>2, <1>3, <1>4, <1>5
  <2> QED BY <2>1, <1>1 DEF SeenBacked
<1> QED BY <1>7, <1>8, <1>9, <1>10, <1>11

\* Exclusion's invariant is inductive once the job_key has its first row and
\* no commit lands after its caller was told that it failed.
LEMMA LeaseNext ==
  ASSUME ~Fresh, ~Late
  PROVE  LeaseInv /\ [Next]_vars => LeaseInv'
<1> SUFFICES ASSUME LeaseInv, [Next]_vars PROVE LeaseInv'
  OBVIOUS
<1>1. RowInv'
  BY RowNext DEF LeaseInv
<1>2. late = {}
  BY DEF LeaseInv
<1>3. ASSUME NEW h \in Holders, Step(h) \/ StartRenew(h) \/ Fault(h)
      PROVE  LeaseInv'
  <2>1. late' = {}
    BY <1>2, <1>3, RowsStep
  <2>2. CASE Commit(h) \/ LostReply(h)
    BY <2>1, <2>2, <1>1, WriteStep DEF LeaseInv
  <2>3. CASE ~(Commit(h) \/ LostReply(h))
    BY <2>1, <2>3, <1>1, <1>3, QuietStep DEF LeaseInv
  <2> QED BY <2>2, <2>3
<1>4. CASE Tick
  <2>1. late' = {}
    BY <1>2, <1>4 DEF Tick
  <2> QED BY <2>1, <1>1, <1>4, TickStep DEF LeaseInv
<1>5. CASE UNCHANGED vars
  <2>1. /\ SeenIsLive' /\ ClockInv' /\ ExpiryInv' /\ HandleBacked'
        /\ SeenBacked' /\ late' = {}
    BY <1>5 DEF vars, LeaseInv, SeenIsLive, ClockInv, ExpiryInv, HandleBacked,
                SeenBacked, Backed, Unexpired, Holds
  <2> QED BY <2>1, <1>1 DEF LeaseInv
<1> QED BY <1>2, <1>3, <1>4, <1>5 DEF Next

\* It holds at the start.
LEMMA LeaseInit == Init => LeaseInv
<1> SUFFICES ASSUME Init PROVE LeaseInv
  OBVIOUS
<1>1. RowInv
  BY RowInit
<1>2. \A h \in Holders : op[h] = Op(0, 1, FALSE, {}) /\ ~Holds(h)
  BY DEF Init, Holds
<1>3. \A h \in Holders : op[h].seen = {} /\ op[h].now = 0
  BY <1>2 DEF Op
<1>4. PICK p \in Paths : rows = IF Fresh THEN {} ELSE {Row(NoHolder, 0, 0, TRUE, p)}
  BY LeaseConstants DEF Init
<1>5. \A r \in rows : r.exp = 0
  BY <1>4 DEF Row
<1>6. now = 0 /\ late = {} /\ TTL \in Nat
  BY LeaseConstants DEF Init
<1>7. SeenIsLive /\ SeenBacked
  BY <1>3 DEF SeenIsLive, SeenBacked
<1>8. HandleBacked
  BY <1>2 DEF HandleBacked, Unexpired
<1>10. ClockInv
  <2>1. \A h \in Holders : op[h].now <= now
    BY <1>3, <1>6
  <2> QED BY <2>1, <1>2 DEF ClockInv
<1>9. ExpiryInv
  BY <1>3, <1>5, <1>6 DEF ExpiryInv
<1> QED BY <1>1, <1>6, <1>7, <1>8, <1>9, <1>10 DEF LeaseInv

\* Two coordinators never both hold an unexpired lease, for any number of
\* coordinators, any lease time, any lost replies and any crashes, as long
\* as the job_key was claimed before and no commit lands after its caller
\* was told that it failed.
THEOREM LeaseExcludes ==
  ASSUME ~Fresh, ~Late
  PROVE  Spec => []Exclusion
<1>1. LeaseInv => Exclusion
  <2> SUFFICES ASSUME LeaseInv, NEW g \in Holders, NEW h \in Holders,
                      Unexpired(g), Unexpired(h)
               PROVE  g = h
    BY DEF Exclusion
  <2>1. PICK r \in rows : rows = {r}
    BY DEF LeaseInv, RowInv, OneLiveRow
  <2>2. Backed(g, handle[g].exp) /\ Backed(h, handle[h].exp)
    BY DEF LeaseInv, HandleBacked
  <2> QED BY <2>1, <2>2 DEF Backed
<1> QED BY <1>1, LeaseInit, LeaseNext, PTL DEF Spec

-----------------------------------------------------------------------------
(* Release. *)

\* The file of a commit on its way is known to nobody else.
LateApart ==
  \A c \in late :
    /\ \A r \in rows : r.path # c.row.path
    /\ \A h \in Holders : \A s \in op[h].seen : s.path # c.row.path
    /\ \A d \in late : d.row.path = c.row.path => d = c

FileInv == RowInv /\ SeenIsLive /\ LateApart

\* The name of the new file is no late commit's and no live row's.
LEMMA WriteApart ==
  ASSUME TypeOK, NEW k \in Holders, Writes(k)
  PROVE  /\ \A c \in late : c.row.path # NewRow(k).path
         /\ \A r \in rows : r.path # NewRow(k).path
<1>1. NewRow(k).path = FreshPath /\ FreshPath \notin InUse
  BY NewRowType, FreshIsFresh DEF Writes
<1> DEFINE L == UNION {c.targets \cup {c.row.path} : c \in late}
           S == UNION {PathsOf(op[h].seen) : h \in Holders}
           H == {handle[h].path : h \in {g \in Holders : Holds(g)}}
<1>2. \A c \in late : c.row.path \in L
  OBVIOUS
<1>3. \A r \in rows : r.path \in PathsOf(rows)
  BY DEF PathsOf
<1>4. InUse = PathsOf(rows) \cup S \cup H \cup L
  BY DEF InUse
<1> HIDE DEF L, S, H
<1>5. \A c \in late : c.row.path \in InUse
  BY <1>2, <1>4
<1>6. \A r \in rows : r.path \in InUse
  BY <1>3, <1>4
<1> QED BY <1>1, <1>5, <1>6

\* A coordinator's step keeps the files apart, late commits included.
LEMMA FileStep ==
  ASSUME FileInv, ~Fresh, NEW h \in Holders, Step(h) \/ StartRenew(h) \/ Fault(h)
  PROVE  SeenIsLive' /\ LateApart'
<1>1. TypeOK /\ SeenIsLive /\ LateApart
  BY DEF FileInv, RowInv
<1>2. PICK r0 \in rows : rows = {r0}
  BY DEF FileInv, RowInv, OneLiveRow
<1>3. \A g \in Holders : \A s \in op'[g].seen : s \in op[g].seen \/ (Load(h) /\ s \in rows)
  <2>1. CASE Load(h)
    <3>1. op'[h].seen = rows
      BY <2>1, <1>1 DEF Load, Op, TypeOK
    <3> QED BY <2>1, <3>1, <1>1, OpStep
  <2>2. CASE ~Load(h)
    BY <2>2, <1>1, OpStep
  <2> QED BY <2>1, <2>2
<1>4. Load(h) => rows' = rows /\ late' = late
  BY DEF Load
<1>5. \A r \in rows' : r \in rows \/ (Writes(h) /\ r = NewRow(h))
  BY RowsStep DEF Replace
<1>6. \A c \in late' : c \in late \/ (Writes(h) /\ c.row = NewRow(h))
  <2> DEFINE n == [targets |-> PathsOf(op[h].seen), row |-> NewRow(h)]
  <2>1. late' = late \/ (Writes(h) /\ late' = late \cup {n})
    BY RowsStep
  <2>2. n.row = NewRow(h)
    OBVIOUS
  <2> HIDE DEF n
  <2> QED BY <2>1, <2>2
<1>7. Load(h) => ~\E r \in rows' : r \notin rows
  BY <1>4
<1>8. SeenIsLive'
  <2> SUFFICES ASSUME NEW g \in Holders, NEW s \in op'[g].seen, NEW r \in rows',
                      s.path = r.path
               PROVE  s = r
    BY DEF SeenIsLive
  <2>1. CASE s \in op[g].seen
    <3>1. CASE r \in rows
      BY <2>1, <3>1, <1>1 DEF SeenIsLive
    <3>2. CASE Writes(h) /\ r = NewRow(h)
      BY <2>1, <3>2, <1>1, WriteUnseen
    <3> QED BY <3>1, <3>2, <1>5
  <2>2. CASE Load(h) /\ s \in rows
    BY <2>2, <1>2, <1>4
  <2> QED BY <2>1, <2>2, <1>3
<1>9. LateApart'
  <2> SUFFICES ASSUME NEW c \in late'
               PROVE  /\ \A r \in rows' : r.path # c.row.path
                      /\ \A g \in Holders : \A s \in op'[g].seen : s.path # c.row.path
                      /\ \A d \in late' : d.row.path = c.row.path => d = c
    BY DEF LateApart
  <2>1. \A r \in rows' : r.path # c.row.path
    <3>1. CASE c \in late
      BY <3>1, <1>1, <1>5, WriteApart DEF LateApart
    <3>2. CASE c \notin late
      <4>1. Writes(h) /\ c.row = NewRow(h) /\ late' # late
        BY <3>2, <1>6
      <4>2. rows' = rows
        BY <4>1 DEF Step, Fault, StartRenew, Load, Commit, Lose, Skip, Reacquire, NotOurs,
                    StartAcquire, Finish, Conflict, Exhausted, Fail, LostReply, Delay, Crash,
       Unreadable
      <4> QED BY <4>1, <4>2, <1>1, WriteApart
    <3> QED BY <3>1, <3>2
  <2>2. \A g \in Holders : \A s \in op'[g].seen : s.path # c.row.path
    <3> SUFFICES ASSUME NEW g \in Holders, NEW s \in op'[g].seen
                 PROVE  s.path # c.row.path
      OBVIOUS
    <3>1. CASE c \in late
      BY <3>1, <1>1, <1>3 DEF LateApart
    <3>2. CASE c \notin late
      <4>1. Writes(h) /\ c.row = NewRow(h) /\ ~Load(h)
        BY <3>2, <1>4, <1>6
      <4> QED BY <4>1, <1>1, <1>3, WriteUnseen
    <3> QED BY <3>1, <3>2
  <2>3. \A d \in late' : d.row.path = c.row.path => d = c
    <3> DEFINE n == [targets |-> PathsOf(op[h].seen), row |-> NewRow(h)]
    <3>1. late' = late \/ (Writes(h) /\ late' = late \cup {n})
      BY RowsStep
    <3>2. n.row = NewRow(h)
      OBVIOUS
    <3> HIDE DEF n
    <3> QED BY <3>1, <3>2, <1>1, WriteApart DEF LateApart
  <2> QED BY <2>1, <2>2, <2>3
<1> QED BY <1>8, <1>9

\* So does a late commit that lands.
LEMMA FileNext ==
  ASSUME ~Fresh
  PROVE  FileInv /\ [Next]_vars => FileInv'
<1> SUFFICES ASSUME FileInv, [Next]_vars PROVE FileInv'
  OBVIOUS
<1>1. RowInv'
  BY RowNext DEF FileInv
<1>2. CASE \E h \in Holders : Step(h) \/ StartRenew(h) \/ Fault(h)
  BY <1>1, <1>2, FileStep DEF FileInv
<1>3. ASSUME NEW c \in late, Land(c)
      PROVE  SeenIsLive' /\ LateApart'
  <2>1. op' = op /\ late' = late \ {c}
    BY <1>3 DEF Land
  <2>2. \A r \in rows' : r \in rows \/ r = c.row
    BY <1>3 DEF Land, Replace
  <2>3. SeenIsLive'
    BY <2>1, <2>2 DEF FileInv, SeenIsLive, LateApart
  <2>4. LateApart'
    <3> SUFFICES ASSUME NEW d \in late \ {c}
                 PROVE  /\ \A r \in rows' : r.path # d.row.path
                        /\ \A g \in Holders : \A s \in op[g].seen : s.path # d.row.path
                        /\ \A e \in late \ {c} : e.row.path = d.row.path => e = d
      BY <2>1 DEF LateApart
    <3>1. c.row.path # d.row.path
      BY DEF FileInv, LateApart
    <3> QED BY <2>2, <3>1 DEF FileInv, LateApart
  <2> QED BY <2>3, <2>4
<1>4. CASE Tick
  BY <1>1, <1>4 DEF Tick, FileInv, SeenIsLive, LateApart
<1>5. CASE UNCHANGED vars
  BY <1>1, <1>5 DEF vars, FileInv, SeenIsLive, LateApart
<1> QED BY <1>1, <1>2, <1>3, <1>4, <1>5 DEF Next, FileInv

\* It holds at the start.
LEMMA FileInit == Init => FileInv
BY LeaseInit, RowInit DEF Init, LeaseInv, FileInv, LateApart

\* A step out of a release takes nobody else's claim away: what it deletes
\* is what it read, which is its own claim.
LEMMA ReleaseStep ==
  ASSUME ~Fresh, FileInv, [Next]_vars, NEW h \in Holders,
         phase[h] = "release", phase'[h] # "release",
         NEW r \in rows, r.holder # h
  PROVE  r \in rows'
<1>1. TypeOK /\ SeenOne /\ SeenIsLive
  BY DEF FileInv, RowInv
<1>2. PICK g \in Holders : Step(g) \/ StartRenew(g) \/ Fault(g)
  BY DEF Next, Land, Tick, vars
<1>3. g = h
  BY <1>1, <1>2, OpStep
<1>4. CASE rows' = rows
  BY <1>4
<1>5. CASE Writes(h) /\ Applies(PathsOf(op[h].seen))
  <2>1. PICK s \in Rows : op[h].seen = {s}
    BY <1>1, <1>5 DEF SeenOne, Writes
  <2>2. s.holder = h
    BY <1>5, <2>1 DEF Writes, StillOurs, Current
  <2>3. \E q \in rows : q.path = s.path
    BY <1>5, <2>1 DEF Applies, PathsOf
  <2>4. rows = {r}
    BY DEF FileInv, RowInv, OneLiveRow
  <2>5. s = r
    BY <2>1, <2>3, <2>4, <1>1 DEF SeenIsLive
  <2> QED BY <2>2, <2>5
<1> QED BY <1>2, <1>3, <1>4, <1>5, RowsStep

\* ReleaseSparesOthers: release finds its claim stolen, or deletes its own
\* and no other, also while commits of unknown outcome are still on their
\* way, once the job_key has its first row.
THEOREM ReleasesOnlyItsOwn ==
  ASSUME ~Fresh
  PROVE  Spec => ReleaseSparesOthers
<1>1. FileInv /\ [Next]_vars
        => [\A h \in Holders :
              phase[h] = "release" /\ phase'[h] # "release"
                => \A r \in rows : r.holder # h /\ ~r.released /\ now < r.exp
                                     => r \in rows']_vars
  BY ReleaseStep
<1>2. Spec => []FileInv
  BY FileInit, FileNext, PTL DEF Spec
<1> QED BY <1>1, <1>2, PTL DEF Spec, ReleaseSparesOthers

-----------------------------------------------------------------------------
(* The cell. *)

\* Every operation started in the past, and no claim, live or on its way,
\* outlasts TTL from now.
OnTime ==
  /\ \A h \in Holders : op[h].now <= now
  /\ \A r \in rows : r.exp <= now + TTL
  /\ \A c \in late : c.row.exp <= now + TTL

\* What an operation writes lasts at least as long as every claim of its
\* coordinator, those of its earlier operations on their way included.
OwnEarlier ==
  \A h \in Holders : phase[h] \in Operations =>
    /\ \A r \in rows : r.holder = h => r.exp <= op[h].now + TTL
    /\ \A c \in late : c.row.holder = h => c.row.exp <= op[h].now + TTL

\* Row n may take the place of r: a claim that of a free or expired one, a
\* renewal or a release that of its own writer's.
MayFollow(r, n) ==
  \/ ~n.released /\ TTL <= n.exp /\ Acquirable(r, now)
  \/ r.holder = n.holder /\ ~r.released /\ (n.released \/ r.exp <= n.exp)

\* A commit on its way may replace the row it read, if that is still there,
\* and waits for no file that is not there yet.
LateFollows ==
  \A c \in late :
    /\ c.row.holder \in Holders
    /\ \A r \in rows : r.path \in c.targets => MayFollow(r, c.row)
    /\ \A d \in late : d.row.path \notin c.targets

CellInv == FileInv /\ OnTime /\ OwnEarlier /\ LateFollows

\* When the operation of a coordinator started, after a step of it, and that
\* a write ends it.
LEMMA PhaseStep ==
  ASSUME TypeOK, NEW h \in Holders, Step(h) \/ StartRenew(h) \/ Fault(h)
  PROVE  /\ op'[h].now \in {0, now, op[h].now}
         /\ phase'[h] \in Operations =>
              \/ op'[h].now = now
              \/ phase[h] \in Operations /\ op'[h].now = op[h].now
         /\ rows' # rows \/ late' # late => phase'[h] \notin Operations
<1> USE DEF TypeOK
<1>1. ASSUME NEW t, NEW n, NEW loaded, NEW seen,
             op' = [op EXCEPT ![h] = Op(t, n, loaded, seen)]
      PROVE  op'[h].now = t
  BY <1>1 DEF Op
<1>2. ASSUME NEW next, Settled(h, next)
      PROVE  op'[h].now = 0 /\ phase'[h] = next
  BY <1>1, <1>2 DEF Settled
<1>3. ASSUME NEW o, Start(h, o), rows' = rows, late' = late
      PROVE  /\ op'[h].now = now
             /\ ~(rows' # rows \/ late' # late)
  BY <1>1, <1>3 DEF Start
<1>4. "idle" \notin Operations /\ "work" \notin Operations /\ "down" \notin Operations
  BY DEF Operations
<1>5. CASE Load(h)
  <2>1. op'[h].now = op[h].now
    BY <1>1, <1>5 DEF Load
  <2> QED BY <2>1, <1>5 DEF Load
<1>6. CASE Conflict(h)
  <2>1. op'[h].now = op[h].now
    BY <1>1, <1>6 DEF Conflict
  <2> QED BY <2>1, <1>6 DEF Conflict
<1>7. CASE StartAcquire(h) \/ StartRenew(h)
  <2>1. rows' = rows /\ late' = late /\ \E o : Start(h, o)
    BY <1>7 DEF StartAcquire, StartRenew
  <2> QED BY <2>1, <1>3
<1>8. CASE Settled(h, "idle") \/ Settled(h, "work") \/ Settled(h, "down")
  BY <1>8, <1>2, <1>4
<1>9. CASE Finish(h)
  <2>1. rows' = rows /\ late' = late /\ (Start(h, "release") \/ Settled(h, "idle"))
    BY <1>9 DEF Finish
  <2> QED BY <2>1, <1>3, <1>8
<1>10. CASE Commit(h) \/ Lose(h) \/ Skip(h) \/ Reacquire(h) \/ NotOurs(h)
            \/ Exhausted(h) \/ Fail(h) \/ LostReply(h) \/ Delay(h) \/ Crash(h)
            \/ Unreadable(h)
  BY <1>10, <1>8 DEF Commit, Lose, Skip, Reacquire, NotOurs, Exhausted, Fail,
     LostReply, Delay, Crash, Unreadable, AfterError, GiveUp
<1> QED BY <1>5, <1>6, <1>7, <1>9, <1>10 DEF Step, Fault

\* A write in progress may follow the row it read, and lasts no longer than
\* it may.
LEMMA WriteFollows ==
  ASSUME CellInv, ~Fresh, NEW h \in Holders, Writes(h)
  PROVE  /\ NewRow(h) \in Rows /\ NewRow(h).holder = h
         /\ NewRow(h).exp <= now + TTL
         /\ \A r \in rows : r.path \in PathsOf(op[h].seen) => MayFollow(r, NewRow(h))
<1>1. TypeOK /\ SeenOne /\ SeenIsLive
  BY DEF CellInv, FileInv, RowInv
<1>2. /\ NewRow(h) \in Rows /\ NewRow(h).holder = h
      /\ NewRow(h).exp <= op[h].now + TTL
      /\ phase[h] # "release" => ~NewRow(h).released /\ NewRow(h).exp = op[h].now + TTL
  BY <1>1, NewRowType DEF Writes
<1>3. op[h].now \in Nat /\ now \in Nat /\ op[h].now <= now /\ TTL \in Nat
  BY <1>1, OpParts, LeaseConstants DEF TypeOK, CellInv, OnTime
<1>4. NewRow(h).exp <= now + TTL
  BY <1>2, <1>3, RowParts
<1>5. ASSUME NEW r \in rows, r.path \in PathsOf(op[h].seen)
      PROVE  MayFollow(r, NewRow(h))
  <2>1. PICK s \in Rows : op[h].seen = {s}
    BY <1>1 DEF SeenOne, Writes
  <2>2. r = s /\ r \in Rows
    BY <2>1, <1>1, <1>5 DEF SeenIsLive, PathsOf
  <2>3. CASE phase[h] = "acquire"
    <3>1. \E q \in Latest(op[h].seen) : Acquirable(q, op[h].now)
      BY <2>1, <2>3 DEF Writes
    <3>2. Acquirable(r, op[h].now)
      BY <3>1, <2>1, <2>2 DEF Latest
    <3>3. Acquirable(r, now)
      BY <3>2, <2>2, <1>3, RowParts DEF Acquirable
    <3>4. ~NewRow(h).released /\ TTL <= NewRow(h).exp
      BY <2>3, <1>2, <1>3
    <3> QED BY <3>3, <3>4 DEF MayFollow
  <2>4. CASE phase[h] \in {"renew", "release"}
    <3>1. r.holder = h /\ ~r.released
      BY <2>1, <2>2, <2>4 DEF Writes, StillOurs, Current
    <3>2. phase[h] \in Operations
      BY <2>4 DEF Operations
    <3>3. r.exp <= op[h].now + TTL
      BY <3>1, <3>2, <1>5 DEF CellInv, OwnEarlier
    <3>4. CASE phase[h] = "renew"
      BY <3>1, <3>3, <3>4, <1>2 DEF MayFollow
    <3>5. CASE phase[h] = "release"
      <4>1. NewRow(h).released
        BY <3>5 DEF NewRow, Row
      <4> QED BY <3>1, <4>1, <1>2 DEF MayFollow
    <3> QED BY <2>4, <3>4, <3>5
  <2> QED BY <2>3, <2>4 DEF Writes
<1> QED BY <1>2, <1>4, <1>5

\* No commit on its way waits for a file that is being written.
LEMMA WriteUnwaited ==
  ASSUME TypeOK, NEW k \in Holders, Writes(k)
  PROVE  \A c \in late : NewRow(k).path \notin c.targets
<1>1. NewRow(k).path = FreshPath /\ FreshPath \notin InUse
  BY NewRowType, FreshIsFresh DEF Writes
<1> DEFINE L == UNION {c.targets \cup {c.row.path} : c \in late}
<1>2. \A c \in late : c.targets \subseteq L
  OBVIOUS
<1>3. L \subseteq InUse
  BY DEF InUse
<1> HIDE DEF L
<1> QED BY <1>1, <1>2, <1>3

\* A coordinator's step keeps the invariant.
LEMMA CellStep ==
  ASSUME CellInv, ~Fresh, NEW h \in Holders, Step(h) \/ StartRenew(h) \/ Fault(h)
  PROVE  OnTime' /\ OwnEarlier' /\ LateFollows'
<1> DEFINE n == [targets |-> PathsOf(op[h].seen), row |-> NewRow(h)]
<1>1. TypeOK /\ SeenIsLive /\ LateApart /\ OnTime /\ OwnEarlier /\ LateFollows
  BY DEF CellInv, FileInv, RowInv
<1>2. /\ \A g \in Holders \ {h} : op'[g] = op[g] /\ phase'[g] = phase[g]
      /\ op'[h].now \in {0, now, op[h].now}
      /\ phase'[h] \in Operations =>
           \/ op'[h].now = now
           \/ phase[h] \in Operations /\ op'[h].now = op[h].now
      /\ rows' # rows \/ late' # late => phase'[h] \notin Operations
  BY <1>1, OpStep, PhaseStep
<1>3. now' = now /\ now \in Nat /\ TTL \in Nat /\ op[h].now \in Nat
  BY <1>1, RowsStep, OpParts, LeaseConstants DEF TypeOK
<1>4. \A r \in rows' : r \in rows \/ (Writes(h) /\ r = NewRow(h))
  BY RowsStep DEF Replace
<1>5. \/ late' = late
      \/ Writes(h) /\ late' = late \cup {n} /\ rows' = rows
  <2>1. late' # late => Delay(h)
    BY DEF Step, Fault, StartRenew, Load, Commit, Lose, Skip, Reacquire, NotOurs,
           StartAcquire, Finish, Conflict, Exhausted, Fail, LostReply, Crash,
           Unreadable
  <2> QED BY <2>1 DEF Delay
<1>6. n.row = NewRow(h) /\ n.targets = PathsOf(op[h].seen)
  OBVIOUS
<1> HIDE DEF n
<1>7. \A c \in late' : c \in late \/ (Writes(h) /\ c = n /\ rows' = rows)
  BY <1>5
<1>8. Writes(h) => /\ NewRow(h).holder = h
                   /\ NewRow(h).exp <= now + TTL
                   /\ \A r \in rows : r.path \in PathsOf(op[h].seen)
                                        => MayFollow(r, NewRow(h))
                   /\ \A c \in late : NewRow(h).path \notin c.targets
                   /\ \A r \in op[h].seen : r.path # NewRow(h).path
  BY <1>1, WriteFollows, WriteUnwaited, WriteUnseen
<1>9. OnTime'
  <2>1. \A g \in Holders : op'[g].now <= now
    <3> SUFFICES ASSUME NEW g \in Holders PROVE op'[g].now <= now
      OBVIOUS
    <3>1. CASE g # h
      BY <3>1, <1>1, <1>2 DEF OnTime
    <3>2. CASE g = h
      BY <3>2, <1>1, <1>2, <1>3 DEF OnTime
    <3> QED BY <3>1, <3>2
  <2>2. \A r \in rows' : r.exp <= now + TTL
    BY <1>1, <1>4, <1>8 DEF OnTime
  <2>3. \A c \in late' : c.row.exp <= now + TTL
    BY <1>1, <1>6, <1>7, <1>8 DEF OnTime
  <2> QED BY <2>1, <2>2, <2>3, <1>3 DEF OnTime
<1>10. OwnEarlier'
  <2> SUFFICES ASSUME NEW g \in Holders, phase'[g] \in Operations
               PROVE  /\ \A r \in rows' : r.holder = g => r.exp <= op'[g].now + TTL
                      /\ \A c \in late' : c.row.holder = g
                                            => c.row.exp <= op'[g].now + TTL
    BY DEF OwnEarlier
  <2>1. CASE g # h
    <3>1. phase[g] \in Operations /\ op'[g] = op[g]
      BY <2>1, <1>2
    <3>2. \A r \in rows' : r.holder = g => r \in rows
      BY <2>1, <1>4, <1>8
    <3>3. \A c \in late' : c.row.holder = g => c \in late
      BY <2>1, <1>6, <1>7, <1>8
    <3> QED BY <3>1, <3>2, <3>3, <1>1 DEF OwnEarlier
  <2>2. CASE g = h
    <3>1. rows' = rows /\ late' = late
      BY <2>2, <1>2
    <3>2. CASE op'[h].now = now
      BY <2>2, <3>1, <3>2, <1>1 DEF OnTime
    <3>3. CASE phase[h] \in Operations /\ op'[h].now = op[h].now
      BY <2>2, <3>1, <3>3, <1>1 DEF OwnEarlier
    <3> QED BY <2>2, <3>2, <3>3, <1>2
  <2> QED BY <2>1, <2>2
<1>11. LateFollows'
  <2> SUFFICES ASSUME NEW c \in late'
               PROVE  /\ c.row.holder \in Holders
                      /\ \A r \in rows' : r.path \in c.targets => MayFollow(r, c.row)
                      /\ \A d \in late' : d.row.path \notin c.targets
    BY <1>3 DEF LateFollows, MayFollow
  <2>1. CASE c \in late
    <3>1. \A r \in rows' : r.path \in c.targets => MayFollow(r, c.row)
      BY <2>1, <1>1, <1>4, <1>8 DEF LateFollows
    <3>2. \A d \in late' : d.row.path \notin c.targets
      BY <2>1, <1>1, <1>6, <1>7, <1>8 DEF LateFollows
    <3> QED BY <2>1, <3>1, <3>2, <1>1 DEF LateFollows
  <2>2. CASE c \notin late
    <3>1. Writes(h) /\ c = n /\ rows' = rows
      BY <2>2, <1>7
    <3>2. \A d \in late' : d.row.path \notin PathsOf(op[h].seen)
      <4> SUFFICES ASSUME NEW d \in late', NEW s \in op[h].seen
                   PROVE  d.row.path # s.path
        BY DEF PathsOf
      <4>1. CASE d \in late
        BY <4>1, <1>1 DEF LateApart
      <4>2. CASE d = n
        BY <4>2, <3>1, <1>6, <1>8
      <4> QED BY <4>1, <4>2, <1>7
    <3> QED BY <3>1, <3>2, <1>6, <1>8
  <2> QED BY <2>1, <2>2
<1> QED BY <1>9, <1>10, <1>11

\* So do a late commit that lands, and the clock.
LEMMA CellNext ==
  ASSUME ~Fresh
  PROVE  CellInv /\ [Next]_vars => CellInv'
<1> SUFFICES ASSUME CellInv, [Next]_vars PROVE CellInv'
  OBVIOUS
<1>1. FileInv'
  BY FileNext DEF CellInv
<1>2. TypeOK /\ LateApart /\ OnTime /\ OwnEarlier /\ LateFollows
  BY DEF CellInv, FileInv, RowInv
<1>3. CASE \E h \in Holders : Step(h) \/ StartRenew(h) \/ Fault(h)
  BY <1>1, <1>3, CellStep DEF CellInv
<1>4. ASSUME NEW c \in late, Land(c)
      PROVE  OnTime' /\ OwnEarlier' /\ LateFollows'
  <2>1. op' = op /\ phase' = phase /\ now' = now /\ late' = late \ {c}
    BY <1>4 DEF Land
  <2>2. \A r \in rows' : r \in rows \/ r = c.row
    BY <1>4 DEF Land, Replace
  <2>3. OnTime'
    BY <2>1, <2>2, <1>2 DEF OnTime
  <2>4. OwnEarlier'
    BY <2>1, <2>2, <1>2 DEF OwnEarlier
  <2>5. LateFollows'
    <3> SUFFICES ASSUME NEW d \in late \ {c}
                 PROVE  /\ d.row.holder \in Holders
                        /\ \A r \in rows' : r.path \in d.targets => MayFollow(r, d.row)
                        /\ \A e \in late \ {c} : e.row.path \notin d.targets
      BY <2>1 DEF LateFollows, MayFollow
    <3>1. c.row.path \notin d.targets
      BY <1>2 DEF LateFollows
    <3> QED BY <2>2, <3>1, <1>2 DEF LateFollows
  <2> QED BY <2>3, <2>4, <2>5
<1>5. CASE Tick
  <2>1. now' = now + 1 /\ rows' = rows /\ late' = late /\ op' = op /\ phase' = phase
    BY <1>5 DEF Tick
  <2>2. now \in Nat /\ TTL \in Nat /\ \A h \in Holders : op[h].now \in Nat
    BY <1>2, OpParts, LeaseConstants DEF TypeOK
  <2>3. \A r \in Rows : r.exp \in Nat
    BY RowParts
  <2>4. rows \subseteq Rows /\ \A c \in late : c.row \in Rows
    BY <1>2 DEF TypeOK, Commits
  <2>5. OnTime'
    <3>1. ASSUME NEW t \in Nat, t <= now + TTL PROVE t <= now' + TTL
      BY <3>1, <2>1, <2>2
    <3>2. \A h \in Holders : op[h].now <= now'
      BY <1>2, <2>1, <2>2 DEF OnTime
    <3> QED BY <3>1, <3>2, <1>2, <2>1, <2>3, <2>4 DEF OnTime
  <2>6. OwnEarlier'
    BY <1>2, <2>1 DEF OwnEarlier
  <2>7. LateFollows'
    <3>1. ASSUME NEW r \in rows, Acquirable(r, now) PROVE Acquirable(r, now')
      BY <3>1, <2>1, <2>2, <2>3, <2>4 DEF Acquirable
    <3>2. ASSUME NEW r \in rows, NEW m, MayFollow(r, m)
          PROVE  \/ ~m.released /\ TTL <= m.exp /\ Acquirable(r, now')
                 \/ r.holder = m.holder /\ ~r.released /\ (m.released \/ r.exp <= m.exp)
      BY <3>1, <3>2 DEF MayFollow
    <3>3. \A r \in rows, c \in late : r.path \in c.targets => MayFollow(r, c.row)
      BY <1>2 DEF LateFollows
    <3>4. \A r \in rows, c \in late : r.path \in c.targets => MayFollow(r, c.row)'
      BY <3>2, <3>3, <2>1 DEF MayFollow, Acquirable
    <3> QED BY <3>4, <1>2, <2>1 DEF LateFollows, MayFollow, Acquirable
  <2> QED BY <1>1, <2>5, <2>6, <2>7 DEF CellInv
<1>6. CASE UNCHANGED vars
  BY <1>1, <1>2, <1>6 DEF vars, CellInv, OnTime, OwnEarlier, LateFollows, MayFollow,
     Acquirable
<1> QED BY <1>1, <1>3, <1>4, <1>5, <1>6 DEF Next, CellInv

\* It holds at the start.
LEMMA CellInit == Init => CellInv
<1> SUFFICES ASSUME Init PROVE CellInv
  OBVIOUS
<1>1. LeaseInv /\ FileInv
  BY LeaseInit, FileInit
<1>2. late = {} /\ \A h \in Holders : phase[h] = "idle"
  BY DEF Init
<1>3. OnTime
  BY <1>1, <1>2 DEF LeaseInv, ClockInv, ExpiryInv, OnTime
<1>4. OwnEarlier
  BY <1>2 DEF OwnEarlier, Operations
<1> QED BY <1>1, <1>2, <1>3, <1>4 DEF CellInv, LateFollows

\* The claim of a table with one row.
LEMMA ClaimOf ==
  ASSUME NEW r, rows = {r}
  PROVE  LiveClaim = IF r.released THEN Cell!Free ELSE Cell!Claim(r.holder, r.exp)
<1>1. (CHOOSE q \in rows : TRUE) = r
  OBVIOUS
<1> QED BY <1>1 DEF LiveClaim, Cell!Free, Cell!Claim

\* A row that may follow the live one moves the cell by one of its actions.
LEMMA FollowingIsStep ==
  ASSUME TypeOK, NEW r \in Rows, NEW n \in Rows, rows = {r}, rows' = {n},
         MayFollow(r, n), n.holder \in Holders, n.exp <= now + TTL, now' = now
  PROVE  Cell!Next
<1> DEFINE h == n.holder
<1>1. /\ LiveClaim = IF r.released THEN Cell!Free ELSE Cell!Claim(r.holder, r.exp)
      /\ LiveClaim' = IF n.released THEN Cell!Free ELSE Cell!Claim(n.holder, n.exp)
  <2>1. LiveClaim' = LET q == CHOOSE q \in rows' : TRUE
                     IN  IF q.released THEN [holder |-> NoHolder, exp |-> 0]
                         ELSE [holder |-> q.holder, exp |-> q.exp]
    BY DEF LiveClaim
  <2>2. (CHOOSE q \in rows' : TRUE) = n
    OBVIOUS
  <2>3. LiveClaim' = IF n.released THEN Cell!Free ELSE Cell!Claim(n.holder, n.exp)
    BY <2>1, <2>2 DEF Cell!Free, Cell!Claim
  <2> QED BY <2>3, ClaimOf
<1>2. now \in Nat /\ TTL \in Nat /\ r.exp \in Nat /\ n.exp \in Nat
  BY RowParts, LeaseConstants DEF TypeOK
<1>3. CASE ~n.released /\ TTL <= n.exp /\ Acquirable(r, now)
  <2>1. LiveClaim.exp <= now
    <3>1. CASE r.released
      <4>1. LiveClaim.exp = 0
        BY <3>1, <1>1 DEF Cell!Free, Cell!Claim
      <4> QED BY <4>1, <1>2
    <3>2. CASE ~r.released
      <4>1. LiveClaim.exp = r.exp
        BY <3>2, <1>1 DEF Cell!Claim
      <4> QED BY <4>1, <3>2, <1>2, <1>3 DEF Acquirable
    <3> QED BY <3>1, <3>2
  <2>2. n.exp \in TTL..(now + TTL) /\ LiveClaim' = Cell!Claim(h, n.exp)
    BY <1>1, <1>2, <1>3
  <2>3. Cell!Take(h)
    BY <2>1, <2>2 DEF Cell!Take
  <2> QED BY <2>3 DEF Cell!Next
<1>4. CASE r.holder = n.holder /\ ~r.released
  <2>1. LiveClaim = Cell!Claim(h, r.exp)
    BY <1>1, <1>4
  <2>2. LiveClaim.holder = h /\ LiveClaim.exp = r.exp
    BY <2>1 DEF Cell!Claim
  <2>3. CASE n.released
    <3>1. Cell!Release(h)
      BY <2>2, <2>3, <1>1 DEF Cell!Release
    <3> QED BY <3>1 DEF Cell!Next
  <2>4. CASE ~n.released /\ r.exp <= n.exp
    <3>1. n.exp \in LiveClaim.exp..(now + TTL)
      BY <2>2, <2>4, <1>2
    <3>2. LiveClaim' = Cell!Claim(h, n.exp)
      BY <2>4, <1>1
    <3>3. Cell!Extend(h)
      BY <2>2, <3>1, <3>2 DEF Cell!Extend
    <3> QED BY <3>3 DEF Cell!Next
  <2>5. CASE ~n.released /\ ~(r.exp <= n.exp)
    BY <2>5, <1>3 DEF MayFollow
  <2> QED BY <2>3, <2>4, <2>5
<1> QED BY <1>3, <1>4 DEF MayFollow

\* Every step of the protocol is a step of the cell, or leaves it alone.
LEMMA StepOfCell ==
  ASSUME ~Fresh, CellInv, TypeOK', [Next]_vars
  PROVE  [Cell!Next]_<<LiveClaim, now>>
<1>1. TypeOK /\ LateDeletes /\ OnTime /\ LateFollows /\ rows \subseteq Rows
  BY DEF CellInv, FileInv, RowInv, TypeOK
<1>2. PICK r \in Rows : rows = {r}
  BY <1>1 DEF CellInv, FileInv, RowInv, OneLiveRow
<1>3. CASE rows' = rows /\ now' = now
  BY <1>3 DEF LiveClaim
<1>4. ASSUME NEW h \in Holders, Step(h) \/ StartRenew(h) \/ Fault(h), rows' # rows
      PROVE  Cell!Next
  <2>1. /\ Writes(h) /\ Applies(PathsOf(op[h].seen))
        /\ Replace(PathsOf(op[h].seen), NewRow(h))
        /\ now' = now
    BY <1>4, RowsStep
  <2>2. PathsOf(op[h].seen) # {}
    BY <2>1 DEF CellInv, FileInv, RowInv, SeenOne, Writes, PathsOf
  <2>3. rows' = {NewRow(h)} /\ PathsOf(op[h].seen) = {r.path}
    BY <2>1, <2>2, <1>2, ReplaceOne
  <2>4. /\ NewRow(h) \in Rows /\ NewRow(h).holder = h
        /\ NewRow(h).exp <= now + TTL
        /\ MayFollow(r, NewRow(h))
    BY <2>1, <2>3, <1>2, WriteFollows
  <2> QED BY <2>1, <2>3, <2>4, <1>1, <1>2, FollowingIsStep
<1>5. ASSUME NEW c \in late, Land(c), rows' # rows
      PROVE  Cell!Next
  <2>1. Applies(c.targets) /\ Replace(c.targets, c.row) /\ c.targets # {} /\ now' = now
    BY <1>1, <1>5 DEF Land, LateDeletes
  <2>2. rows' = {c.row} /\ c.targets = {r.path}
    BY <2>1, <1>2, ReplaceOne
  <2>3. /\ c.row \in Rows /\ c.row.holder \in Holders
        /\ c.row.exp <= now + TTL
        /\ MayFollow(r, c.row)
    BY <2>2, <1>1, <1>2 DEF TypeOK, Commits, OnTime, LateFollows
  <2> QED BY <2>1, <2>2, <2>3, <1>1, <1>2, FollowingIsStep
<1>6. CASE Tick
  <2>1. now < MaxTime /\ now' = now + 1 /\ rows' = rows
    BY <1>6 DEF Tick
  <2>2. LiveClaim' = LiveClaim
    BY <2>1 DEF LiveClaim
  <2> QED BY <2>1, <2>2 DEF Cell!Next, Cell!Tick
<1>7. \/ rows' = rows /\ now' = now
      \/ \E h \in Holders : (Step(h) \/ StartRenew(h) \/ Fault(h)) /\ rows' # rows
      \/ \E c \in late : Land(c) /\ rows' # rows
      \/ Tick
  BY RowsStep DEF Next, Land, vars
<1> QED BY <1>3, <1>4, <1>5, <1>6, <1>7

\* ImplementsLeaseCell: the lease rows of a job_key that was claimed before
\* are one cell that changes hands in one step, for any number of
\* coordinators, any lost answers, any stops, and commits that land at any
\* time after their caller was told that they failed.
THEOREM LeaseIsACell ==
  ASSUME ~Fresh
  PROVE  Spec => ImplementsLeaseCell
<1>1. Init => Cell!Init
  <2> SUFFICES ASSUME Init PROVE LiveClaim = Cell!Free /\ now = 0
    BY DEF Cell!Init
  <2>1. PICK p \in Paths : rows = {Row(NoHolder, 0, 0, TRUE, p)}
    BY LeaseConstants DEF Init
  <2>2. Row(NoHolder, 0, 0, TRUE, p).released = TRUE
    BY DEF Row
  <2> QED BY <2>1, <2>2, ClaimOf DEF Init
<1>3. CellInv /\ CellInv' /\ [Next]_vars => [Cell!Next]_<<LiveClaim, now>>
  <2>1. CellInv' => TypeOK'
    BY DEF CellInv, FileInv, RowInv
  <2> QED BY <2>1, StepOfCell
<1> QED BY <1>1, <1>3, CellInit, CellNext, PTL DEF Spec, ImplementsLeaseCell, Cell!Spec
=============================================================================
