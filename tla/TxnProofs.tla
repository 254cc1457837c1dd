----------------------------- MODULE TxnProofs -----------------------------
(***************************************************************************)
(* Theorems about Txn for every set of transactions, tables and requests:  *)
(* its types, the branches and main, the end of a transaction, and what    *)
(* COMMIT publishes.                                                       *)
(***************************************************************************)
EXTENDS Txn, TLAPS

\* A request that is past its first step carries a transaction and a table,
\* or a transaction and a prepared commit.
LEMMA RequestTypes ==
  ASSUME TypeOK, NEW p \in Procs
  PROVE  /\ req[p] = Idle => req[p].pc = "idle"
         /\ req[p].pc \in StatementSteps => req[p] \in Statements
         /\ req[p].pc \in EndSteps => req[p] \in Ends
         /\ req[p].pc = "idle" \/ req[p].pc \in StatementSteps
            \/ req[p].pc \in EndSteps
<1>1. req[p] \in {Idle} \cup Statements \cup Ends
  BY DEF TypeOK
<1>2. Idle.pc = "idle"
  BY DEF Idle
<1>3. \A r \in Statements : r.pc \in StatementSteps
  BY DEF Statements
<1>4. \A r \in Ends : r.pc \in EndSteps
  BY DEF Ends
<1> QED
  BY <1>1, <1>2, <1>3, <1>4 DEF StatementSteps, EndSteps

\* What the constructors build.
LEMMA StatementAtType ==
  ASSUME NEW step \in StatementSteps, NEW x \in Txns, NEW t \in Tables,
         NEW w \in Writes, NEW seen \in SUBSET Writes, NEW cand \in SUBSET Writes
  PROVE  StatementAt(step, x, t, w, seen, cand) \in Statements
BY DEF StatementAt, Statements

LEMMA EndAtType ==
  ASSUME NEW step \in EndSteps, NEW x \in Txns,
         NEW heads \in [Tables -> SUBSET Writes], NEW n \in 1..MaxAttempts
  PROVE  EndAt(step, x, heads, n) \in Ends
BY DEF EndAt, Ends

LEMMA NoTablesType == NoTables \in [Tables -> SUBSET Writes]
BY DEF NoTables

LEMMA InitTypeOK == Init => TypeOK
  BY TxnConstants DEF Init, TypeOK, NoTables, Writes, Writers, Outcomes, Replies

LEMMA StatementType ==
  ASSUME TypeOK, NEW p \in Procs, NEW x \in Txns, NEW t \in Tables,
         Statement(p, x, t)
  PROVE  TypeOK'
<1>1. req'[p] \in Statements /\ req' \in [Procs -> {Idle} \cup Statements \cup Ends]
  <2>1. writes[x] \in 0..MaxWrites /\ writes[x] < MaxWrites
    BY DEF TypeOK, Statement, Writers
  <2>2. <<x, writes[x] + 1>> \in Writes
    BY <2>1, TxnConstants DEF Writes, Writers
  <2>3. StatementAt("plan", x, t, <<x, writes[x] + 1>>, {}, {}) \in Statements
    BY <2>2, StatementAtType DEF StatementSteps
  <2> QED
    BY <2>3 DEF Statement, TypeOK
<1>2. writes' \in [Writers -> 0..MaxWrites]
  BY TxnConstants DEF Statement, TypeOK, Writers
<1>3. open' \subseteq Txns /\ ended' \subseteq Txns
  BY DEF Statement, TypeOK
<1>4. outcome' \in [Txns -> Outcomes] /\ dropping' \in [Txns -> SUBSET Tables]
  BY DEF Statement, TypeOK, EndAll, Discards, Outcomes
<1> QED
  BY <1>1, <1>2, <1>3, <1>4 DEF Statement, TypeOK, catalogVars, scopeVars, clientVars

\* The steps of a statement keep the types.
LEMMA StatementStepsType ==
  ASSUME TypeOK, NEW p \in Procs,
         Plan(p) \/ Claim(p) \/ Create(p) \/ Write(p) \/ StatementFails(p)
  PROVE  TypeOK'
<1> DEFINE x == req[p].x
           t == req[p].t
<1>0. /\ req[p] \in Statements /\ x \in Txns /\ t \in Tables
      /\ req[p].w \in Writes
      /\ req[p].seen \in SUBSET Writes /\ req[p].cand \in SUBSET Writes
  <2>1. req[p].pc \in StatementSteps
    BY DEF Plan, Claim, Create, Write, StatementFails, StatementSteps
  <2> QED
    BY <2>1, RequestTypes DEF Statements
<1> USE <1>0
<1>w. StatementAt("write", x, t, req[p].w, req[p].seen, {}) \in Statements
  BY StatementAtType DEF StatementSteps
<1>1. CASE Plan(p)
  <2>1. Read(x, t) \in SUBSET Writes
    BY DEF TypeOK, Read
  <2>2. StatementAt("claim", x, t, req[p].w, Read(x, t), {}) \in Statements
    BY <2>1, StatementAtType DEF StatementSteps
  <2>3. req' \in [Procs -> {Idle} \cup Statements \cup Ends]
    BY <1>1, <2>2 DEF Plan, TypeOK
  <2> QED
    BY <1>1, <2>3 DEF Plan, TypeOK, catalogVars, registryVars, scopeVars,
                      clientVars, bounds
<1>2. CASE Claim(p)
  <2>1. main[t] \in SUBSET Writes
    BY DEF TypeOK
  <2>2. CASE t \in claimed[x]
    <3>1. req' = [req EXCEPT ![p] =
                     StatementAt("write", x, t, req[p].w, req[p].seen, {})] /\ UNCHANGED scopeVars
      BY <1>2, <2>2 DEF Claim
    <3>2. req' \in [Procs -> {Idle} \cup Statements \cup Ends]
      BY <3>1, <1>w DEF TypeOK
    <3> QED
      BY <1>2, <3>1, <3>2 DEF Claim, TypeOK, catalogVars, registryVars,
                              scopeVars, clientVars, bounds
  <2>3. CASE t \notin claimed[x]
    <3>1. PICK v \in {req[p].seen, main[t]} :
            \/ /\ v = {}
               /\ claimed' = [claimed EXCEPT ![x] = @ \cup {t}]
               /\ base' = [base EXCEPT ![x][t] = {}]
               /\ req' = [req EXCEPT ![p] =
                     StatementAt("write", x, t, req[p].w, req[p].seen, {})]
               /\ UNCHANGED key
            \/ /\ v # {}
               /\ req' = [req EXCEPT ![p] =
                     StatementAt("create", x, t, req[p].w, req[p].seen, v)]
               /\ UNCHANGED scopeVars
      BY <1>2, <2>3 DEF Claim
    <3>2. v \in SUBSET Writes
      BY <2>1
    <3>a. StatementAt("create", x, t, req[p].w, req[p].seen, v) \in Statements
      BY <3>2, StatementAtType DEF StatementSteps
    <3>3. req' \in [Procs -> {Idle} \cup Statements \cup Ends]
      BY <3>1, <3>a, <1>w, ZenonT(60) DEF TypeOK
    <3>4. /\ claimed' \in [Txns -> SUBSET Tables]
          /\ base' \in [Txns -> [Tables -> SUBSET Writes]]
          /\ key' = key
      <4>1. CASE v = {}
        <5>1. /\ claimed' = [claimed EXCEPT ![x] = @ \cup {t}]
              /\ base' = [base EXCEPT ![x][t] = {}]
              /\ key' = key
          BY <3>1, <4>1
        <5> QED
          BY <5>1 DEF TypeOK
      <4>2. CASE v # {}
        BY <3>1, <4>2 DEF TypeOK, scopeVars
      <4> QED
        BY <4>1, <4>2
    <3> QED
      BY <1>2, <3>3, <3>4 DEF Claim, TypeOK, catalogVars, registryVars,
                              clientVars, bounds
  <2> QED
    BY <2>2, <2>3
<1>3. CASE Create(p)
  <2>1. \/ /\ key' = [key EXCEPT ![x] = CatalogOf[t]]
           /\ base' = IF t \in claimed[x] THEN base
                      ELSE [base EXCEPT ![x][t] = req[p].cand]
           /\ claimed' = [claimed EXCEPT ![x] = @ \cup {t}]
           /\ req' = [req EXCEPT ![p] =
                     StatementAt("write", x, t, req[p].w, req[p].seen, {})]
        \/ /\ req' = [req EXCEPT ![p] = Idle]
           /\ UNCHANGED scopeVars
    BY <1>3 DEF Create
  <2>2. /\ req' \in [Procs -> {Idle} \cup Statements \cup Ends]
        /\ claimed' \in [Txns -> SUBSET Tables]
        /\ base' \in [Txns -> [Tables -> SUBSET Writes]]
        /\ key' \in [Txns -> Catalogs \cup {NoKey}]
    <3>1. CASE UNCHANGED scopeVars /\ req' = [req EXCEPT ![p] = Idle]
      BY <3>1 DEF TypeOK, scopeVars
    <3>2. CASE /\ key' = [key EXCEPT ![x] = CatalogOf[t]]
               /\ base' = IF t \in claimed[x] THEN base
                          ELSE [base EXCEPT ![x][t] = req[p].cand]
               /\ claimed' = [claimed EXCEPT ![x] = @ \cup {t}]
               /\ req' = [req EXCEPT ![p] =
                     StatementAt("write", x, t, req[p].w, req[p].seen, {})]
      <4>1. req' \in [Procs -> {Idle} \cup Statements \cup Ends]
        BY <3>2, <1>w DEF TypeOK
      <4>2. key' \in [Txns -> Catalogs \cup {NoKey}]
        BY <3>2, TxnConstants DEF TypeOK
      <4>3. base' \in [Txns -> [Tables -> SUBSET Writes]]
        BY <3>2 DEF TypeOK
      <4>4. claimed' \in [Txns -> SUBSET Tables]
        BY <3>2 DEF TypeOK
      <4> QED
        BY <4>1, <4>2, <4>3, <4>4
    <3> QED
      BY <2>1, <3>1, <3>2
  <2>4. branch' \in [Txns -> [Tables -> SUBSET Writes]]
    BY <1>3 DEF Create, TypeOK
  <2>5. faults' \in 0..MaxFaults
    BY <1>3, TxnConstants DEF Create, TypeOK, Fault
  <2> QED
    BY <1>3, <2>2, <2>4, <2>5 DEF Create, TypeOK, registryVars,
                                        clientVars
<1>4. CASE Write(p)
  <2>1. branch' \in [Txns -> [Tables -> SUBSET Writes]] /\ main' = main
    BY <1>4 DEF Write, CommitToBranch, TypeOK
  <2>2. acked' \in [Txns -> SUBSET (Tables \X Writes)]
    BY <1>4 DEF Write, TypeOK
  <2>3. key' \in [Txns -> Catalogs \cup {NoKey}]
    BY <1>4, TxnConstants DEF Write, TypeOK
  <2>4. faults' \in 0..MaxFaults
    BY <1>4, TxnConstants DEF Write, TypeOK, Fault
  <2>5. req' \in [Procs -> {Idle} \cup Statements \cup Ends]
    BY <1>4 DEF Write, TypeOK
  <2> QED
    BY <1>4, <2>1, <2>2, <2>3, <2>4, <2>5 DEF Write, TypeOK, registryVars
<1>5. CASE StatementFails(p)
  BY <1>5 DEF StatementFails, TypeOK, catalogVars, registryVars, scopeVars,
              clientVars, bounds
<1> QED
  BY <1>1, <1>2, <1>3, <1>4, <1>5

\* COMMIT and ROLLBACK keep the types, from the request to its answer.
LEMMA EndType ==
  ASSUME TypeOK, NEW p \in Procs, NEW x \in Txns, NEW commit \in BOOLEAN,
         End(p, x, commit)
  PROVE  TypeOK'
<1>1. EndAt(IF commit THEN "prepare" ELSE "rollback", x, NoTables, 1) \in Ends
  BY TxnConstants, EndAtType, NoTablesType DEF EndSteps
<1>2. req' \in [Procs -> {Idle} \cup Statements \cup Ends]
  BY <1>1 DEF End, TypeOK
<1>3. open' \subseteq Txns /\ ended' \subseteq Txns
  BY DEF End, TypeOK
<1>4. outcome' \in [Txns -> Outcomes] /\ dropping' \in [Txns -> SUBSET Tables]
  BY DEF End, TypeOK, Discards, Outcomes
<1>5. reply' \in [Txns -> Replies]
  BY DEF End, TypeOK, Answer, Replies
<1> QED
  BY <1>2, <1>3, <1>4, <1>5 DEF End, TypeOK, catalogVars, scopeVars, bounds

LEMMA EndWithoutOpenType ==
  ASSUME TypeOK, NEW x \in Txns, NEW commit \in BOOLEAN,
         EndWithoutOpen(x, commit)
  PROVE  TypeOK'
<1>1. /\ open' \subseteq Txns /\ ended' \subseteq Txns
      /\ forgotten' = forgotten /\ foreign' = foreign
  BY DEF EndWithoutOpen, TypeOK, registryVars
<1>2. outcome' \in [Txns -> Outcomes] /\ dropping' \in [Txns -> SUBSET Tables]
  BY ZenonT(60) DEF EndWithoutOpen, TypeOK, EndAll, Discards, Outcomes, registryVars
<1>3. reply' \in [Txns -> Replies]
  BY DEF EndWithoutOpen, TypeOK, Answer, Replies
<1> QED
  BY <1>1, <1>2, <1>3 DEF EndWithoutOpen, TypeOK, catalogVars, scopeVars, bounds

LEMMA EndStepsType ==
  ASSUME TypeOK, NEW p \in Procs,
         \/ Prepare(p) \/ Publish(p) \/ PublishRefused(p) \/ PublishFails(p)
         \/ FinishEnd(p) \/ Cancelled(p)
  PROVE  TypeOK'
<1> DEFINE x == req[p].x
<1>0. /\ req[p] \in Ends /\ x \in Txns
      /\ req[p].heads \in [Tables -> SUBSET Writes]
      /\ req[p].attempt \in 1..MaxAttempts
  <2>1. req[p].pc \in EndSteps
    BY DEF Prepare, Publish, PublishRefused, PublishFails, FinishEnd,
           Cancelled, EndSteps
  <2> QED
    BY <2>1, RequestTypes DEF Ends
<1> USE <1>0
<1>a. ASSUME Committed(p)
      PROVE  /\ outcome' \in [Txns -> Outcomes] /\ reply' \in [Txns -> Replies]
             /\ req' \in [Procs -> {Idle} \cup Statements \cup Ends]
             /\ UNCHANGED <<open, ended, dropping>>
  BY <1>a DEF Committed, TypeOK, Answer, Outcomes, Replies
<1>b. ASSUME Reopen(p)
      PROVE  /\ open' \subseteq Txns /\ ended' \subseteq Txns
             /\ reply' \in [Txns -> Replies]
             /\ req' \in [Procs -> {Idle} \cup Statements \cup Ends]
             /\ UNCHANGED <<dropping, outcome>>
  BY <1>b DEF Reopen, TypeOK, Answer, Replies
<1>c. ASSUME Lost(p)
      PROVE  /\ dropping' \in [Txns -> SUBSET Tables]
             /\ req' \in [Procs -> {Idle} \cup Statements \cup Ends]
             /\ UNCHANGED <<open, ended, outcome, reply>>
  <2>1. req' \in [Procs -> {Idle} \cup Statements \cup Ends]
    <3>1. EndAt("conflict", x, NoTables, req[p].attempt) \in Ends
      BY EndAtType, NoTablesType DEF EndSteps
    <3> QED
      BY <1>c, <3>1 DEF Lost, TypeOK
  <2> QED
    BY <1>c, <2>1 DEF Lost, TypeOK, Discards
<1>d. ASSUME MoveMains(p)
      PROVE  /\ main' \in [Tables -> SUBSET Writes]
             /\ branch' \in [Txns -> [Tables -> SUBSET Writes]]
  BY <1>d DEF MoveMains, TypeOK
<1>1. CASE Prepare(p)
  <2>1. ASSUME NEW ts \in SUBSET Tables,
               req' = [req EXCEPT ![p] = EndAt("commit", x,
                        [t \in Tables |-> IF t \in ts THEN branch[x][t] ELSE {}],
                        req[p].attempt)]
        PROVE  req' \in [Procs -> {Idle} \cup Statements \cup Ends]
    <3>1. [t \in Tables |-> IF t \in ts THEN branch[x][t] ELSE {}]
            \in [Tables -> SUBSET Writes]
      BY DEF TypeOK
    <3>2. EndAt("commit", x, [t \in Tables |-> IF t \in ts THEN branch[x][t] ELSE {}],
                req[p].attempt) \in Ends
      BY <3>1, EndAtType DEF EndSteps
    <3> QED
      BY <2>1, <3>2 DEF TypeOK
  <2>2. {t \in claimed[x] : ~Skipped(x, t)} \in SUBSET Tables
    BY DEF TypeOK
  <2>3. /\ open' \subseteq Txns /\ ended' \subseteq Txns
        /\ dropping' \in [Txns -> SUBSET Tables]
        /\ outcome' \in [Txns -> Outcomes] /\ reply' \in [Txns -> Replies]
        /\ req' \in [Procs -> {Idle} \cup Statements \cup Ends]
    BY <1>1, <1>a, <1>c, <2>1, <2>2 DEF Prepare, TypeOK
  <2> QED
    BY <1>1, <2>3 DEF Prepare, TypeOK, catalogVars, scopeVars, bounds
<1>2. CASE Publish(p)
  <2>1. faults' \in 0..MaxFaults
    BY <1>2, TxnConstants DEF Publish, TypeOK, Fault
  <2>2. /\ open' \subseteq Txns /\ ended' \subseteq Txns
        /\ dropping' \in [Txns -> SUBSET Tables]
        /\ outcome' \in [Txns -> Outcomes] /\ reply' \in [Txns -> Replies]
        /\ req' \in [Procs -> {Idle} \cup Statements \cup Ends]
    BY <1>2, <1>a, <1>b DEF Publish, TypeOK
  <2> QED
    BY <1>2, <1>d, <2>1, <2>2 DEF Publish, TypeOK, scopeVars
<1>3. CASE PublishRefused(p)
  <2>2. /\ req' \in [Procs -> {Idle} \cup Statements \cup Ends]
        /\ dropping' \in [Txns -> SUBSET Tables]
        /\ UNCHANGED <<open, ended, outcome, reply>>
    <3>1. CASE req[p].attempt = MaxAttempts
      BY <1>3, <3>1, <1>c DEF PublishRefused
    <3>2. CASE req[p].attempt < MaxAttempts
      <4>1. req[p].attempt + 1 \in 1..MaxAttempts
        BY <3>2, TxnConstants
      <4>2. EndAt("prepare", req[p].x, NoTables, req[p].attempt + 1) \in Ends
        BY <4>1, EndAtType, NoTablesType DEF EndSteps
      <4>3. req' = [req EXCEPT ![p] =
                      EndAt("prepare", req[p].x, NoTables, req[p].attempt + 1)]
        BY <1>3, <3>2, TxnConstants DEF PublishRefused
      <4>4. req' \in [Procs -> {Idle} \cup Statements \cup Ends]
        BY <4>2, <4>3 DEF TypeOK
      <4>5. UNCHANGED <<open, ended, dropping, outcome, reply>>
        BY <1>3, <3>2, TxnConstants DEF PublishRefused
      <4> QED
        BY <4>4, <4>5 DEF TypeOK
    <3> QED
      BY <1>3, <3>1, <3>2 DEF PublishRefused
  <2> QED
    BY <1>3, <2>2 DEF PublishRefused, TypeOK, catalogVars, scopeVars, bounds
<1>4. CASE PublishFails(p)
  BY <1>4, <1>b DEF PublishFails, TypeOK, catalogVars, scopeVars, bounds
<1>5. CASE FinishEnd(p)
  <2>1. /\ outcome' \in [Txns -> Outcomes] /\ reply' \in [Txns -> Replies]
        /\ req' \in [Procs -> {Idle} \cup Statements \cup Ends]
    BY <1>5 DEF FinishEnd, TypeOK, Answer, Outcomes, Replies
  <2> QED
    BY <1>5, <2>1 DEF FinishEnd, TypeOK, catalogVars, scopeVars, bounds
<1>6. CASE Cancelled(p)
  <2>1. /\ reply' \in [Txns -> Replies]
        /\ dropping' \in [Txns -> SUBSET Tables]
        /\ req' \in [Procs -> {Idle} \cup Statements \cup Ends]
    BY <1>6 DEF Cancelled, TypeOK, Answer, Replies
  <2>2. faults' \in 0..MaxFaults
    BY <1>6, TxnConstants DEF Cancelled, TypeOK, Fault
  <2>3. /\ main' \in [Tables -> SUBSET Writes]
        /\ branch' \in [Txns -> [Tables -> SUBSET Writes]]
    BY <1>6, <1>d DEF Cancelled, TypeOK, catalogVars
  <2> QED
    BY <1>6, <2>1, <2>2, <2>3 DEF Cancelled, TypeOK, scopeVars
<1> QED
  BY <1>1, <1>2, <1>3, <1>4, <1>5, <1>6

\* The sweeps of the registry, and the ends nobody asked for.
LEMMA QuietStatementType ==
  ASSUME TypeOK, NEW x \in Txns, QuietStatement(x)
  PROVE  TypeOK'
<1>1. /\ open' \subseteq Txns /\ ended' \subseteq Txns
      /\ forgotten' \subseteq Txns /\ foreign' \subseteq Txns
  BY DEF QuietStatement, TypeOK, registryVars
<1>2. outcome' \in [Txns -> Outcomes] /\ dropping' \in [Txns -> SUBSET Tables]
  <2>1. CASE x \in foreign /\ UNCHANGED registryVars
    BY <2>1 DEF TypeOK, registryVars
  <2>2. ASSUME NEW E \in SUBSET open, EndAll(E, "expired")
        PROVE  outcome' \in [Txns -> Outcomes] /\ dropping' \in [Txns -> SUBSET Tables]
    BY <2>2 DEF TypeOK, EndAll, Discards, Outcomes
  <2> QED
    BY <2>1, <2>2 DEF QuietStatement
<1> QED
  BY <1>1, <1>2 DEF QuietStatement, TypeOK, catalogVars, scopeVars,
                    clientVars, bounds

LEMMA AbandonType ==
  ASSUME TypeOK, NEW x \in Txns, Abandon(x)
  PROVE  TypeOK'
<1>1. outcome' \in [Txns -> Outcomes] /\ dropping' \in [Txns -> SUBSET Tables]
  BY DEF Abandon, TypeOK, EndAll, Discards, Outcomes
<1>2. faults' \in 0..MaxFaults
  BY TxnConstants DEF Abandon, TypeOK, Fault
<1> QED
  BY <1>1, <1>2 DEF Abandon, TypeOK, catalogVars, scopeVars, clientVars

LEMMA ShutdownType == TypeOK /\ Shutdown => TypeOK'
<1> SUFFICES ASSUME TypeOK, Shutdown PROVE TypeOK'
  OBVIOUS
<1>1. outcome' \in [Txns -> Outcomes] /\ dropping' \in [Txns -> SUBSET Tables]
  BY DEF Shutdown, TypeOK, EndAll, Discards, Outcomes
<1>2. faults' \in 0..MaxFaults
  BY TxnConstants DEF Shutdown, TypeOK, Fault
<1> QED
  BY <1>1, <1>2 DEF Shutdown, TypeOK, catalogVars, scopeVars, clientVars

\* The branches that go away, one at a time.
LEMMA BranchType ==
  ASSUME TypeOK, NEW x \in Txns, NEW t \in Tables,
         DropBranch(x, t) \/ DropStale(x, t) \/ UserDrop(x, t)
  PROVE  TypeOK'
<1>1. branch' = [branch EXCEPT ![x][t] = {}] \/ branch' = branch
  BY DEF DropBranch, DropStale, UserDrop
<1>2. branch' \in [Txns -> [Tables -> SUBSET Writes]]
  <2>1. branch \in [Txns -> [Tables -> SUBSET Writes]]
    BY DEF TypeOK
  <2> QED
    BY <1>1, <2>1
<1>3. CASE DropBranch(x, t)
  BY <1>2, <1>3 DEF DropBranch, TypeOK, scopeVars, clientVars, bounds
<1>4. CASE DropStale(x, t)
  BY <1>2, <1>4 DEF DropStale, TypeOK, registryVars, scopeVars, clientVars, bounds
<1>5. CASE UserDrop(x, t)
  <2>1. faults' \in 0..MaxFaults
    BY <1>5, TxnConstants DEF UserDrop, TypeOK, Fault
  <2> QED
    BY <1>2, <1>5, <2>1 DEF UserDrop, TypeOK, registryVars, scopeVars, clientVars
<1> QED
  BY <1>3, <1>4, <1>5

LEMMA CrashType == TypeOK /\ Crash => TypeOK'
<1> SUFFICES ASSUME TypeOK, Crash PROVE TypeOK'
  OBVIOUS
<1>1. faults' \in 0..MaxFaults
  BY TxnConstants DEF Crash, TypeOK, Fault
<1>2. base' \in [Txns -> [Tables -> SUBSET Writes]]
  BY NoTablesType DEF Crash
<1>3. req' \in [Procs -> {Idle} \cup Statements \cup Ends]
  BY DEF Crash
<1>4. /\ open' \subseteq Txns /\ ended' \subseteq Txns /\ foreign' \subseteq Txns
      /\ claimed' \in [Txns -> SUBSET Tables]
      /\ key' \in [Txns -> Catalogs \cup {NoKey}]
      /\ dropping' \in [Txns -> SUBSET Tables]
  BY DEF Crash, TypeOK
<1> QED
  BY <1>1, <1>2, <1>3, <1>4 DEF Crash, TypeOK, catalogVars, clientVars

LEMMA ForgetType ==
  ASSUME TypeOK, NEW x \in Txns, Forget(x)
  PROVE  TypeOK'
<1>1. faults' \in 0..MaxFaults
  BY TxnConstants DEF Forget, TypeOK, Fault
<1>2. base' \in [Txns -> [Tables -> SUBSET Writes]]
  BY NoTablesType DEF Forget, TypeOK
<1>3. /\ ended' \subseteq Txns /\ forgotten' \subseteq Txns
      /\ claimed' \in [Txns -> SUBSET Tables]
      /\ key' \in [Txns -> Catalogs \cup {NoKey}]
      /\ outcome' \in [Txns -> Outcomes]
  BY DEF Forget, TypeOK, Outcomes
<1> QED
  BY <1>1, <1>2, <1>3 DEF Forget, TypeOK, catalogVars, clientVars

LEMMA OutsideWriteType ==
  ASSUME TypeOK, NEW t \in Tables, OutsideWrite(t)
  PROVE  TypeOK'
<1>0. Outside \in Writers /\ writes \in [Writers -> 0..MaxWrites]
  BY DEF Writers, TypeOK
<1>1. writes[Outside] \in 0..MaxWrites /\ writes[Outside] < MaxWrites
  <2>1. writes[Outside] < MaxOutside
    BY DEF OutsideWrite
  <2> QED
    BY <1>0, <2>1, TxnConstants
<1>2. <<Outside, writes[Outside] + 1>> \in Writes
  <2>1. writes[Outside] + 1 \in 0..MaxWrites
    BY <1>1, TxnConstants
  <2> QED
    BY <1>0, <2>1 DEF Writes
<1>3. main' \in [Tables -> SUBSET Writes]
  <2>1. main' = [main EXCEPT ![t] = @ \cup {<<Outside, writes[Outside] + 1>>}]
    BY DEF OutsideWrite
  <2>2. main \in [Tables -> SUBSET Writes]
    BY DEF TypeOK
  <2> QED
    BY <1>2, <2>1, <2>2
<1>4. writes' \in [Writers -> 0..MaxWrites]
  BY <1>1, TxnConstants DEF OutsideWrite, TypeOK, Writers
<1> QED
  BY <1>3, <1>4 DEF OutsideWrite, TypeOK, registryVars, scopeVars, clientVars

LEMMA NextTypeOK == TypeOK /\ [Next]_vars => TypeOK'
<1> SUFFICES ASSUME TypeOK, [Next]_vars PROVE TypeOK'
  OBVIOUS
<1>1. ASSUME NEW p \in Procs, RequestStep(p) PROVE TypeOK'
  BY <1>1, StatementStepsType, EndStepsType DEF RequestStep
<1>2. ASSUME NEW p \in Procs, NEW x \in Txns, NEW t \in Tables, Statement(p, x, t)
      PROVE  TypeOK'
  BY <1>2, StatementType
<1>3. ASSUME NEW p \in Procs, NEW x \in Txns, NEW commit \in BOOLEAN,
             End(p, x, commit)
      PROVE  TypeOK'
  BY <1>3, EndType
<1>4. ASSUME NEW x \in Txns, NEW commit \in BOOLEAN, EndWithoutOpen(x, commit)
      PROVE  TypeOK'
  BY <1>4, EndWithoutOpenType
<1>5. ASSUME NEW x \in Txns, NEW t \in Tables,
             DropBranch(x, t) \/ DropStale(x, t) \/ UserDrop(x, t)
      PROVE  TypeOK'
  BY <1>5, BranchType
<1>6. ASSUME NEW x \in Txns, QuietStatement(x) \/ Abandon(x) \/ Forget(x)
      PROVE  TypeOK'
  BY <1>6, QuietStatementType, AbandonType, ForgetType
<1>7. ASSUME NEW t \in Tables, OutsideWrite(t) PROVE TypeOK'
  BY <1>7, OutsideWriteType
<1>8. CASE Shutdown
  BY <1>8, ShutdownType
<1>9. CASE Crash
  BY <1>9, CrashType
<1>10. CASE UNCHANGED vars
  BY <1>10 DEF vars, TypeOK
<1> QED
  BY <1>1, <1>2, <1>3, <1>4, <1>5, <1>6, <1>7, <1>8, <1>9, <1>10 DEF Next

\* Every state the transactions of the coordinator reach has the types of
\* TypeOK, whatever the constants, faults included.
THEOREM TypeCorrect == Spec => []TypeOK
<1>1. Init => TypeOK
  BY InitTypeOK
<1>2. TypeOK /\ [Next]_vars => TypeOK'
  BY NextTypeOK
<1> QED
  BY <1>1, <1>2, PTL DEF Spec
----------------------------------------------------------------------------
(***************************************************************************)
(* COMMIT never takes another writer's commit off main, for a client that  *)
(* waits for each request of a transaction before the next.  The argument: *)
(* a claimed table's branch continues its base, main is at the base when   *)
(* the catalog accepts the commit, so main moves to a larger snapshot.     *)
(***************************************************************************)

\* A transaction has one request at a time.
Serial ==
  \A p, q \in Procs :
    /\ req[p].pc # "idle" /\ req[q].pc # "idle"
    /\ req[p].x = req[q].x
    => p = q

\* A branch is only created for a table the transaction has not claimed: a
\* second create would move the branch below writes it already has.
CreatesUnclaimed ==
  \A p \in Procs : req[p].pc = "create" => req[p].t \notin claimed[req[p].x]

\* A prepared catalog commit is about claimed tables.
PreparedIsClaimed ==
  \A p \in Procs : req[p].pc = "commit" =>
    \A t \in Tables : req[p].heads[t] # {} => t \in claimed[req[p].x]

MainInv ==
  TypeOK /\ Serial /\ CreatesUnclaimed /\ PreparedIsClaimed /\ BranchContinuesBase

----------------------------------------------------------------------------
LEMMA StatementFields ==
  ASSUME NEW step, NEW x, NEW t, NEW w, NEW seen, NEW cand
  PROVE  /\ StatementAt(step, x, t, w, seen, cand).pc = step
         /\ StatementAt(step, x, t, w, seen, cand).x = x
         /\ StatementAt(step, x, t, w, seen, cand).t = t
BY DEF StatementAt

LEMMA EndFields ==
  ASSUME NEW step, NEW x, NEW heads, NEW n
  PROVE  /\ EndAt(step, x, heads, n).pc = step
         /\ EndAt(step, x, heads, n).x = x
         /\ EndAt(step, x, heads, n).heads = heads
BY DEF EndAt

LEMMA IdleField == Idle.pc = "idle"
BY DEF Idle

\* One request moves: the branch it is about to create is of a table that is
\* not claimed, the catalog commit it prepared is about claimed tables.
LEMMA RequestMoves ==
  ASSUME MainInv, NEW p \in Procs, NEW r,
         req' = [req EXCEPT ![p] = r],
         \/ r.pc = "idle"
         \/ req[p].pc # "idle" /\ r.x = req[p].x
         \/ \A q \in Procs : req[q].pc # "idle" => req[q].x # r.x,
         r.pc = "create" => r.t \notin claimed[r.x],
         r.pc = "commit" => \A t \in Tables : r.heads[t] # {} => t \in claimed[r.x],
         claimed' = claimed
  PROVE  Serial' /\ CreatesUnclaimed' /\ PreparedIsClaimed'
<1>1. /\ req'[p] = r
      /\ \A q \in Procs : q # p => req'[q] = req[q]
  BY DEF MainInv, TypeOK
<1>2. Serial'
  BY <1>1 DEF MainInv, Serial
<1>3. CreatesUnclaimed'
  BY <1>1 DEF MainInv, CreatesUnclaimed
<1>4. PreparedIsClaimed'
  BY <1>1 DEF MainInv, PreparedIsClaimed
<1> QED
  BY <1>2, <1>3, <1>4

\* One request claims a table for its transaction and goes on to write: no
\* other request is about to create a branch of that transaction.
LEMMA RequestClaims ==
  ASSUME MainInv, NEW p \in Procs, NEW r, NEW t \in Tables,
         req' = [req EXCEPT ![p] = r],
         req[p].pc # "idle", r.x = req[p].x, r.pc = "write", req[p].x \in Txns,
         claimed' = [claimed EXCEPT ![req[p].x] = @ \cup {t}]
  PROVE  Serial' /\ CreatesUnclaimed' /\ PreparedIsClaimed'
<1>1. /\ req'[p] = r
      /\ \A q \in Procs : q # p => req'[q] = req[q]
  BY DEF MainInv, TypeOK
<1>2. Serial'
  BY <1>1 DEF MainInv, Serial
<1>a. claimed \in [Txns -> SUBSET Tables]
  BY DEF MainInv, TypeOK
<1>3. CreatesUnclaimed'
  <2> SUFFICES ASSUME NEW q \in Procs, req'[q].pc = "create", q # p
               PROVE  req[q].t \notin claimed'[req[q].x]
    BY <1>1 DEF CreatesUnclaimed
  <2>1. req[q].pc = "create" /\ req[q].t \notin claimed[req[q].x]
    BY <1>1 DEF MainInv, CreatesUnclaimed
  <2>2. req[q].x \in Txns
    BY <2>1, RequestTypes DEF MainInv, StatementSteps, Statements
  <2>3. req[q].x # req[p].x
    BY <2>1 DEF MainInv, Serial
  <2> QED
    BY <1>a, <2>1, <2>2, <2>3
<1>4. PreparedIsClaimed'
  <2> SUFFICES ASSUME NEW q \in Procs, req'[q].pc = "commit", q # p,
                      NEW u \in Tables, req[q].heads[u] # {}
               PROVE  u \in claimed'[req[q].x]
    BY <1>1 DEF PreparedIsClaimed
  <2>1. req[q].pc = "commit" /\ u \in claimed[req[q].x]
    BY <1>1 DEF MainInv, PreparedIsClaimed
  <2>2. req[q].x \in Txns
    BY <2>1, RequestTypes DEF MainInv, EndSteps, Ends
  <2> QED
    BY <1>a, <2>1, <2>2
<1> QED
  BY <1>2, <1>3, <1>4

\* A step that leaves the requests and the scopes alone, and on a branch at
\* most removes the ref.
LEMMA OthersMove ==
  ASSUME MainInv, UNCHANGED <<req, claimed, base>>,
         \A x \in Txns, t \in Tables :
           branch'[x][t] = branch[x][t] \/ branch'[x][t] = {}
  PROVE  Serial' /\ CreatesUnclaimed' /\ PreparedIsClaimed' /\ BranchContinuesBase'
<1>1. Serial' /\ CreatesUnclaimed' /\ PreparedIsClaimed'
  BY DEF MainInv, Serial, CreatesUnclaimed, PreparedIsClaimed
<1>2. BranchContinuesBase'
  BY DEF MainInv, TypeOK, BranchContinuesBase
<1> QED
  BY <1>1, <1>2
----------------------------------------------------------------------------
LEMMA InitMainInv == Init => MainInv
<1> SUFFICES ASSUME Init PROVE MainInv
  OBVIOUS
<1>1. TypeOK
  BY InitTypeOK
<1>2. \A p \in Procs : req[p].pc = "idle"
  BY IdleField DEF Init
<1>3. BranchContinuesBase
  BY DEF Init, BranchContinuesBase
<1> QED
  BY <1>1, <1>2, <1>3 DEF MainInv, Serial, CreatesUnclaimed, PreparedIsClaimed

\* A request starts only when the transaction has none.
LEMMA StartMainInv ==
  ASSUME MainInv, ~Concurrent, NEW p \in Procs, NEW x \in Txns,
         \/ \E t \in Tables : Statement(p, x, t)
         \/ \E commit \in BOOLEAN : End(p, x, commit)
  PROVE  Serial' /\ CreatesUnclaimed' /\ PreparedIsClaimed' /\ BranchContinuesBase'
<1> DEFINE Starts(r) == /\ req' = [req EXCEPT ![p] = r] /\ r.x = x
                        /\ r.pc # "create" /\ r.pc # "commit"
<1>1. \E r : Starts(r)
  <2>1. ASSUME NEW t \in Tables, Statement(p, x, t) PROVE \E r : Starts(r)
    <3> DEFINE r == StatementAt("plan", x, t, <<x, writes[x] + 1>>, {}, {})
    <3>1. Starts(r)
      BY <2>1, StatementFields DEF Statement
    <3> QED
      BY <3>1
  <2>2. ASSUME NEW commit \in BOOLEAN, End(p, x, commit) PROVE \E r : Starts(r)
    <3> DEFINE r == EndAt(IF commit THEN "prepare" ELSE "rollback", x, NoTables, 1)
    <3>1. Starts(r)
      BY <2>2, EndFields DEF End
    <3> QED
      BY <3>1
  <2> QED
    BY <2>1, <2>2
<1>2. \A q \in Procs : req[q].pc # "idle" => req[q].x # x
  BY DEF Statement, End, MayRequest, Busy
<1>3. UNCHANGED <<branch, claimed, base>>
  BY DEF Statement, End, catalogVars, scopeVars
<1>4. Serial' /\ CreatesUnclaimed' /\ PreparedIsClaimed'
  <2>1. PICK r : Starts(r)
    BY <1>1
  <2> QED
    BY <2>1, <1>2, <1>3, RequestMoves
<1>5. BranchContinuesBase'
  BY <1>3 DEF MainInv, BranchContinuesBase
<1> QED
  BY <1>4, <1>5

LEMMA ClaimMainInv ==
  ASSUME MainInv, NEW p \in Procs, Claim(p)
  PROVE  Serial' /\ CreatesUnclaimed' /\ PreparedIsClaimed' /\ BranchContinuesBase'
<1> DEFINE x == req[p].x
           t == req[p].t
           At(step, v) == StatementAt(step, x, t, req[p].w, req[p].seen, v)
<1>0. x \in Txns /\ t \in Tables /\ req[p].pc = "claim"
  BY RequestTypes DEF MainInv, Claim, StatementSteps, Statements
<1>a. \A step, v : At(step, v).pc = step /\ At(step, v).x = x /\ At(step, v).t = t
  BY StatementFields
<1>1. branch' = branch
  BY DEF Claim, catalogVars
<1>2. CASE UNCHANGED scopeVars /\ req' = [req EXCEPT ![p] = At("write", {})]
  <2>1. UNCHANGED <<claimed, base>>
    BY <1>2 DEF scopeVars
  <2>2. Serial' /\ CreatesUnclaimed' /\ PreparedIsClaimed'
    <3> DEFINE r == At("write", {})
    <3>1. r.pc = "write" /\ r.x = x /\ req' = [req EXCEPT ![p] = r]
      BY <1>2, <1>a
    <3> HIDE DEF r
    <3> QED
      BY <1>0, <2>1, <3>1, RequestMoves
  <2> QED
    BY <1>1, <2>1, <2>2 DEF MainInv, BranchContinuesBase
<1>3. ASSUME NEW v, UNCHANGED scopeVars, t \notin claimed[x],
             req' = [req EXCEPT ![p] = At("create", v)]
      PROVE  Serial' /\ CreatesUnclaimed' /\ PreparedIsClaimed' /\ BranchContinuesBase'
  <2>1. UNCHANGED <<claimed, base>>
    BY <1>3 DEF scopeVars
  <2>2. Serial' /\ CreatesUnclaimed' /\ PreparedIsClaimed'
    <3> DEFINE r == At("create", v)
    <3>1. r.pc = "create" /\ r.x = x /\ r.t = t /\ req' = [req EXCEPT ![p] = r]
      BY <1>3, <1>a
    <3>2. r.t \notin claimed'[r.x]
      BY <1>3, <2>1, <3>1
    <3> HIDE DEF r
    <3> QED
      BY <1>0, <2>1, <3>1, <3>2, RequestMoves
  <2> QED
    BY <1>1, <2>1, <2>2 DEF MainInv, BranchContinuesBase
<1>4. CASE /\ claimed' = [claimed EXCEPT ![x] = @ \cup {t}]
           /\ base' = [base EXCEPT ![x][t] = {}]
           /\ req' = [req EXCEPT ![p] = At("write", {})]
  <2>1. Serial' /\ CreatesUnclaimed' /\ PreparedIsClaimed'
    <3> DEFINE r == At("write", {})
    <3>1. r.pc = "write" /\ r.x = x /\ req' = [req EXCEPT ![p] = r]
      BY <1>4, <1>a
    <3> HIDE DEF r
    <3> QED
      BY <1>0, <1>4, <3>1, RequestClaims
  <2>2. BranchContinuesBase'
    <3>1. /\ branch \in [Txns -> [Tables -> SUBSET Writes]]
          /\ base \in [Txns -> [Tables -> SUBSET Writes]]
          /\ claimed \in [Txns -> SUBSET Tables]
      BY DEF MainInv, TypeOK
    <3> QED
      BY <1>0, <1>1, <1>4, <3>1, SMTT(30) DEF MainInv, BranchContinuesBase
  <2> QED
    BY <2>1, <2>2
<1> QED
  BY <1>2, <1>3, <1>4 DEF Claim

LEMMA CreateMainInv ==
  ASSUME MainInv, NEW p \in Procs, Create(p)
  PROVE  Serial' /\ CreatesUnclaimed' /\ PreparedIsClaimed' /\ BranchContinuesBase'
<1> DEFINE x == req[p].x
           t == req[p].t
           r == StatementAt("write", x, t, req[p].w, req[p].seen, {})
<1>0. x \in Txns /\ t \in Tables /\ req[p].pc = "create"
  BY RequestTypes DEF MainInv, Create, StatementSteps, Statements
<1>1. t \notin claimed[x]
  BY <1>0 DEF MainInv, CreatesUnclaimed
<1>2. branch' = [branch EXCEPT ![x][t] = req[p].cand]
  BY DEF Create
<1>3. /\ branch \in [Txns -> [Tables -> SUBSET Writes]]
      /\ base \in [Txns -> [Tables -> SUBSET Writes]]
      /\ claimed \in [Txns -> SUBSET Tables]
  BY DEF MainInv, TypeOK
<1>4. CASE /\ base' = [base EXCEPT ![x][t] = req[p].cand]
           /\ claimed' = [claimed EXCEPT ![x] = @ \cup {t}]
           /\ req' = [req EXCEPT ![p] = r]
  <2>1. Serial' /\ CreatesUnclaimed' /\ PreparedIsClaimed'
    <3>1. r.pc = "write" /\ r.x = x
      BY StatementFields
    <3> HIDE DEF r
    <3> QED
      BY <1>0, <1>4, <3>1, RequestClaims
  <2>2. BranchContinuesBase'
    <3> SUFFICES ASSUME NEW y \in Txns, NEW u \in claimed'[y], branch'[y][u] # {}
                 PROVE  base'[y][u] \subseteq branch'[y][u]
      BY DEF BranchContinuesBase
    <3>1. CASE y = x /\ u = t
      BY <1>0, <1>2, <1>3, <1>4, <3>1
    <3>2. CASE ~(y = x /\ u = t)
      <4>1. u \in claimed[y] /\ u \in Tables
        BY <1>0, <1>3, <1>4, <3>2
      <4>2. base'[y][u] = base[y][u] /\ branch'[y][u] = branch[y][u]
        BY <1>0, <1>2, <1>3, <1>4, <3>2, <4>1
      <4> QED
        BY <4>1, <4>2 DEF MainInv, BranchContinuesBase
    <3> QED
      BY <3>1, <3>2
  <2> QED
    BY <2>1, <2>2
<1>5. CASE UNCHANGED scopeVars /\ req' = [req EXCEPT ![p] = Idle]
  <2>1. UNCHANGED <<claimed, base>>
    BY <1>5 DEF scopeVars
  <2>2. Serial' /\ CreatesUnclaimed' /\ PreparedIsClaimed'
    BY <1>5, <2>1, IdleField, RequestMoves
  <2>3. BranchContinuesBase'
    BY <1>0, <1>1, <1>2, <1>3, <2>1 DEF MainInv, BranchContinuesBase
  <2> QED
    BY <2>2, <2>3
<1> QED
  BY <1>1, <1>4, <1>5 DEF Create

\* A write continues the branch; where there is none the base is empty, or
\* the pin would have been stale.
LEMMA WriteMainInv ==
  ASSUME MainInv, NEW p \in Procs, Write(p)
  PROVE  Serial' /\ CreatesUnclaimed' /\ PreparedIsClaimed' /\ BranchContinuesBase'
<1> DEFINE x == req[p].x
           t == req[p].t
<1>0. x \in Txns /\ t \in Tables
  BY RequestTypes DEF MainInv, Write, StatementSteps, Statements
<1>1. branch' = [branch EXCEPT ![x][t] = @ \cup {req[p].w}]
  BY DEF Write, CommitToBranch
<1>2. UNCHANGED <<claimed, base>> /\ req' = [req EXCEPT ![p] = Idle]
  BY DEF Write
<1>3. t \in claimed[x] => (branch[x][t] # {} \/ base[x][t] = {})
  BY DEF Write, Readable
<1>4. Serial' /\ CreatesUnclaimed' /\ PreparedIsClaimed'
  BY <1>2, IdleField, RequestMoves
<1>5. BranchContinuesBase'
  <2>1. branch \in [Txns -> [Tables -> SUBSET Writes]]
    BY DEF MainInv, TypeOK
  <2>2. claimed \in [Txns -> SUBSET Tables]
    BY DEF MainInv, TypeOK
  <2> SUFFICES ASSUME NEW y \in Txns, NEW u \in claimed[y], branch'[y][u] # {}
               PROVE  base[y][u] \subseteq branch'[y][u]
    BY <1>2 DEF BranchContinuesBase
  <2>3. u \in Tables
    BY <2>2
  <2>4. branch[y][u] # {} => base[y][u] \subseteq branch[y][u]
    BY DEF MainInv, BranchContinuesBase
  <2>5. CASE y = x /\ u = t
    <3>1. base[y][u] \subseteq branch[y][u]
      BY <1>3, <2>4, <2>5
    <3> QED
      BY <1>0, <1>1, <2>1, <2>5, <3>1
  <2>6. CASE ~(y = x /\ u = t)
    <3>1. branch'[y][u] = branch[y][u]
      BY <1>0, <1>1, <2>1, <2>3, <2>6
    <3> QED
      BY <2>4, <3>1
  <2> QED
    BY <2>5, <2>6
<1> QED
  BY <1>4, <1>5

\* The steps of a statement that touch nothing but the request.
LEMMA PlanMainInv ==
  ASSUME MainInv, NEW p \in Procs, Plan(p) \/ StatementFails(p)
  PROVE  Serial' /\ CreatesUnclaimed' /\ PreparedIsClaimed' /\ BranchContinuesBase'
<1>1. UNCHANGED <<branch, claimed, base>>
  BY DEF Plan, StatementFails, catalogVars, scopeVars
<1>2. BranchContinuesBase'
  BY <1>1 DEF MainInv, BranchContinuesBase
<1>3. CASE StatementFails(p)
  <2>1. req' = [req EXCEPT ![p] = Idle]
    BY <1>3 DEF StatementFails
  <2> QED
    BY <1>1, <1>2, <2>1, IdleField, RequestMoves
<1>4. CASE Plan(p)
  <2> DEFINE r == StatementAt("claim", req[p].x, req[p].t, req[p].w,
                              Read(req[p].x, req[p].t), {})
  <2>1. r.pc = "claim" /\ r.x = req[p].x /\ req' = [req EXCEPT ![p] = r]
        /\ req[p].pc = "plan"
    BY <1>4, StatementFields DEF Plan
  <2> HIDE DEF r
  <2> QED
    BY <1>1, <1>2, <2>1, RequestMoves
<1> QED
  BY <1>3, <1>4

\* A catalog commit leaves each branch alone or takes it away.
LEMMA MoveMainsBranch ==
  ASSUME TypeOK, NEW p \in Procs, req[p].x \in Txns, MoveMains(p)
  PROVE  \A x \in Txns, t \in Tables :
           branch'[x][t] = branch[x][t] \/ branch'[x][t] = {}
<1>1. branch \in [Txns -> [Tables -> SUBSET Writes]]
  BY DEF TypeOK
<1> QED
  BY <1>1 DEF MoveMains

\* COMMIT and ROLLBACK.
LEMMA EndStepsMainInv ==
  ASSUME MainInv, NEW p \in Procs,
         \/ Prepare(p) \/ Publish(p) \/ PublishRefused(p) \/ PublishFails(p)
         \/ FinishEnd(p) \/ Cancelled(p)
  PROVE  Serial' /\ CreatesUnclaimed' /\ PreparedIsClaimed' /\ BranchContinuesBase'
<1> DEFINE x == req[p].x
<1>0. req[p].pc \in EndSteps /\ req[p].pc # "idle" /\ x \in Txns
  <2>1. req[p].pc \in EndSteps
    BY DEF Prepare, Publish, PublishRefused, PublishFails, FinishEnd,
           Cancelled, EndSteps
  <2> QED
    BY <2>1, RequestTypes DEF MainInv, EndSteps, Ends
<1>1. UNCHANGED <<claimed, base>>
  BY DEF Prepare, Publish, PublishRefused, PublishFails, FinishEnd, Cancelled,
         scopeVars
<1>2. BranchContinuesBase'
  <2>1. branch' = branch \/ MoveMains(p)
    BY DEF Prepare, Publish, PublishRefused, PublishFails, FinishEnd, Cancelled,
           catalogVars
  <2>2. \A y \in Txns, u \in Tables :
          branch'[y][u] = branch[y][u] \/ branch'[y][u] = {}
    BY <1>0, <2>1, MoveMainsBranch DEF MainInv
  <2>3. claimed \in [Txns -> SUBSET Tables]
    BY DEF MainInv, TypeOK
  <2> QED
    BY <1>1, <2>2, <2>3 DEF MainInv, BranchContinuesBase
<1>3. ASSUME req' = [req EXCEPT ![p] = Idle]
      PROVE  Serial' /\ CreatesUnclaimed' /\ PreparedIsClaimed'
  BY <1>1, <1>3, IdleField, RequestMoves
<1>4. ASSUME NEW step, NEW heads, NEW n,
             req' = [req EXCEPT ![p] = EndAt(step, x, heads, n)],
             step # "create",
             step = "commit" =>
               \A t \in Tables : heads[t] # {} => t \in claimed[x]
      PROVE  Serial' /\ CreatesUnclaimed' /\ PreparedIsClaimed'
  <2> DEFINE r == EndAt(step, x, heads, n)
  <2>1. r.pc = step /\ r.x = x /\ r.heads = heads /\ req' = [req EXCEPT ![p] = r]
    BY <1>4, EndFields
  <2> HIDE DEF r
  <2> QED
    BY <1>0, <1>1, <1>4, <2>1, RequestMoves
<1>5. CASE Prepare(p)
  <2> DEFINE ts == {t \in claimed[x] : ~Skipped(x, t)}
             heads == [t \in Tables |-> IF t \in ts THEN branch[x][t] ELSE {}]
  <2>1. \A t \in Tables : heads[t] # {} => t \in claimed[x]
    OBVIOUS
  <2>2. \/ req' = [req EXCEPT ![p] = Idle]
        \/ req' = [req EXCEPT ![p] = EndAt("commit", x, heads, req[p].attempt)]
        \/ req' = [req EXCEPT ![p] = EndAt("conflict", x, NoTables, req[p].attempt)]
    BY <1>5 DEF Prepare, Committed, Lost
  <2> HIDE DEF heads
  <2> QED
    BY <1>2, <1>3, <1>4, <2>1, <2>2
<1>6. CASE PublishRefused(p)
  <2>1. \/ req' = [req EXCEPT ![p] = EndAt("prepare", x, NoTables, req[p].attempt + 1)]
        \/ req' = [req EXCEPT ![p] = EndAt("conflict", x, NoTables, req[p].attempt)]
    BY <1>6 DEF PublishRefused, Lost
  <2> QED
    BY <1>2, <1>4, <2>1
<1>7. CASE Publish(p) \/ PublishFails(p) \/ FinishEnd(p) \/ Cancelled(p)
  <2>1. req' = [req EXCEPT ![p] = Idle]
    BY <1>7 DEF Publish, PublishFails, FinishEnd, Cancelled, Committed, Reopen
  <2> QED
    BY <1>2, <1>3, <2>1
<1> QED
  BY <1>5, <1>6, <1>7

\* What goes on around the requests.
LEMMA OthersMainInv ==
  ASSUME MainInv,
         \/ \E x \in Txns, t \in Tables :
              DropBranch(x, t) \/ DropStale(x, t) \/ UserDrop(x, t)
         \/ \E x \in Txns, commit \in BOOLEAN : EndWithoutOpen(x, commit)
         \/ \E x \in Txns : QuietStatement(x) \/ Abandon(x)
         \/ \E t \in Tables : OutsideWrite(t)
         \/ Shutdown
  PROVE  Serial' /\ CreatesUnclaimed' /\ PreparedIsClaimed' /\ BranchContinuesBase'
<1>1. UNCHANGED <<req, claimed, base>>
  BY DEF QuietStatement, DropBranch, DropStale, UserDrop, EndWithoutOpen,
         Abandon, OutsideWrite, Shutdown, scopeVars
<1>2. \/ branch' = branch
      \/ \E x \in Txns, t \in Tables : branch' = [branch EXCEPT ![x][t] = {}]
  BY DEF QuietStatement, DropBranch, DropStale, UserDrop, EndWithoutOpen,
         Abandon, OutsideWrite, Shutdown, catalogVars
<1>3. \A x \in Txns, t \in Tables :
        branch'[x][t] = branch[x][t] \/ branch'[x][t] = {}
  <2>1. branch \in [Txns -> [Tables -> SUBSET Writes]]
    BY DEF MainInv, TypeOK
  <2> QED
    BY <1>2, <2>1
<1> QED
  BY <1>1, <1>3, OthersMove

\* A restart forgets every scope and every request.
LEMMA CrashMainInv ==
  ASSUME MainInv, Crash
  PROVE  Serial' /\ CreatesUnclaimed' /\ PreparedIsClaimed' /\ BranchContinuesBase'
<1>1. \A p \in Procs : req'[p].pc = "idle"
  BY IdleField DEF Crash
<1>2. \A x \in Txns : claimed'[x] = {}
  BY DEF Crash
<1> QED
  BY <1>1, <1>2 DEF Serial, CreatesUnclaimed, PreparedIsClaimed, BranchContinuesBase

\* So does the registry with the scope of an id it forgets.
LEMMA ForgetMainInv ==
  ASSUME MainInv, NEW x \in Txns, Forget(x)
  PROVE  Serial' /\ CreatesUnclaimed' /\ PreparedIsClaimed' /\ BranchContinuesBase'
<1>1. \A p \in Procs : req'[p] = req[p] /\ ~Busy(p, x)
  BY DEF Forget
<1>2. branch' = branch /\ claimed'[x] = {}
      /\ \A y \in Txns : y # x => claimed'[y] = claimed[y] /\ base'[y] = base[y]
  BY DEF Forget, catalogVars, MainInv, TypeOK
<1>3. \A p \in Procs : req[p].pc # "idle" => req[p].x # x
  BY <1>1 DEF Busy
<1>4. Serial'
  BY <1>1, <1>3 DEF MainInv, Serial, Busy
<1>5. CreatesUnclaimed' /\ PreparedIsClaimed'
  BY <1>1, <1>2, <1>3, RequestTypes
     DEF MainInv, CreatesUnclaimed, PreparedIsClaimed, Statements, Ends,
         StatementSteps, EndSteps
<1>6. BranchContinuesBase'
  BY <1>2 DEF MainInv, BranchContinuesBase
<1> QED
  BY <1>4, <1>5, <1>6

LEMMA NextMainInv ==
  ASSUME MainInv, [Next]_vars, ~Concurrent
  PROVE  MainInv'
<1> DEFINE Parts == Serial /\ CreatesUnclaimed /\ PreparedIsClaimed
                    /\ BranchContinuesBase
<1> SUFFICES Parts'
  BY NextTypeOK DEF MainInv
<1>2. ASSUME NEW p \in Procs, RequestStep(p) PROVE Parts'
  BY <1>2, PlanMainInv, ClaimMainInv, CreateMainInv, WriteMainInv,
     EndStepsMainInv DEF RequestStep
<1>3. ASSUME NEW p \in Procs, NEW x \in Txns,
             \/ \E t \in Tables : Statement(p, x, t)
             \/ \E commit \in BOOLEAN : End(p, x, commit)
      PROVE  Parts'
  BY <1>3, StartMainInv
<1>4. CASE \/ \E x \in Txns, t \in Tables :
                DropBranch(x, t) \/ DropStale(x, t) \/ UserDrop(x, t)
           \/ \E x \in Txns, commit \in BOOLEAN : EndWithoutOpen(x, commit)
           \/ \E x \in Txns : QuietStatement(x) \/ Abandon(x)
           \/ \E t \in Tables : OutsideWrite(t)
           \/ Shutdown
  BY <1>4, OthersMainInv
<1>5. CASE Crash \/ \E x \in Txns : Forget(x)
  BY <1>5, CrashMainInv, ForgetMainInv
<1>6. CASE UNCHANGED vars
  <2>1. UNCHANGED <<req, claimed, base, branch>>
    BY <1>6 DEF vars
  <2> QED
    BY <2>1, OthersMove
<1> QED
  BY <1>2, <1>3, <1>4, <1>5, <1>6 DEF Next

\* A catalog commit that the requirements let through moves every main up.
LEMMA MoveMainsGrows ==
  ASSUME MainInv, NEW p \in Procs, req[p].pc = "commit", Matches(p), MoveMains(p),
         NEW t \in Tables
  PROVE  main[t] \subseteq main'[t]
<1>1. req[p].x \in Txns
  BY RequestTypes DEF MainInv, EndSteps, Ends
<1>2. CASE req[p].heads[t] # {}
  <2>1. t \in claimed[req[p].x]
    BY <1>2 DEF MainInv, PreparedIsClaimed
  <2>2. /\ branch[req[p].x][t] # {} /\ main[t] = base[req[p].x][t]
        /\ branch[req[p].x][t] = req[p].heads[t]
    BY <1>2 DEF Matches, Publishable
  <2>3. base[req[p].x][t] \subseteq branch[req[p].x][t]
    BY <1>1, <2>1, <2>2 DEF MainInv, BranchContinuesBase
  <2>4. main'[t] = req[p].heads[t]
    BY <1>2 DEF MoveMains
  <2> QED
    BY <2>2, <2>3, <2>4
<1>3. CASE req[p].heads[t] = {}
  BY <1>3 DEF MoveMains
<1> QED
  BY <1>2, <1>3

LEMMA StepGrows ==
  ASSUME MainInv, [Next]_vars
  PROVE  [\A t \in Tables : main[t] \subseteq main'[t]]_vars
<1> SUFFICES ASSUME Next, NEW t \in Tables
             PROVE  main[t] \subseteq main'[t]
  OBVIOUS
<1>1. ASSUME NEW p \in Procs, RequestStep(p) PROVE main[t] \subseteq main'[t]
  <2>1. \/ main' = main
        \/ req[p].pc = "commit" /\ Matches(p) /\ MoveMains(p)
    BY <1>1 DEF RequestStep, Plan, Claim, Create, Write, CommitToBranch,
       StatementFails, Prepare, Publish, PublishRefused, PublishFails, FinishEnd,
       Cancelled, catalogVars
  <2> QED
    BY <2>1, MoveMainsGrows
<1>2. ASSUME NEW u \in Tables, OutsideWrite(u) PROVE main[t] \subseteq main'[t]
  <2>1. main \in [Tables -> SUBSET Writes]
    BY DEF MainInv, TypeOK
  <2>2. main' = [main EXCEPT ![u] = @ \cup {<<Outside, writes[Outside] + 1>>}]
    BY <1>2 DEF OutsideWrite
  <2> QED
    BY <2>1, <2>2
<1>3. CASE main' = main
  BY <1>3
<1>4. \/ \E p \in Procs : RequestStep(p)
      \/ \E u \in Tables : OutsideWrite(u)
      \/ main' = main
  BY DEF Next, Statement, End, QuietStatement, DropBranch, DropStale, UserDrop,
         EndWithoutOpen, Abandon, Forget, Shutdown, Crash, catalogVars
<1> QED
  BY <1>1, <1>2, <1>3, <1>4

\* For a client that sends one request of a transaction at a time, and with
\* every fault the model has, a claimed table's branch always continues the
\* snapshot the transaction started from.
THEOREM BranchesContinue == ~Concurrent => (Spec => []BranchContinuesBase)
<1> SUFFICES ASSUME ~Concurrent PROVE Spec => []BranchContinuesBase
  OBVIOUS
<1>1. Init => MainInv
  BY InitMainInv
<1>2. MainInv /\ [Next]_vars => MainInv'
  BY NextMainInv
<1>3. MainInv => BranchContinuesBase
  BY DEF MainInv
<1> QED
  BY <1>1, <1>2, <1>3, PTL DEF Spec

\* For such a client no COMMIT ever takes another writer's commit off main,
\* whatever was dropped, lost, cancelled or restarted before.
THEOREM MainOnlyGrows == ~Concurrent => (Spec => MainGrows)
<1> SUFFICES ASSUME ~Concurrent PROVE Spec => MainGrows
  OBVIOUS
<1>1. Init => MainInv
  BY InitMainInv
<1>2. MainInv /\ [Next]_vars => MainInv'
  BY NextMainInv
<1>3. MainInv /\ [Next]_vars => [\A t \in Tables : main[t] \subseteq main'[t]]_vars
  BY StepGrows
<1> QED
  BY <1>1, <1>2, <1>3, PTL DEF Spec, MainGrows
----------------------------------------------------------------------------
(***************************************************************************)
(* A transaction ends once, however many requests of it run at the same    *)
(* time: whoever takes the id out of State.open puts it into State.ended   *)
(* in the same critical section, and only reopen takes it out again, when  *)
(* nothing has been recorded.                                              *)
(***************************************************************************)

EndInv == TypeOK /\ EndIsExclusive

\* The part of EndIsExclusive about end records.
Recorded(x) == outcome[x] # "none" => x \notin open /\ x \in ended \cup foreign

\* The part about a request that ends a transaction.
Ending(p) ==
  req[p].pc \in EndSteps =>
    /\ outcome[req[p].x] = "none"
    /\ req[p].x \in ended \ open
    /\ \A q \in Procs : req[q].pc \in EndSteps /\ req[q].x = req[p].x => q = p

----------------------------------------------------------------------------
LEMMA InitEndInv == Init => EndInv
<1> SUFFICES ASSUME Init PROVE EndInv
  OBVIOUS
<1>1. TypeOK
  BY InitTypeOK
<1>2. \A p \in Procs : req[p].pc \notin EndSteps
  BY IdleField DEF Init, EndSteps
<1>3. \A x \in Txns : outcome[x] = "none"
  BY DEF Init
<1> QED
  BY <1>1, <1>2, <1>3 DEF EndInv, EndIsExclusive

\* A sweep ends the transactions of E, all of them open, and perhaps opens one
\* that is not refused or refuses one that is not open; the requests that are
\* ending a transaction stay as they are or become idle.
LEMMA SweepEnds ==
  ASSUME EndInv, NEW E \in SUBSET open, NEW how \in Outcomes,
         outcome' = [x \in Txns |-> IF x \in E THEN how ELSE outcome[x]],
         open' \cap E = {}, E \subseteq ended',
         ended \subseteq ended', foreign' = foreign,
         open' \subseteq open \cup (Txns \ (ended' \cup foreign)),
         \A q \in Procs : req'[q].pc \in EndSteps => req'[q] = req[q]
  PROVE  EndIsExclusive' /\ \A x \in Txns : outcome[x] # "none" => outcome'[x] = outcome[x]
<1>1. E \subseteq Txns
  BY DEF EndInv, TypeOK
<1>2. \A x \in Txns : outcome'[x] = IF x \in E THEN how ELSE outcome[x]
  OBVIOUS
<1>3. \A x \in Txns : Recorded(x)
  BY DEF EndInv, EndIsExclusive, Recorded
<1>4. ASSUME NEW x \in Txns, outcome'[x] # "none"
      PROVE  x \notin open' /\ x \in ended' \cup foreign'
  <2>1. CASE x \in E
    BY <2>1
  <2>2. CASE x \notin E
    BY <1>2, <1>3, <1>4, <2>2 DEF Recorded
  <2> QED
    BY <2>1, <2>2
<1>5. ASSUME NEW p \in Procs, req'[p].pc \in EndSteps
      PROVE  /\ outcome'[req'[p].x] = "none"
             /\ req'[p].x \in ended' \ open'
             /\ \A q \in Procs : req'[q].pc \in EndSteps /\ req'[q].x = req'[p].x => q = p
  <2>1. req'[p] = req[p] /\ req[p].pc \in EndSteps
    BY <1>5
  <2>2. Ending(p)
    BY DEF EndInv, EndIsExclusive, Ending
  <2>3. req[p].x \in Txns
    BY <2>1, RequestTypes DEF EndInv, Ends
  <2>4. req[p].x \notin E
    BY <2>1, <2>2 DEF Ending
  <2> QED
    BY <1>2, <2>1, <2>2, <2>3, <2>4 DEF Ending
<1>6. ASSUME NEW x \in Txns, outcome[x] # "none" PROVE outcome'[x] = outcome[x]
  BY <1>2, <1>3, <1>6 DEF Recorded
<1> QED
  BY <1>4, <1>5, <1>6 DEF EndIsExclusive

\* A request ending its transaction x goes on, without a record.
LEMMA EndingMoves ==
  ASSUME EndInv, NEW p \in Procs, NEW r, req[p].pc \in EndSteps,
         req' = [req EXCEPT ![p] = r], r.x = req[p].x, r.pc \in EndSteps,
         UNCHANGED <<open, ended, foreign, outcome>>
  PROVE  EndIsExclusive'
<1>1. req'[p] = r /\ \A q \in Procs : q # p => req'[q] = req[q]
  BY DEF EndInv, TypeOK
<1> QED
  BY <1>1 DEF EndInv, EndIsExclusive

\* A request ending its transaction x is over: it recorded the end, or put x
\* back, or was dropped.
LEMMA EndingOver ==
  ASSUME EndInv, NEW p \in Procs, req[p].pc \in EndSteps,
         req' = [req EXCEPT ![p] = Idle], foreign' = foreign,
         \/ /\ UNCHANGED <<open, ended>>
            /\ \E how \in Outcomes : outcome' = [outcome EXCEPT ![req[p].x] = how]
         \/ UNCHANGED <<open, ended, outcome>>
         \/ /\ open' = open \cup {req[p].x} /\ ended' = ended \ {req[p].x}
            /\ UNCHANGED outcome
  PROVE  EndIsExclusive' /\ \A x \in Txns : outcome[x] # "none" => outcome'[x] = outcome[x]
<1> DEFINE y == req[p].x
<1>1. req'[p] = Idle /\ \A q \in Procs : q # p => req'[q] = req[q]
  BY DEF EndInv, TypeOK
<1>2. Idle.pc \notin EndSteps
  BY IdleField DEF EndSteps
<1>3. Ending(p) /\ y \in Txns
  BY RequestTypes DEF EndInv, EndIsExclusive, Ending, Ends
<1>4. \A x \in Txns : Recorded(x)
  BY DEF EndInv, EndIsExclusive, Recorded
<1>5. \A x \in Txns : x # y => outcome'[x] = outcome[x]
  BY <1>3 DEF EndInv, TypeOK
<1>6. \A x \in Txns : outcome[x] # "none" => outcome'[x] = outcome[x]
  BY <1>3, <1>5 DEF Ending
<1>7. \A x : x # y => (x \in open' <=> x \in open) /\ (x \in ended' <=> x \in ended)
  OBVIOUS
<1>8. ASSUME NEW x \in Txns, outcome'[x] # "none"
      PROVE  x \notin open' /\ x \in ended' \cup foreign'
  <2>1. CASE x = y
    BY <1>3, <1>8, <2>1 DEF Ending
  <2>2. CASE x # y
    BY <1>4, <1>5, <1>7, <1>8, <2>2 DEF Recorded
  <2> QED
    BY <2>1, <2>2
<1>9. ASSUME NEW q \in Procs, req'[q].pc \in EndSteps
      PROVE  /\ outcome'[req'[q].x] = "none"
             /\ req'[q].x \in ended' \ open'
             /\ \A s \in Procs : req'[s].pc \in EndSteps /\ req'[s].x = req'[q].x => s = q
  <2>1. q # p /\ req'[q] = req[q]
    BY <1>1, <1>2, <1>9
  <2>2. Ending(q)
    BY DEF EndInv, EndIsExclusive, Ending
  <2>3. req[q].x # y /\ req[q].x \in Txns
    BY <1>3, <1>9, <2>1, RequestTypes DEF EndInv, Ends, Ending
  <2> QED
    BY <1>1, <1>2, <1>5, <1>7, <1>9, <2>1, <2>2, <2>3 DEF Ending
<1> QED
  BY <1>6, <1>8, <1>9 DEF EndIsExclusive

\* A request that is not ending a transaction becomes another such request.
LEMMA StatementMoves ==
  ASSUME EndInv, NEW p \in Procs, NEW r, req' = [req EXCEPT ![p] = r],
         r.pc \notin EndSteps
  PROVE  \A q \in Procs : req'[q].pc \in EndSteps => req'[q] = req[q]
BY DEF EndInv, TypeOK

\* Nothing happens to the registry.
LEMMA QuietEnds ==
  ASSUME EndInv, UNCHANGED <<open, ended, foreign, outcome>>,
         \A q \in Procs : req'[q].pc \in EndSteps => req'[q] = req[q]
  PROVE  EndIsExclusive' /\ \A x \in Txns : outcome[x] # "none" => outcome'[x] = outcome[x]
BY DEF EndInv, EndIsExclusive

----------------------------------------------------------------------------
(* One lemma per action that touches the registry. *)

LEMMA StatementEnds ==
  ASSUME EndInv, NEW p \in Procs, NEW x \in Txns, NEW t \in Tables,
         Statement(p, x, t)
  PROVE  EndIsExclusive' /\ \A y \in Txns : outcome[y] # "none" => outcome'[y] = outcome[y]
<1> DEFINE r == StatementAt("plan", x, t, <<x, writes[x] + 1>>, {}, {})
<1>1. req' = [req EXCEPT ![p] = r] /\ r.pc \notin EndSteps
  BY StatementFields DEF Statement, EndSteps
<1>2. \A q \in Procs : req'[q].pc \in EndSteps => req'[q] = req[q]
  <2> HIDE DEF r
  <2> QED
    BY <1>1, StatementMoves
<1>3. PICK E \in SUBSET open :
        /\ x \notin ended \cup E
        /\ EndAll(E, "expired")
        /\ open' = (open \ E) \cup {x}
        /\ ended' = ended \cup E
  BY DEF Statement
<1>4. outcome' = [y \in Txns |-> IF y \in E THEN "expired" ELSE outcome[y]]
  BY <1>3 DEF EndAll
<1>5. "expired" \in Outcomes
  BY DEF Outcomes
<1>6. x \notin foreign /\ foreign' = foreign
  BY DEF Statement
<1>7. open' \cap E = {} /\ open' \subseteq open \cup (Txns \ (ended' \cup foreign))
  BY <1>3, <1>6
<1> HIDE DEF r
<1> QED
  BY <1>2, <1>3, <1>4, <1>5, <1>6, <1>7, SweepEnds

LEMMA QuietStatementEnds ==
  ASSUME EndInv, NEW x \in Txns, QuietStatement(x)
  PROVE  EndIsExclusive' /\ \A y \in Txns : outcome[y] # "none" => outcome'[y] = outcome[y]
<1>1. req' = req
  BY DEF QuietStatement
<1>2. CASE x \in foreign /\ UNCHANGED registryVars
  BY <1>1, <1>2, QuietEnds DEF registryVars
<1>3. CASE x \notin foreign /\ UNCHANGED foreign
  <2>1. PICK E \in SUBSET open :
          /\ EndAll(E, "expired")
          /\ ended' = ended \cup E
          /\ \/ x \in ended \cup E /\ open' = open \ E
             \/ x \notin ended \cup E /\ open' = (open \ E) \cup {x}
             \/ open' = open /\ E = {}
    BY <1>3 DEF QuietStatement
  <2>2. outcome' = [y \in Txns |-> IF y \in E THEN "expired" ELSE outcome[y]]
    BY <2>1 DEF EndAll
  <2>3. "expired" \in Outcomes
    BY DEF Outcomes
  <2>4. open' \cap E = {} /\ open' \subseteq open \cup (Txns \ (ended' \cup foreign))
    BY <1>3, <2>1
  <2> QED
    BY <1>1, <1>3, <2>1, <2>2, <2>3, <2>4, SweepEnds
<1> QED
  BY <1>2, <1>3 DEF QuietStatement

LEMMA EndWithoutOpenEnds ==
  ASSUME EndInv, NEW x \in Txns, NEW commit \in BOOLEAN, EndWithoutOpen(x, commit)
  PROVE  EndIsExclusive' /\ \A y \in Txns : outcome[y] # "none" => outcome'[y] = outcome[y]
<1>1. req' = req
  BY DEF EndWithoutOpen
<1>2. CASE UNCHANGED registryVars
  BY <1>1, <1>2, QuietEnds DEF registryVars
<1>3. CASE ~UNCHANGED registryVars
  <2>1. PICK E \in SUBSET open :
          /\ EndAll(E, "expired")
          /\ open' = open \ E
          /\ ended' = ended \cup E \cup {x}
    BY <1>3 DEF EndWithoutOpen
  <2>2. outcome' = [y \in Txns |-> IF y \in E THEN "expired" ELSE outcome[y]]
    BY <2>1 DEF EndAll
  <2>3. "expired" \in Outcomes /\ foreign' = foreign
    BY <1>3 DEF Outcomes, EndWithoutOpen
  <2> QED
    BY <1>1, <2>1, <2>2, <2>3, SweepEnds
<1> QED
  BY <1>2, <1>3

\* COMMIT or ROLLBACK takes the transaction out of the open ones, and nobody
\* else was ending it.
LEMMA EndEnds ==
  ASSUME EndInv, NEW p \in Procs, NEW x \in Txns, NEW commit \in BOOLEAN,
         End(p, x, commit)
  PROVE  EndIsExclusive' /\ \A y \in Txns : outcome[y] # "none" => outcome'[y] = outcome[y]
<1> DEFINE r == EndAt(IF commit THEN "prepare" ELSE "rollback", x, NoTables, 1)
<1>1. req' = [req EXCEPT ![p] = r] /\ r.pc \in EndSteps /\ r.x = x
  BY EndFields DEF End, EndSteps
<1>2. req'[p] = r /\ \A q \in Procs : q # p => req'[q] = req[q]
  BY <1>1 DEF EndInv, TypeOK
<1> HIDE DEF r
<1>3. PICK E \in SUBSET (open \ {x}) :
        /\ x \in open
        /\ outcome' = [y \in Txns |-> IF y \in E THEN "expired" ELSE outcome[y]]
        /\ open' = open \ (E \cup {x})
        /\ ended' = ended \cup E \cup {x}
  BY DEF End
<1>4. foreign' = foreign
  BY DEF End
<1>5. \A y \in Txns : Recorded(y)
  BY DEF EndInv, EndIsExclusive, Recorded
<1>6. \A y \in Txns : outcome'[y] = IF y \in E THEN "expired" ELSE outcome[y]
  BY <1>3
<1>7. \A y \in Txns : outcome[y] # "none" => outcome'[y] = outcome[y]
  BY <1>3, <1>5, <1>6 DEF Recorded
<1>8. ASSUME NEW y \in Txns, outcome'[y] # "none"
      PROVE  y \notin open' /\ y \in ended' \cup foreign'
  BY <1>3, <1>4, <1>5, <1>6, <1>8 DEF Recorded
<1>9. outcome'[x] = "none" /\ x \in ended' \ open'
  BY <1>3, <1>5, <1>6 DEF Recorded
<1>10. ASSUME NEW q \in Procs, q # p, req[q].pc \in EndSteps
       PROVE  /\ req[q].x # x
              /\ outcome'[req[q].x] = "none"
              /\ req[q].x \in ended' \ open'
              /\ \A s \in Procs : req[s].pc \in EndSteps /\ req[s].x = req[q].x => s = q
  <2>1. Ending(q)
    BY DEF EndInv, EndIsExclusive, Ending
  <2>2. req[q].x \in Txns
    BY <1>10, RequestTypes DEF EndInv, Ends
  <2> QED
    BY <1>3, <1>6, <1>10, <2>1, <2>2 DEF Ending
<1> QED
  BY <1>1, <1>2, <1>7, <1>8, <1>9, <1>10 DEF EndIsExclusive

LEMMA EndStepsEnds ==
  ASSUME EndInv, NEW p \in Procs,
         \/ Prepare(p) \/ Publish(p) \/ PublishRefused(p) \/ PublishFails(p)
         \/ FinishEnd(p) \/ Cancelled(p)
  PROVE  EndIsExclusive' /\ \A y \in Txns : outcome[y] # "none" => outcome'[y] = outcome[y]
<1> DEFINE x == req[p].x
<1>0. req[p].pc \in EndSteps /\ foreign' = foreign
  BY DEF Prepare, Publish, PublishRefused, PublishFails, FinishEnd, Cancelled,
         EndSteps
<1>1. CASE Committed(p)
  <2>1. "committed" \in Outcomes
    BY DEF Outcomes
  <2> QED
    BY <1>0, <1>1, <2>1, EndingOver DEF Committed
<1>2. CASE Reopen(p)
  BY <1>0, <1>2, EndingOver DEF Reopen
<1>3. ASSUME NEW step \in EndSteps, NEW heads, NEW n,
             req' = [req EXCEPT ![p] = EndAt(step, x, heads, n)],
             UNCHANGED <<open, ended, outcome>>
      PROVE  EndIsExclusive' /\ \A y \in Txns : outcome[y] # "none" => outcome'[y] = outcome[y]
  <2> DEFINE r == EndAt(step, x, heads, n)
  <2>1. r.pc = step /\ r.x = x /\ req' = [req EXCEPT ![p] = r]
    BY <1>3, EndFields
  <2> HIDE DEF r
  <2>2. EndIsExclusive'
    BY <1>0, <1>3, <2>1, EndingMoves
  <2> QED
    BY <1>3, <2>2
<1>4. CASE Lost(p)
  <2>1. "conflict" \in EndSteps
    BY DEF EndSteps
  <2> QED
    BY <1>3, <1>4, <2>1 DEF Lost
<1>5. CASE Prepare(p)
  <2> DEFINE ts == {t \in claimed[x] : ~Skipped(x, t)}
             heads == [t \in Tables |-> IF t \in ts THEN branch[x][t] ELSE {}]
  <2>1. \/ Committed(p) \/ Lost(p)
        \/ /\ req' = [req EXCEPT ![p] = EndAt("commit", x, heads, req[p].attempt)]
           /\ UNCHANGED <<open, ended, outcome>>
    BY <1>5 DEF Prepare
  <2>2. "commit" \in EndSteps
    BY DEF EndSteps
  <2> HIDE DEF heads
  <2> QED
    BY <1>1, <1>3, <1>4, <2>1, <2>2
<1>6. CASE PublishRefused(p)
  <2>1. \/ Lost(p)
        \/ /\ req' = [req EXCEPT ![p] = EndAt("prepare", x, NoTables, req[p].attempt + 1)]
           /\ UNCHANGED <<open, ended, outcome>>
    BY <1>6 DEF PublishRefused
  <2>2. "prepare" \in EndSteps
    BY DEF EndSteps
  <2> QED
    BY <1>3, <1>4, <2>1, <2>2
<1>7. CASE Publish(p) \/ PublishFails(p)
  BY <1>1, <1>2, <1>7 DEF Publish, PublishFails
<1>8. CASE FinishEnd(p)
  <2>1. \E how \in Outcomes : outcome' = [outcome EXCEPT ![x] = how]
    BY <1>8 DEF FinishEnd, Outcomes
  <2>2. req' = [req EXCEPT ![p] = Idle] /\ UNCHANGED <<open, ended>>
    BY <1>8 DEF FinishEnd
  <2> QED
    BY <1>0, <2>1, <2>2, EndingOver
<1>9. CASE Cancelled(p)
  <2>1. req' = [req EXCEPT ![p] = Idle] /\ UNCHANGED <<open, ended, outcome>>
    BY <1>9 DEF Cancelled
  <2> QED
    BY <1>0, <2>1, EndingOver
<1> QED
  BY <1>5, <1>6, <1>7, <1>8, <1>9

\* The ends nobody asked for.
LEMMA AbandonEnds ==
  ASSUME EndInv, (\E x \in Txns : Abandon(x)) \/ Shutdown
  PROVE  EndIsExclusive' /\ \A y \in Txns : outcome[y] # "none" => outcome'[y] = outcome[y]
<1>1. PICK E \in SUBSET open, how \in Outcomes :
        /\ EndAll(E, how) /\ open' = open \ E /\ ended' = ended \cup E
  <2>1. ASSUME NEW x \in Txns, Abandon(x)
        PROVE  \E E \in SUBSET open, how \in Outcomes :
                 EndAll(E, how) /\ open' = open \ E /\ ended' = ended \cup E
    <3>1. {x} \in SUBSET open /\ "session_ended" \in Outcomes
      BY <2>1 DEF Abandon, Outcomes
    <3> QED
      BY <2>1, <3>1 DEF Abandon
  <2>2. ASSUME Shutdown
        PROVE  \E E \in SUBSET open, how \in Outcomes :
                 EndAll(E, how) /\ open' = open \ E /\ ended' = ended \cup E
    <3>1. open \in SUBSET open /\ "shutdown" \in Outcomes
      BY DEF Outcomes
    <3>2. open' = open \ open
      BY <2>2 DEF Shutdown
    <3> QED
      BY <2>2, <3>1, <3>2 DEF Shutdown
  <2> QED
    BY <2>1, <2>2
<1>2. outcome' = [y \in Txns |-> IF y \in E THEN how ELSE outcome[y]]
  BY <1>1 DEF EndAll
<1>3. req' = req /\ foreign' = foreign
  BY DEF Abandon, Shutdown
<1> QED
  BY <1>1, <1>2, <1>3, SweepEnds

\* A restart moves every refused id to another incarnation.
LEMMA CrashEnds ==
  ASSUME EndInv, Crash
  PROVE  EndIsExclusive' /\ \A y \in Txns : outcome[y] # "none" => outcome'[y] = outcome[y]
<1>1. \A p \in Procs : req'[p].pc \notin EndSteps
  BY IdleField DEF Crash, EndSteps
<1> QED
  BY <1>1 DEF Crash, EndInv, EndIsExclusive

\* An end record stays as it is, or goes with the id that is forgotten.
RecordStays(y) ==
  outcome[y] # "none" =>
    \/ outcome'[y] = outcome[y]
    \/ outcome'[y] = "none" /\ y \in ended \ ended'

\* A forgotten id has no end record, and no request is ending it.
LEMMA ForgetEnds ==
  ASSUME EndInv, NEW x \in Txns, Forget(x)
  PROVE  EndIsExclusive' /\ \A y \in Txns : RecordStays(y)
<1>1. TypeOK /\ EndIsExclusive
  BY DEF EndInv
<1>2. /\ UNCHANGED <<open, foreign, req>> /\ ended' = ended \ {x} /\ x \in ended
      /\ outcome'[x] = "none" /\ \A y \in Txns : y # x => outcome'[y] = outcome[y]
  BY <1>1 DEF Forget, TypeOK
<1>3. \A p \in Procs : req[p].pc \in EndSteps => req[p].x # x /\ req[p].x \in Txns
  BY <1>1, RequestTypes DEF Forget, Busy, EndSteps, Ends
<1>4. \A y \in Txns : RecordStays(y)
  BY <1>2 DEF RecordStays
<1> QED
  BY <1>1, <1>2, <1>3, <1>4 DEF EndIsExclusive

LEMMA StepKeepsRecords ==
  ASSUME EndInv, [Next]_vars, \A x \in Txns : ~Forget(x)
  PROVE  /\ EndIsExclusive'
         /\ \A y \in Txns : outcome[y] # "none" => outcome'[y] = outcome[y]
<1> DEFINE Goal == /\ EndIsExclusive'
                   /\ \A y \in Txns : outcome[y] # "none" => outcome'[y] = outcome[y]
<1>1. ASSUME NEW p \in Procs,
             Plan(p) \/ Claim(p) \/ Create(p) \/ Write(p) \/ StatementFails(p)
      PROVE  Goal
  <2>1. UNCHANGED <<open, ended, foreign, outcome>>
    BY <1>1 DEF Plan, Claim, Create, Write, StatementFails, registryVars
  <2>2. \E r : req' = [req EXCEPT ![p] = r] /\ r.pc \notin EndSteps
    <3>1. \/ req' = [req EXCEPT ![p] = Idle]
          \/ \E step \in StatementSteps : \E x, t, w, seen, cand :
               req' = [req EXCEPT ![p] = StatementAt(step, x, t, w, seen, cand)]
      BY <1>1 DEF Plan, Claim, Create, Write, StatementFails, StatementSteps
    <3> QED
      BY <3>1, StatementFields, IdleField DEF StatementSteps, EndSteps
  <2>3. \A q \in Procs : req'[q].pc \in EndSteps => req'[q] = req[q]
    BY <2>2, StatementMoves
  <2> QED
    BY <2>1, <2>3, QuietEnds
<1>2. ASSUME NEW p \in Procs, RequestStep(p) PROVE Goal
  BY <1>1, <1>2, EndStepsEnds DEF RequestStep
<1>3. ASSUME NEW x \in Txns, NEW t \in Tables,
             DropBranch(x, t) \/ DropStale(x, t) \/ UserDrop(x, t)
      PROVE  Goal
  <2>1. UNCHANGED <<open, ended, foreign, outcome, req>>
    BY <1>3 DEF DropBranch, DropStale, UserDrop, registryVars
  <2> QED
    BY <2>1, QuietEnds
<1>4. ASSUME NEW t \in Tables, OutsideWrite(t) PROVE Goal
  <2>1. UNCHANGED <<open, ended, foreign, outcome, req>>
    BY <1>4 DEF OutsideWrite, registryVars
  <2> QED
    BY <2>1, QuietEnds
<1>5. ASSUME UNCHANGED vars PROVE Goal
  <2>1. UNCHANGED <<open, ended, foreign, outcome, req>>
    BY <1>5 DEF vars
  <2> QED
    BY <2>1, QuietEnds
<1>6. ASSUME (\E x \in Txns : Abandon(x)) \/ Shutdown PROVE Goal
  BY <1>6, AbandonEnds
<1>7. ASSUME Crash PROVE Goal
  BY <1>7, CrashEnds
<1>8. ASSUME NEW x \in Txns, QuietStatement(x) PROVE Goal
  BY <1>8, QuietStatementEnds
<1>9. ASSUME NEW x \in Txns, NEW commit \in BOOLEAN, EndWithoutOpen(x, commit)
      PROVE  Goal
  BY <1>9, EndWithoutOpenEnds
<1>10. ASSUME NEW p \in Procs, NEW x \in Txns, NEW t \in Tables, Statement(p, x, t)
       PROVE  Goal
  BY <1>10, StatementEnds
<1>11. ASSUME NEW p \in Procs, NEW x \in Txns, NEW commit \in BOOLEAN, End(p, x, commit)
       PROVE  Goal
  BY <1>11, EndEnds
<1>12. Goal
  <2> HIDE DEF Goal
  <2> QED
    BY <1>2, <1>3, <1>4, <1>5, <1>6, <1>7, <1>8, <1>9, <1>10, <1>11 DEF Next
<1> QED
  BY <1>12

LEMMA StepEnds ==
  ASSUME EndInv, [Next]_vars
  PROVE  EndIsExclusive' /\ \A y \in Txns : RecordStays(y)
<1>1. CASE \E x \in Txns : Forget(x)
  BY <1>1, ForgetEnds
<1>2. CASE \A x \in Txns : ~Forget(x)
  BY <1>2, StepKeepsRecords DEF RecordStays
<1> QED
  BY <1>1, <1>2

LEMMA NextEndInv == EndInv /\ [Next]_vars => EndInv'
BY NextTypeOK, StepEnds DEF EndInv

\* However many requests of a transaction run at once, one of them ends it
\* and has it alone while it does, and nothing ends it again as long as the
\* registry remembers; the ids it forgets are part of it.
THEOREM EndingIsExclusive == Spec => []EndIsExclusive
<1>1. Init => EndInv
  BY InitEndInv
<1>2. EndInv /\ [Next]_vars => EndInv'
  BY NextEndInv
<1>3. EndInv => EndIsExclusive
  BY DEF EndInv
<1> QED
  BY <1>1, <1>2, <1>3, PTL DEF Spec

\* The end record of a transaction is written at most once, and goes only
\* when the registry forgets the id.
THEOREM OneEndRecord == Spec => EndsOnce
<1>1. Init => EndInv
  BY InitEndInv
<1>2. EndInv /\ [Next]_vars => EndInv'
  BY NextEndInv
<1>3. EndInv /\ [Next]_vars =>
        [\A x \in Txns :
           outcome[x] # "none" => \/ outcome'[x] = outcome[x]
                                  \/ outcome'[x] = "none" /\ x \in ended \ ended']_vars
  BY StepEnds DEF RecordStays
<1> QED
  BY <1>1, <1>2, <1>3, PTL DEF Spec, EndsOnce

-----------------------------------------------------------------------------
(***************************************************************************)
(* What COMMIT publishes, for a client that waits for each request of a    *)
(* transaction before the next: the writes of a transaction reach main     *)
(* once, all the acknowledged ones together, and nobody else's with them.  *)
(* Each invariant is a predicate of one transaction or of one request, and *)
(* a step of one transaction leaves what is said of the others alone.      *)
(***************************************************************************)


\* A snapshot of main of t without a write of x.
Clean(x, t, snapshot) ==
  snapshot \subseteq main[t] /\ snapshot \cap WritesOf(x) = {}

\* The registry knows the transaction.
Registered(x) == x \in open \cup ended

\* No id of an earlier incarnation is in the registry.
Incarnations == (open \cup ended) \cap foreign = {}

\* What a request in flight relies on: an unclaimed table was read from main
\* before anything of the transaction was on it, and a table that COMMIT
\* leaves out has no write of it.
RequestOK(p) ==
  LET x == req[p].x  t == req[p].t
  IN /\ req[p].pc # "idle" => Registered(x)
     /\ req[p].pc \in StatementSteps => req[p].w \in WritesOf(x)
     /\ req[p].pc = "claim" /\ t \notin claimed[x] =>
          Clean(x, t, req[p].seen) /\ branch[x][t] \subseteq req[p].seen
     /\ req[p].pc = "create" => Clean(x, t, req[p].cand)
     /\ req[p].pc = "write" => t \in claimed[x]
     /\ req[p].pc = "commit" =>
          \A u \in Tables : req[p].heads[u] = {} => main[u] \cap WritesOf(x) = {}

\* What a transaction holds: its branch of a claimed table is a snapshot of
\* main with writes of its own, and only claimed tables have those on main.
TxnOK(x) ==
  /\ claimed[x] # {} => Registered(x)
  /\ acked[x] # {} => Registered(x) \/ x \in foreign
  /\ \A t \in claimed[x] :
       /\ Clean(x, t, base[x][t])
       /\ branch[x][t] \subseteq base[x][t] \cup WritesOf(x)
  /\ x \notin foreign => \A t \in Tables \ claimed[x] : branch[x][t] \subseteq main[t]
  /\ x \notin foreign => \A t \in Tables \ claimed[x] : main[t] \cap WritesOf(x) = {}

CommitParts ==
  /\ Incarnations
  /\ \A p \in Procs : RequestOK(p)
  /\ \A x \in Txns : TxnOK(x)

CommitInv == MainInv /\ EndInv /\ CommitParts

----------------------------------------------------------------------------
\* Within ENDED_RETENTION no id is forgotten.
LEMMA Remembered ==
  ASSUME "forget" \notin Faults
  PROVE  \A x \in Txns : ~Forget(x)
BY DEF Forget, Fault

LEMMA WritesOfApart ==
  ASSUME NEW x, NEW y, x # y
  PROVE  WritesOf(x) \cap WritesOf(y) = {}
BY DEF WritesOf

\* The part of the state a step of x leaves to the transaction y.
Spared(y) ==
  /\ claimed'[y] = claimed[y] /\ base'[y] = base[y] /\ acked'[y] = acked[y]
  /\ \A t \in Tables : branch'[y][t] \subseteq branch[y][t]
  /\ Registered(y) => Registered(y)'
  /\ \A t \in Tables :
       main[t] \subseteq main'[t] /\ main'[t] \cap WritesOf(y) \subseteq main[t]

LEMMA RequestSpared ==
  ASSUME CommitInv, NEW p \in Procs, req'[p] = req[p],
         req[p].pc # "idle" => Spared(req[p].x)
  PROVE  RequestOK(p)'
<1> SUFFICES ASSUME req[p].pc # "idle" PROVE RequestOK(p)'
  BY DEF RequestOK, StatementSteps
<1> DEFINE x == req[p].x
           t == req[p].t
<1>1. RequestOK(p)
  BY DEF CommitInv, CommitParts
<1>2. req[p].pc \in StatementSteps => t \in Tables
  BY RequestTypes DEF CommitInv, MainInv, Statements
<1>3. Registered(x)'
  BY <1>1 DEF RequestOK, Spared
<1>4. (req[p].pc = "claim" /\ t \notin claimed[x] =>
        Clean(x, t, req[p].seen) /\ branch[x][t] \subseteq req[p].seen)'
  BY <1>1, <1>2 DEF RequestOK, Spared, Clean, StatementSteps
<1>5. (req[p].pc = "create" => Clean(x, t, req[p].cand))'
  BY <1>1, <1>2 DEF RequestOK, Spared, Clean, StatementSteps
<1>6. (req[p].pc = "write" => t \in claimed[x])'
  BY <1>1 DEF RequestOK, Spared
<1>7. (req[p].pc = "commit" =>
        \A u \in Tables : req[p].heads[u] = {} => main[u] \cap WritesOf(x) = {})'
  BY <1>1 DEF RequestOK, Spared
<1>8. (req[p].pc \in StatementSteps => req[p].w \in WritesOf(x))'
  BY <1>1 DEF RequestOK
<1> QED
  BY <1>3, <1>4, <1>5, <1>6, <1>7, <1>8 DEF RequestOK

LEMMA TxnSpared ==
  ASSUME CommitInv, NEW x \in Txns, Spared(x), foreign' = foreign
  PROVE  TxnOK(x)'
<1>1. TxnOK(x)
  BY DEF CommitInv, CommitParts
<1>2. claimed[x] \subseteq Tables
  BY DEF CommitInv, MainInv, TypeOK
<1>3. (claimed[x] # {} => Registered(x))'
  BY <1>1 DEF TxnOK, Spared
<1>4. (acked[x] # {} => Registered(x) \/ x \in foreign)'
  BY <1>1 DEF TxnOK, Spared
<1>5. (\A t \in claimed[x] :
         /\ Clean(x, t, base[x][t])
         /\ branch[x][t] \subseteq base[x][t] \cup WritesOf(x))'
  BY <1>1, <1>2 DEF TxnOK, Spared, Clean
<1>6. (x \notin foreign => \A t \in Tables \ claimed[x] : branch[x][t] \subseteq main[t])'
  BY <1>1 DEF TxnOK, Spared
<1>7. (x \notin foreign =>
         \A t \in Tables \ claimed[x] : main[t] \cap WritesOf(x) = {})'
  BY <1>1 DEF TxnOK, Spared
<1> QED
  BY <1>3, <1>4, <1>5, <1>6, <1>7 DEF TxnOK

\* A step that moves no request.
LEMMA AsideCommits ==
  ASSUME CommitInv, req' = req, foreign' = foreign, Incarnations',
         \A x \in Txns : Spared(x)
  PROVE  CommitParts'
<1>1. ASSUME NEW p \in Procs PROVE RequestOK(p)'
  <2>1. req[p].pc # "idle" => req[p].x \in Txns
    BY RequestTypes DEF CommitInv, MainInv, StatementSteps, Statements, EndSteps, Ends
  <2> QED
    BY <2>1, RequestSpared
<1> QED
  BY <1>1, TxnSpared DEF CommitParts

\* A step of the request p of the transaction x, which has no other.
LEMMA OwnStepCommits ==
  ASSUME CommitInv, NEW p \in Procs, NEW x \in Txns, NEW r,
         req' = [req EXCEPT ![p] = r],
         \A q \in Procs : req[q].pc # "idle" /\ req[q].x = x => q = p,
         foreign' = foreign, Incarnations',
         \A y \in Txns : y # x => Spared(y),
         RequestOK(p)', TxnOK(x)'
  PROVE  CommitParts'
<1>1. ASSUME NEW q \in Procs, q # p PROVE RequestOK(q)'
  <2>1. req[q].pc # "idle" => req[q].x \in Txns
    BY RequestTypes DEF CommitInv, MainInv, StatementSteps, Statements, EndSteps, Ends
  <2>2. req'[q] = req[q]
    BY <1>1 DEF CommitInv, MainInv, TypeOK
  <2> QED
    BY <1>1, <2>1, <2>2, RequestSpared
<1>2. ASSUME NEW y \in Txns, y # x PROVE TxnOK(y)'
  BY <1>2, TxnSpared
<1> QED
  BY <1>1, <1>2 DEF CommitParts

----------------------------------------------------------------------------
LEMMA InitCommitInv == Init => CommitInv
<1> SUFFICES ASSUME Init PROVE CommitInv
  OBVIOUS
<1>1. MainInv /\ EndInv
  BY InitMainInv, InitEndInv
<1>2. \A p \in Procs : req[p].pc = "idle"
  BY IdleField DEF Init
<1>3. Incarnations
  BY DEF Init, Incarnations
<1>4. \A p \in Procs : RequestOK(p)
  BY <1>2 DEF RequestOK, StatementSteps
<1>5. ASSUME NEW x \in Txns PROVE TxnOK(x)
  <2>1. claimed[x] = {} /\ acked[x] = {} /\ branch[x] = NoTables
    BY DEF Init
  <2>2. \A t \in Tables : main[t] \cap WritesOf(x) = {}
    BY TxnConstants DEF Init, WritesOf
  <2> QED
    BY <2>1, <2>2 DEF TxnOK, NoTables
<1> QED
  BY <1>1, <1>3, <1>4, <1>5 DEF CommitInv, CommitParts

\* The registry is swept, opens or refuses an id of this incarnation, or
\* ends transactions.
LEMMA RegistryMoves ==
  ASSUME Incarnations,
         \/ \E x \in Txns : QuietStatement(x)
         \/ \E x \in Txns, commit \in BOOLEAN : EndWithoutOpen(x, commit)
         \/ \E x \in Txns : Abandon(x)
         \/ Shutdown
  PROVE  /\ UNCHANGED <<main, branch, claimed, base, key, req, acked, foreign>>
         /\ Incarnations'
         /\ \A y \in Txns : Registered(y) => Registered(y)'
<1>1. UNCHANGED <<main, branch, claimed, base, key, req, acked, foreign>>
  BY DEF QuietStatement, EndWithoutOpen, Abandon, Shutdown, catalogVars,
         scopeVars, clientVars, registryVars
<1>2. ASSUME NEW x \in Txns, QuietStatement(x)
      PROVE  Incarnations' /\ \A y \in Txns : Registered(y) => Registered(y)'
  <2>1. CASE UNCHANGED registryVars
    BY <2>1 DEF registryVars, Incarnations, Registered
  <2>2. CASE x \notin foreign
    <3>1. PICK E \in SUBSET open :
            /\ ended' = ended \cup E
            /\ open' = open \ E \/ open' = (open \ E) \cup {x}
      BY <1>2, <2>2 DEF QuietStatement
    <3> QED
      BY <1>1, <2>2, <3>1 DEF Incarnations, Registered
  <2> QED
    BY <1>2, <2>1, <2>2 DEF QuietStatement
<1>3. ASSUME NEW x \in Txns, NEW commit \in BOOLEAN, EndWithoutOpen(x, commit)
      PROVE  Incarnations' /\ \A y \in Txns : Registered(y) => Registered(y)'
  <2>1. CASE UNCHANGED registryVars
    BY <2>1 DEF registryVars, Incarnations, Registered
  <2>2. CASE x \notin foreign
    <3>1. PICK E \in SUBSET open :
            ended' = ended \cup E \cup {x} /\ open' = open \ E
      BY <1>3, <2>2 DEF EndWithoutOpen
    <3> QED
      BY <1>1, <2>2, <3>1 DEF Incarnations, Registered
  <2> QED
    BY <1>3, <2>1, <2>2 DEF EndWithoutOpen
<1>4. ASSUME NEW x \in Txns, Abandon(x)
      PROVE  Incarnations' /\ \A y \in Txns : Registered(y) => Registered(y)'
  BY <1>1, <1>4 DEF Abandon, Incarnations, Registered
<1>5. ASSUME Shutdown
      PROVE  Incarnations' /\ \A y \in Txns : Registered(y) => Registered(y)'
  BY <1>1, <1>5 DEF Shutdown, Incarnations, Registered
<1> QED
  BY <1>1, <1>2, <1>3, <1>4, <1>5

LEMMA RegistryCommits ==
  ASSUME CommitInv,
         \/ \E x \in Txns : QuietStatement(x)
         \/ \E x \in Txns, commit \in BOOLEAN : EndWithoutOpen(x, commit)
         \/ \E x \in Txns : Abandon(x)
         \/ Shutdown
  PROVE  CommitParts'
<1>1. Incarnations
  BY DEF CommitInv, CommitParts
<1>2. /\ UNCHANGED <<main, branch, claimed, base, key, req, acked, foreign>>
      /\ Incarnations'
      /\ \A y \in Txns : Registered(y) => Registered(y)'
  BY <1>1, RegistryMoves
<1>3. \A y \in Txns : Spared(y)
  BY <1>2 DEF Spared
<1> QED
  BY <1>2, <1>3, AsideCommits

\* A branch disappears.
LEMMA BranchGoes ==
  ASSUME TypeOK,
         \E x \in Txns, t \in Tables :
           DropBranch(x, t) \/ DropStale(x, t) \/ UserDrop(x, t)
  PROVE  /\ UNCHANGED <<main, open, ended, foreign, claimed, base, key, req,
                        acked, reply, outcome>>
         /\ \A x \in Txns, t \in Tables :
              branch'[x][t] = branch[x][t] \/ branch'[x][t] = {}
<1>1. UNCHANGED <<main, open, ended, foreign, claimed, base, key, req, acked,
                  reply, outcome>>
  BY DEF DropBranch, DropStale, UserDrop, registryVars, scopeVars, clientVars
<1>2. \/ branch' = branch
      \/ \E x \in Txns, t \in Tables : branch' = [branch EXCEPT ![x][t] = {}]
  BY DEF DropBranch, DropStale, UserDrop
<1>3. branch \in [Txns -> [Tables -> SUBSET Writes]]
  BY DEF TypeOK
<1> QED
  BY <1>1, <1>2, <1>3

LEMMA BranchGoesCommits ==
  ASSUME CommitInv,
         \E x \in Txns, t \in Tables :
           DropBranch(x, t) \/ DropStale(x, t) \/ UserDrop(x, t)
  PROVE  CommitParts'
<1>1. TypeOK
  BY DEF CommitInv, MainInv
<1>2. /\ UNCHANGED <<main, open, ended, foreign, claimed, base, key, req, acked>>
      /\ \A x \in Txns, t \in Tables :
           branch'[x][t] = branch[x][t] \/ branch'[x][t] = {}
  BY <1>1, BranchGoes
<1>3. \A y \in Txns : Spared(y)
  BY <1>2 DEF Spared, Registered
<1>4. Incarnations'
  BY <1>2 DEF CommitInv, CommitParts, Incarnations
<1> QED
  BY <1>2, <1>3, <1>4, AsideCommits

LEMMA OutsideWriteGains ==
  ASSUME TypeOK, NEW t \in Tables, OutsideWrite(t)
  PROVE  /\ UNCHANGED <<branch, open, ended, foreign, dropping, outcome, claimed,
                        base, key, req, acked, reply>>
         /\ \A u \in Tables :
              /\ main[u] \subseteq main'[u]
              /\ \A y \in Txns : main'[u] \cap WritesOf(y) \subseteq main[u]
<1>1. UNCHANGED <<branch, open, ended, foreign, dropping, outcome, claimed,
                  base, key, req, acked, reply>>
  BY DEF OutsideWrite, registryVars, scopeVars, clientVars
<1>2. main' = [main EXCEPT ![t] = @ \cup {<<Outside, writes[Outside] + 1>>}]
  BY DEF OutsideWrite
<1>3. main \in [Tables -> SUBSET Writes]
  BY DEF TypeOK
<1>4. \A y \in Txns : <<Outside, writes[Outside] + 1>> \notin WritesOf(y)
  BY TxnConstants DEF WritesOf
<1> QED
  BY <1>1, <1>2, <1>3, <1>4

LEMMA OutsideWriteCommits ==
  ASSUME CommitInv, NEW t \in Tables, OutsideWrite(t)
  PROVE  CommitParts'
<1>1. TypeOK
  BY DEF CommitInv, MainInv
<1>2. /\ UNCHANGED <<branch, open, ended, foreign, claimed, base, req, acked>>
      /\ \A u \in Tables :
           /\ main[u] \subseteq main'[u]
           /\ \A y \in Txns : main'[u] \cap WritesOf(y) \subseteq main[u]
  BY <1>1, OutsideWriteGains
<1>3. \A y \in Txns : Spared(y)
  BY <1>2 DEF Spared, Registered
<1>4. Incarnations'
  BY <1>2 DEF CommitInv, CommitParts, Incarnations
<1> QED
  BY <1>2, <1>3, <1>4, AsideCommits

\* A restart: every id in use becomes foreign, and nothing is claimed.
LEMMA CrashCommits ==
  ASSUME CommitInv, Crash
  PROVE  CommitParts'
<1>1. \A p \in Procs : req'[p].pc = "idle"
  BY IdleField DEF Crash
<1>2. \A p \in Procs : RequestOK(p)'
  BY <1>1 DEF RequestOK, StatementSteps
<1>3. Incarnations'
  BY DEF Crash, Incarnations
<1>4. ASSUME NEW x \in Txns PROVE TxnOK(x)'
  <2>1. /\ claimed'[x] = {} /\ foreign' = foreign \cup open \cup ended \cup forgotten
        /\ UNCHANGED <<main, branch, acked>>
    BY DEF Crash, catalogVars, clientVars
  <2>2. TxnOK(x) /\ claimed \in [Txns -> SUBSET Tables]
    BY DEF CommitInv, CommitParts, MainInv, TypeOK
  <2>3. x \notin foreign' => claimed[x] = {} /\ acked[x] = {}
    BY <2>1, <2>2 DEF TxnOK, Registered
  <2> QED
    BY <2>1, <2>2, <2>3 DEF TxnOK
<1> QED
  BY <1>2, <1>3, <1>4 DEF CommitParts

\* A request starts: its transaction had none, and is in the registry now.
LEMMA StartCommits ==
  ASSUME CommitInv, ~Concurrent, NEW p \in Procs, NEW x \in Txns,
         \/ \E t \in Tables : Statement(p, x, t)
         \/ \E commit \in BOOLEAN : End(p, x, commit)
  PROVE  CommitParts'
<1>1. /\ UNCHANGED <<main, branch, claimed, base, key, acked, foreign>>
      /\ \A q \in Procs : req[q].pc # "idle" /\ req[q].x = x => q = p
  BY DEF Statement, End, MayRequest, Busy, catalogVars, scopeVars, clientVars
<1>2. /\ Incarnations' /\ Registered(x)'
      /\ \A y \in Txns : Registered(y) => Registered(y)'
  <2>0. Incarnations
    BY DEF CommitInv, CommitParts
  <2>1. ASSUME NEW t \in Tables, Statement(p, x, t)
        PROVE  \E E \in SUBSET open : /\ open' = (open \ E) \cup {x}
                                      /\ ended' = ended \cup E
                                      /\ x \notin foreign
    BY <2>1 DEF Statement
  <2>2. ASSUME NEW commit \in BOOLEAN, End(p, x, commit)
        PROVE  \E E \in SUBSET open : /\ open' = open \ (E \cup {x})
                                      /\ ended' = ended \cup E \cup {x}
                                      /\ x \in open
    BY <2>2 DEF End
  <2>3. \E E \in SUBSET open :
          /\ open' = (open \ E) \cup {x} \/ open' = open \ (E \cup {x})
          /\ ended' = ended \cup E \/ ended' = ended \cup E \cup {x}
          /\ x \in open' \cup ended'
          /\ x \notin foreign
    BY <2>0, <2>1, <2>2 DEF Incarnations
  <2>4. PICK E \in SUBSET open :
          /\ open' = (open \ E) \cup {x} \/ open' = open \ (E \cup {x})
          /\ ended' = ended \cup E \/ ended' = ended \cup E \cup {x}
          /\ x \in open' \cup ended'
          /\ x \notin foreign
    BY <2>3
  <2> QED
    BY <1>1, <2>0, <2>4 DEF Incarnations, Registered
<1>3. \A y \in Txns : Spared(y)
  BY <1>1, <1>2 DEF Spared
<1>4. TxnOK(x)'
  BY <1>1, <1>3, TxnSpared
<1>5. \E r : /\ req' = [req EXCEPT ![p] = r] /\ r.x = x
             /\ r.pc \in StatementSteps => r.w \in WritesOf(x)
             /\ r.pc \in {"plan", "prepare", "rollback"}
  <2>1. ASSUME NEW t \in Tables, Statement(p, x, t)
        PROVE  /\ req' = [req EXCEPT ![p] =
                     StatementAt("plan", x, t, <<x, writes[x] + 1>>, {}, {})]
               /\ writes[x] + 1 \in 0..MaxWrites
    <3>1. writes \in [Writers -> 0..MaxWrites] /\ x \in Writers /\ MaxWrites \in Nat
      BY TxnConstants DEF CommitInv, MainInv, TypeOK, Writers
    <3> QED
      BY <2>1, <3>1 DEF Statement
  <2>2. \A t : LET r == StatementAt("plan", x, t, <<x, writes[x] + 1>>, {}, {})
               IN r.x = x /\ r.w = <<x, writes[x] + 1>> /\ r.pc = "plan"
    BY DEF StatementAt
  <2>3. ASSUME NEW commit \in BOOLEAN, End(p, x, commit)
        PROVE  \E step \in {"prepare", "rollback"} :
                 req' = [req EXCEPT ![p] = EndAt(step, x, NoTables, 1)]
    BY <2>3 DEF End
  <2>4. \A step : /\ EndAt(step, x, NoTables, 1).x = x
                  /\ EndAt(step, x, NoTables, 1).pc = step
    BY EndFields
  <2>5. CASE \E t \in Tables : Statement(p, x, t)
    BY <2>5, <2>1, <2>2 DEF WritesOf
  <2>6. CASE \E commit \in BOOLEAN : End(p, x, commit)
    BY <2>6, <2>3, <2>4 DEF StatementSteps
  <2> QED
    BY <2>5, <2>6
<1>6. PICK r : /\ req' = [req EXCEPT ![p] = r] /\ r.x = x
               /\ r.pc \in StatementSteps => r.w \in WritesOf(x)
               /\ r.pc \in {"plan", "prepare", "rollback"}
  BY <1>5
<1>7. req'[p] = r
  BY <1>6 DEF CommitInv, MainInv, TypeOK
<1>8. RequestOK(p)'
  BY <1>2, <1>6, <1>7 DEF RequestOK
<1> QED
  BY <1>1, <1>2, <1>3, <1>4, <1>6, <1>8, OwnStepCommits

\* A request in flight is of a transaction of this incarnation, which has no
\* other.
LEMMA OwnRequest ==
  ASSUME CommitInv, NEW p \in Procs, req[p].pc # "idle"
  PROVE  /\ req[p].x \in Txns
         /\ Registered(req[p].x) /\ req[p].x \notin foreign
         /\ \A q \in Procs : req[q].pc # "idle" /\ req[q].x = req[p].x => q = p
         /\ req[p].pc \in StatementSteps =>
              req[p].t \in Tables /\ req[p].w \in WritesOf(req[p].x)
         /\ req[p].pc \in EndSteps => req[p].heads \in [Tables -> SUBSET Writes]
<1>1. req[p].x \in Txns
  BY RequestTypes DEF CommitInv, MainInv, StatementSteps, Statements, EndSteps, Ends
<1>2. RequestOK(p) /\ Incarnations /\ Serial
  BY DEF CommitInv, CommitParts, MainInv
<1>3. Registered(req[p].x) /\ req[p].x \notin foreign
  BY <1>2 DEF RequestOK, Incarnations, Registered
<1>4. \A q \in Procs : req[q].pc # "idle" /\ req[q].x = req[p].x => q = p
  BY <1>2 DEF Serial
<1>5. req[p].pc \in StatementSteps =>
        req[p].t \in Tables /\ req[p].w \in WritesOf(req[p].x)
  BY <1>2, RequestTypes DEF RequestOK, CommitInv, MainInv, Statements
<1>6. req[p].pc \in EndSteps => req[p].heads \in [Tables -> SUBSET Writes]
  BY RequestTypes DEF CommitInv, MainInv, Ends
<1> QED
  BY <1>1, <1>3, <1>4, <1>5, <1>6

LEMMA WholeStatement ==
  ASSUME NEW step, NEW x, NEW t, NEW w, NEW seen, NEW cand
  PROVE  /\ StatementAt(step, x, t, w, seen, cand).pc = step
         /\ StatementAt(step, x, t, w, seen, cand).x = x
         /\ StatementAt(step, x, t, w, seen, cand).t = t
         /\ StatementAt(step, x, t, w, seen, cand).w = w
         /\ StatementAt(step, x, t, w, seen, cand).seen = seen
         /\ StatementAt(step, x, t, w, seen, cand).cand = cand
BY DEF StatementAt

\* A step of a request that changes nothing but the request and the registry.
LEMMA RequestOnlyCommits ==
  ASSUME CommitInv, NEW p \in Procs, req[p].pc # "idle", NEW r,
         req' = [req EXCEPT ![p] = r],
         UNCHANGED <<main, branch, claimed, base, acked, foreign>>,
         open' \cup ended' = open \cup ended,
         RequestOK(p)'
  PROVE  CommitParts'
<1>1. /\ req[p].x \in Txns
      /\ \A q \in Procs : req[q].pc # "idle" /\ req[q].x = req[p].x => q = p
  BY OwnRequest
<1>2. \A y \in Txns : Spared(y)
  BY DEF Spared, Registered
<1>3. Incarnations'
  BY DEF CommitInv, CommitParts, Incarnations
<1>4. PICK x \in Txns : x = req[p].x
  BY <1>1
<1>5. TxnOK(x)'
  BY <1>2, TxnSpared
<1> QED
  BY <1>1, <1>2, <1>3, <1>4, <1>5, OwnStepCommits

\* The steps of a statement that touch nothing but the request.
LEMMA PlanCommits ==
  ASSUME CommitInv, NEW p \in Procs, Plan(p) \/ StatementFails(p)
  PROVE  CommitParts'
<1>0. /\ UNCHANGED <<main, branch, claimed, base, acked, foreign>>
      /\ open' \cup ended' = open \cup ended
      /\ req[p].pc # "idle" /\ req[p].pc \in StatementSteps
  BY DEF Plan, StatementFails, catalogVars, registryVars, scopeVars, clientVars,
         StatementSteps
<1>1. CASE StatementFails(p)
  <2>1. req' = [req EXCEPT ![p] = Idle] /\ req'[p].pc = "idle"
    BY <1>1, IdleField DEF StatementFails, CommitInv, MainInv, TypeOK
  <2>2. RequestOK(p)'
    BY <2>1 DEF RequestOK, StatementSteps
  <2> QED
    BY <1>0, <2>1, <2>2, RequestOnlyCommits
<1>2. CASE Plan(p)
  <2> DEFINE x == req[p].x
             t == req[p].t
             r == StatementAt("claim", x, t, req[p].w, Read(x, t), {})
  <2>1. /\ x \in Txns /\ Registered(x) /\ x \notin foreign
        /\ t \in Tables /\ req[p].w \in WritesOf(x)
    BY <1>0, OwnRequest
  <2>2. /\ req' = [req EXCEPT ![p] = r]
        /\ r.pc = "claim" /\ r.x = x /\ r.t = t /\ r.w = req[p].w
        /\ r.seen = Read(x, t)
    BY <1>2, WholeStatement DEF Plan
  <2> HIDE DEF r
  <2>3. req'[p] = r
    BY <2>2 DEF CommitInv, MainInv, TypeOK
  <2>4. t \notin claimed[x] => Clean(x, t, Read(x, t)) /\ branch[x][t] \subseteq Read(x, t)
    <3>1. TxnOK(x)
      BY <2>1 DEF CommitInv, CommitParts
    <3> QED
      BY <2>1, <3>1 DEF TxnOK, Read, Clean
  <2>5. RequestOK(p)'
    BY <1>0, <2>1, <2>2, <2>3, <2>4 DEF RequestOK, Registered, Clean
  <2> QED
    BY <1>0, <2>2, <2>5, RequestOnlyCommits
<1> QED
  BY <1>1, <1>2

LEMMA ClaimCommits ==
  ASSUME CommitInv, NEW p \in Procs, Claim(p)
  PROVE  CommitParts'
<1>0. /\ req[p].pc = "claim" /\ req[p].pc # "idle" /\ req[p].pc \in StatementSteps
      /\ UNCHANGED <<main, branch, acked, foreign, open, ended>>
  BY DEF Claim, catalogVars, registryVars, clientVars, StatementSteps
<1>1. PICK x \in Txns, t \in Tables : x = req[p].x /\ t = req[p].t
  BY <1>0, OwnRequest
<1>2. /\ Registered(x) /\ x \notin foreign /\ req[p].w \in WritesOf(x)
      /\ \A q \in Procs : req[q].pc # "idle" /\ req[q].x = x => q = p
  BY <1>0, <1>1, OwnRequest
<1>3. TxnOK(x) /\ RequestOK(p) /\ Incarnations'
  BY <1>0 DEF CommitInv, CommitParts, Incarnations
<1>a. /\ claimed \in [Txns -> SUBSET Tables]
      /\ base \in [Txns -> [Tables -> SUBSET Writes]]
      /\ req \in [Procs -> {Idle} \cup Statements \cup Ends]
  BY DEF CommitInv, MainInv, TypeOK
<1> DEFINE At(step, v) == StatementAt(step, x, t, req[p].w, req[p].seen, v)
<1>b. \A step, v : /\ At(step, v).pc = step /\ At(step, v).x = x
                   /\ At(step, v).t = t /\ At(step, v).w = req[p].w
                   /\ At(step, v).cand = v
  BY WholeStatement
<1> HIDE DEF At
<1>4. CASE t \in claimed[x] /\ UNCHANGED scopeVars /\ req' = [req EXCEPT ![p] = At("write", {})]
  <2>1. UNCHANGED <<claimed, base>>
    BY <1>4 DEF scopeVars
  <2>2. req'[p] = At("write", {})
    BY <1>4, <1>a
  <2>3. RequestOK(p)'
    BY <1>0, <1>2, <1>4, <1>b, <2>1, <2>2 DEF RequestOK, Registered
  <2> QED
    BY <1>0, <1>4, <2>1, <2>3, RequestOnlyCommits
<1>5. ASSUME NEW v, v \in {req[p].seen, main[t]}, t \notin claimed[x],
             UNCHANGED scopeVars, req' = [req EXCEPT ![p] = At("create", v)]
      PROVE  CommitParts'
  <2>1. UNCHANGED <<claimed, base>>
    BY <1>5 DEF scopeVars
  <2>2. req'[p] = At("create", v)
    BY <1>5, <1>a
  <2>3. Clean(x, t, v)
    BY <1>0, <1>1, <1>2, <1>3, <1>5 DEF RequestOK, TxnOK, Clean
  <2>4. RequestOK(p)'
    BY <1>0, <1>2, <1>5, <1>b, <2>1, <2>2, <2>3 DEF RequestOK, Registered, Clean
  <2> QED
    BY <1>0, <1>5, <2>1, <2>4, RequestOnlyCommits
<1>6. ASSUME NEW v, v \in {req[p].seen, main[t]}, v = {}, t \notin claimed[x],
             claimed' = [claimed EXCEPT ![x] = @ \cup {t}],
             base' = [base EXCEPT ![x][t] = {}],
             req' = [req EXCEPT ![p] = At("write", {})]
      PROVE  CommitParts'
  <2>1. req'[p] = At("write", {})
    BY <1>6, <1>a
  <2>2. claimed'[x] = claimed[x] \cup {t} /\ \A u \in Tables : base'[x][u] =
          IF u = t THEN {} ELSE base[x][u]
    BY <1>6, <1>a
  <2>3. branch[x][t] = {}
    BY <1>0, <1>1, <1>2, <1>3, <1>6 DEF RequestOK, TxnOK
  <2>4. TxnOK(x)'
    <3>1. (claimed[x] # {} => Registered(x))' /\ (acked[x] # {} => Registered(x) \/ x \in foreign)'
      BY <1>0, <1>2 DEF Registered
    <3>2. ASSUME NEW u \in claimed'[x]
          PROVE  (Clean(x, u, base[x][u]) /\ branch[x][u] \subseteq base[x][u] \cup WritesOf(x))'
      <4>1. u \in Tables
        BY <1>a, <2>2
      <4> QED
        BY <1>0, <1>3, <2>2, <2>3, <4>1 DEF TxnOK, Clean
    <3>3. (x \notin foreign => \A u \in Tables \ claimed[x] : branch[x][u] \subseteq main[u])'
      BY <1>0, <1>3, <2>2 DEF TxnOK
    <3>4. (x \notin foreign => \A u \in Tables \ claimed[x] : main[u] \cap WritesOf(x) = {})'
      BY <1>0, <1>3, <2>2 DEF TxnOK
    <3> QED
      BY <3>1, <3>2, <3>3, <3>4 DEF TxnOK
  <2>5. RequestOK(p)'
    BY <1>0, <1>2, <1>b, <2>1, <2>2 DEF RequestOK, Registered
  <2>6. \A y \in Txns : y # x => Spared(y)
    BY <1>0, <1>6, <1>a DEF Spared, Registered
  <2> QED
    BY <1>0, <1>2, <1>3, <1>6, <2>4, <2>5, <2>6, OwnStepCommits
<1> QED
  BY <1>1, <1>4, <1>5, <1>6 DEF Claim, At

LEMMA CreateCommits ==
  ASSUME CommitInv, NEW p \in Procs, Create(p)
  PROVE  CommitParts'
<1>0. /\ req[p].pc = "create" /\ req[p].pc # "idle" /\ req[p].pc \in StatementSteps
      /\ UNCHANGED <<main, acked, foreign, open, ended>>
  BY DEF Create, registryVars, clientVars, StatementSteps
<1>1. PICK x \in Txns, t \in Tables : x = req[p].x /\ t = req[p].t
  BY <1>0, OwnRequest
<1>2. /\ Registered(x) /\ x \notin foreign /\ req[p].w \in WritesOf(x)
      /\ \A q \in Procs : req[q].pc # "idle" /\ req[q].x = x => q = p
  BY <1>0, <1>1, OwnRequest
<1>3. TxnOK(x) /\ RequestOK(p) /\ Incarnations'
  BY <1>0 DEF CommitInv, CommitParts, Incarnations
<1>4. t \notin claimed[x] /\ Clean(x, t, req[p].cand)
  BY <1>0, <1>1, <1>3 DEF CommitInv, MainInv, CreatesUnclaimed, RequestOK
<1>a. /\ claimed \in [Txns -> SUBSET Tables]
      /\ base \in [Txns -> [Tables -> SUBSET Writes]]
      /\ branch \in [Txns -> [Tables -> SUBSET Writes]]
      /\ req \in [Procs -> {Idle} \cup Statements \cup Ends]
  BY DEF CommitInv, MainInv, TypeOK
<1>5. PICK cand : cand = req[p].cand
  OBVIOUS
<1>6. /\ \A y \in Txns : y # x => branch'[y] = branch[y]
      /\ \A u \in Tables : branch'[x][u] = IF u = t THEN cand ELSE branch[x][u]
  <2>1. branch' = [branch EXCEPT ![x][t] = cand]
    BY <1>1, <1>5 DEF Create
  <2> QED
    BY <1>a, <2>1
<1> DEFINE r == StatementAt("write", x, t, req[p].w, req[p].seen, {})
<1>b. r.pc = "write" /\ r.x = x /\ r.t = t /\ r.w = req[p].w
  BY WholeStatement
<1> HIDE DEF r
<1>7. CASE /\ base' = [base EXCEPT ![x][t] = cand]
           /\ claimed' = [claimed EXCEPT ![x] = @ \cup {t}]
           /\ req' = [req EXCEPT ![p] = r]
  <2>1. req'[p] = r
    BY <1>7, <1>a
  <2>2. claimed'[x] = claimed[x] \cup {t} /\ \A u \in Tables : base'[x][u] =
          IF u = t THEN cand ELSE base[x][u]
    BY <1>7, <1>a
  <2>4. TxnOK(x)'
    <3>1. (claimed[x] # {} => Registered(x))' /\ (acked[x] # {} => Registered(x) \/ x \in foreign)'
      BY <1>0, <1>2 DEF Registered
    <3>2. ASSUME NEW u \in claimed'[x]
          PROVE  (Clean(x, u, base[x][u]) /\ branch[x][u] \subseteq base[x][u] \cup WritesOf(x))'
      <4>1. u \in Tables /\ (u # t => u \in claimed[x])
        BY <1>a, <2>2
      <4>2. CASE u = t
        BY <1>0, <1>4, <1>5, <1>6, <2>2, <4>2 DEF Clean
      <4>3. CASE u # t
        BY <1>0, <1>3, <1>6, <2>2, <4>1, <4>3 DEF Clean, TxnOK
      <4> QED
        BY <4>2, <4>3
    <3>3. (x \notin foreign => \A u \in Tables \ claimed[x] : branch[x][u] \subseteq main[u])'
      BY <1>0, <1>3, <1>6, <2>2 DEF TxnOK
    <3>4. (x \notin foreign => \A u \in Tables \ claimed[x] : main[u] \cap WritesOf(x) = {})'
      BY <1>0, <1>3, <2>2 DEF TxnOK
    <3> QED
      BY <3>1, <3>2, <3>3, <3>4 DEF TxnOK
  <2>5. RequestOK(p)'
    BY <1>0, <1>2, <1>b, <2>1, <2>2 DEF RequestOK, Registered
  <2>6. \A y \in Txns : y # x => Spared(y)
    BY <1>0, <1>6, <1>7, <1>a DEF Spared, Registered
  <2> QED
    BY <1>0, <1>2, <1>3, <1>7, <2>4, <2>5, <2>6, OwnStepCommits
<1>8. CASE UNCHANGED scopeVars /\ req' = [req EXCEPT ![p] = Idle]
  <2>1. UNCHANGED <<claimed, base>> /\ req'[p].pc = "idle"
    BY <1>8, <1>a, IdleField DEF scopeVars
  <2>2. RequestOK(p)'
    BY <2>1 DEF RequestOK, StatementSteps
  <2>3. TxnOK(x)'
    <3>1. (claimed[x] # {} => Registered(x))' /\ (acked[x] # {} => Registered(x) \/ x \in foreign)'
      BY <1>0, <1>2 DEF Registered
    <3>2. ASSUME NEW u \in claimed'[x]
          PROVE  (Clean(x, u, base[x][u]) /\ branch[x][u] \subseteq base[x][u] \cup WritesOf(x))'
      <4>1. u \in Tables /\ u # t /\ u \in claimed[x]
        BY <1>4, <1>a, <2>1
      <4> QED
        BY <1>0, <1>3, <1>6, <2>1, <4>1 DEF Clean, TxnOK
    <3>3. (x \notin foreign => \A u \in Tables \ claimed[x] : branch[x][u] \subseteq main[u])'
      BY <1>0, <1>3, <1>4, <1>5, <1>6, <2>1 DEF TxnOK, Clean
    <3>4. (x \notin foreign => \A u \in Tables \ claimed[x] : main[u] \cap WritesOf(x) = {})'
      BY <1>0, <1>3, <2>1 DEF TxnOK
    <3> QED
      BY <3>1, <3>2, <3>3, <3>4 DEF TxnOK
  <2>4. \A y \in Txns : y # x => Spared(y)
    BY <1>0, <1>6, <2>1 DEF Spared, Registered
  <2> QED
    BY <1>0, <1>2, <1>3, <1>8, <2>2, <2>3, <2>4, OwnStepCommits
<1> QED
  BY <1>1, <1>4, <1>5, <1>7, <1>8 DEF Create, r

\* A write adds one of the transaction's own to a branch it claimed.
LEMMA WriteCommits ==
  ASSUME CommitInv, NEW p \in Procs, Write(p)
  PROVE  CommitParts'
<1>0. /\ req[p].pc = "write" /\ req[p].pc # "idle" /\ req[p].pc \in StatementSteps
      /\ UNCHANGED <<main, foreign, open, ended, claimed, base>>
      /\ req' = [req EXCEPT ![p] = Idle]
  BY DEF Write, CommitToBranch, registryVars, StatementSteps
<1>1. PICK x \in Txns, t \in Tables : x = req[p].x /\ t = req[p].t
  BY <1>0, OwnRequest
<1>2. /\ Registered(x) /\ x \notin foreign /\ req[p].w \in WritesOf(x)
      /\ \A q \in Procs : req[q].pc # "idle" /\ req[q].x = x => q = p
  BY <1>0, <1>1, OwnRequest
<1>3. TxnOK(x) /\ RequestOK(p) /\ Incarnations'
  BY <1>0 DEF CommitInv, CommitParts, Incarnations
<1>4. t \in claimed[x]
  BY <1>0, <1>1, <1>3 DEF RequestOK
<1>a. /\ claimed \in [Txns -> SUBSET Tables]
      /\ branch \in [Txns -> [Tables -> SUBSET Writes]]
      /\ acked \in [Txns -> SUBSET (Tables \X Writes)]
      /\ req \in [Procs -> {Idle} \cup Statements \cup Ends]
  BY DEF CommitInv, MainInv, TypeOK
<1>5. /\ \A y \in Txns : y # x => branch'[y] = branch[y]
      /\ \A u \in Tables : branch'[x][u] =
           IF u = t THEN branch[x][u] \cup {req[p].w} ELSE branch[x][u]
  <2>1. branch' = [branch EXCEPT ![x][t] = @ \cup {req[p].w}]
    BY <1>1 DEF Write, CommitToBranch
  <2> QED
    BY <1>a, <2>1
<1>6. \A y \in Txns : y # x => acked'[y] = acked[y]
  <2>1. acked' = acked \/ acked' = [acked EXCEPT ![x] = @ \cup {<<t, req[p].w>>}]
    BY <1>1 DEF Write
  <2> QED
    BY <1>a, <2>1
<1>7. TxnOK(x)'
  <2>1. (claimed[x] # {} => Registered(x))' /\ (acked[x] # {} => Registered(x) \/ x \in foreign)'
    BY <1>0, <1>2 DEF Registered
  <2>2. ASSUME NEW u \in claimed'[x]
        PROVE  (Clean(x, u, base[x][u]) /\ branch[x][u] \subseteq base[x][u] \cup WritesOf(x))'
    <3>1. u \in Tables /\ u \in claimed[x]
      BY <1>0, <1>a
    <3>2. Clean(x, u, base[x][u]) /\ branch[x][u] \subseteq base[x][u] \cup WritesOf(x)
      BY <1>3, <3>1 DEF TxnOK
    <3>3. branch'[x][u] \subseteq branch[x][u] \cup WritesOf(x)
      BY <1>2, <1>5, <3>1
    <3> QED
      BY <1>0, <3>2, <3>3 DEF Clean
  <2>3. (x \notin foreign => \A u \in Tables \ claimed[x] : branch[x][u] \subseteq main[u])'
    BY <1>0, <1>3, <1>4, <1>5 DEF TxnOK
  <2>4. (x \notin foreign => \A u \in Tables \ claimed[x] : main[u] \cap WritesOf(x) = {})'
    BY <1>0, <1>3 DEF TxnOK
  <2> QED
    BY <2>1, <2>2, <2>3, <2>4 DEF TxnOK
<1>8. RequestOK(p)'
  <2>1. req'[p].pc = "idle"
    BY <1>0, <1>a, IdleField
  <2> QED
    BY <2>1 DEF RequestOK, StatementSteps
<1>9. \A y \in Txns : y # x => Spared(y)
  BY <1>0, <1>5, <1>6 DEF Spared, Registered
<1> QED
  BY <1>0, <1>2, <1>3, <1>7, <1>8, <1>9, OwnStepCommits

\* The registry forgets nobody during a COMMIT or ROLLBACK.
LEMMA EndStepsRegistered ==
  ASSUME CommitInv, NEW p \in Procs,
         \/ Prepare(p) \/ Publish(p) \/ PublishRefused(p) \/ PublishFails(p)
         \/ FinishEnd(p) \/ Cancelled(p)
  PROVE  /\ open' \cup ended' = open \cup ended
         /\ req[p].pc \in EndSteps /\ req[p].pc # "idle"
         /\ UNCHANGED <<claimed, base, key, acked, foreign>>
<1>1. req[p].pc \in EndSteps /\ req[p].pc # "idle"
  BY DEF Prepare, Publish, PublishRefused, PublishFails, FinishEnd, Cancelled, EndSteps
<1>2. UNCHANGED <<claimed, base, key, acked, foreign>>
  BY DEF Prepare, Publish, PublishRefused, PublishFails, FinishEnd, Cancelled, scopeVars
<1>3. req[p].x \in ended
  BY <1>1 DEF CommitInv, EndInv, EndIsExclusive
<1>4. UNCHANGED <<open, ended>> \/ Reopen(p)
  BY DEF Prepare, Publish, PublishRefused, PublishFails, FinishEnd, Cancelled,
         Committed, Lost
<1> QED
  BY <1>1, <1>2, <1>3, <1>4 DEF Reopen

\* COMMIT and ROLLBACK, while main stays as it is.
LEMMA EndStepsCommit ==
  ASSUME CommitInv, NEW p \in Procs, UNCHANGED <<main, branch>>,
         Prepare(p) \/ PublishRefused(p) \/ PublishFails(p) \/ FinishEnd(p) \/ Cancelled(p)
  PROVE  CommitParts'
<1>0. /\ open' \cup ended' = open \cup ended
      /\ req[p].pc \in EndSteps /\ req[p].pc # "idle"
      /\ UNCHANGED <<claimed, base, key, acked, foreign>>
  BY EndStepsRegistered
<1>1. PICK x \in Txns : x = req[p].x
  BY <1>0, OwnRequest
<1>2. Registered(x) /\ x \notin foreign
  BY <1>0, <1>1, OwnRequest
<1>3. req \in [Procs -> {Idle} \cup Statements \cup Ends]
  BY DEF CommitInv, MainInv, TypeOK
<1> DEFINE ts == {t \in claimed[x] : ~Skipped(x, t)}
           heads == [t \in Tables |-> IF t \in ts THEN branch[x][t] ELSE {}]
<1>4. ASSUME Prepare(p), \A t \in ts : Publishable(x, t), NEW t \in Tables, heads[t] = {}
      PROVE  main[t] \cap WritesOf(x) = {}
  <2>1. TxnOK(x)
    BY DEF CommitInv, CommitParts
  <2>2. CASE t \notin claimed[x]
    BY <1>2, <2>1, <2>2 DEF TxnOK
  <2>3. CASE t \in ts
    BY <1>4, <2>3 DEF Publishable
  <2>4. CASE t \in claimed[x] /\ Skipped(x, t)
    BY <2>4 DEF Skipped
  <2> QED
    BY <2>2, <2>3, <2>4
<1>5. \E r : /\ req' = [req EXCEPT ![p] = r]
             /\ r.pc \in {"idle", "prepare", "conflict", "commit"}
             /\ r.pc # "idle" => r.x = x
             /\ r.pc = "commit" =>
                  \A t \in Tables : r.heads[t] = {} => main[t] \cap WritesOf(x) = {}
  <2>1. CASE req' = [req EXCEPT ![p] = Idle]
    BY <2>1, IdleField
  <2>2. ASSUME NEW step \in {"prepare", "conflict"}, NEW n,
               req' = [req EXCEPT ![p] = EndAt(step, x, NoTables, n)]
        PROVE  \E r : /\ req' = [req EXCEPT ![p] = r]
                      /\ r.pc \in {"prepare", "conflict"} /\ r.x = x
    <3> DEFINE r == EndAt(step, x, NoTables, n)
    <3>1. r.pc = step /\ r.x = x /\ req' = [req EXCEPT ![p] = r]
      BY <2>2, EndFields
    <3> HIDE DEF r
    <3> QED
      BY <3>1
  <2>3. CASE /\ Prepare(p) /\ \A t \in ts : Publishable(x, t)
             /\ req' = [req EXCEPT ![p] = EndAt("commit", x, heads, req[p].attempt)]
    <3> DEFINE r == EndAt("commit", x, heads, req[p].attempt)
    <3>1. r.pc = "commit" /\ r.x = x /\ r.heads = heads
      BY EndFields
    <3>2. \A t \in Tables : r.heads[t] = {} => main[t] \cap WritesOf(x) = {}
      BY <1>4, <2>3, <3>1
    <3>3. req' = [req EXCEPT ![p] = r]
      BY <2>3
    <3> HIDE DEF r
    <3> QED
      BY <3>1, <3>2, <3>3
  <2>4. \/ req' = [req EXCEPT ![p] = Idle]
        \/ \E step \in {"prepare", "conflict"} : \E n :
             req' = [req EXCEPT ![p] = EndAt(step, x, NoTables, n)]
        \/ /\ Prepare(p) /\ \A t \in ts : Publishable(x, t)
           /\ req' = [req EXCEPT ![p] = EndAt("commit", x, heads, req[p].attempt)]
    <3>1. CASE Prepare(p)
      BY <1>1, <3>1 DEF Prepare, Committed, Lost
    <3>2. CASE PublishRefused(p)
      BY <1>1, <3>2 DEF PublishRefused, Lost
    <3>3. CASE PublishFails(p) \/ FinishEnd(p) \/ Cancelled(p)
      BY <3>3 DEF PublishFails, FinishEnd, Cancelled, Reopen
    <3> QED
      BY <3>1, <3>2, <3>3
  <2> QED
    BY <2>1, <2>2, <2>3, <2>4
<1>6. PICK r : /\ req' = [req EXCEPT ![p] = r]
               /\ r.pc \in {"idle", "prepare", "conflict", "commit"}
               /\ r.pc # "idle" => r.x = x
               /\ r.pc = "commit" =>
                    \A t \in Tables : r.heads[t] = {} => main[t] \cap WritesOf(x) = {}
  BY <1>5
<1>7. req'[p] = r
  BY <1>3, <1>6
<1>8. RequestOK(p)'
  BY <1>0, <1>2, <1>6, <1>7 DEF RequestOK, StatementSteps, Registered
<1> QED
  BY <1>0, <1>6, <1>8, RequestOnlyCommits

\* A catalog commit adds to main writes of its transaction and no others,
\* all of them on tables it claimed.
LEMMA MoveMainsGains ==
  ASSUME CommitInv, NEW p \in Procs, req[p].pc = "commit", Matches(p), MoveMains(p)
  PROVE  /\ \A t \in Tables :
              /\ main[t] \subseteq main'[t]
              /\ main'[t] \subseteq main[t] \cup WritesOf(req[p].x)
              /\ main'[t] # main[t] => t \in claimed[req[p].x]
         /\ \A y \in Txns, t \in Tables :
              branch'[y][t] = branch[y][t] \/ branch'[y][t] = {}
<1>0. req[p].pc \in EndSteps /\ req[p].pc # "idle" /\ MainInv /\ TypeOK
  BY DEF EndSteps, CommitInv, MainInv
<1>1. PICK x \in Txns : x = req[p].x
  BY <1>0, OwnRequest
<1>2. \A t \in Tables : main[t] \subseteq main'[t]
  BY <1>0, MoveMainsGrows
<1>3. \A y \in Txns, t \in Tables :
        branch'[y][t] = branch[y][t] \/ branch'[y][t] = {}
  BY <1>0, <1>1, MoveMainsBranch
<1>4. ASSUME NEW t \in Tables
      PROVE  /\ main'[t] \subseteq main[t] \cup WritesOf(x)
             /\ main'[t] # main[t] => t \in claimed[x]
  <2>1. CASE req[p].heads[t] = {}
    BY <2>1 DEF MoveMains
  <2>2. CASE req[p].heads[t] # {}
    <3>1. main'[t] = branch[x][t] /\ main[t] = base[x][t]
      BY <1>1, <2>2 DEF MoveMains, Matches, Publishable
    <3>2. t \in claimed[x]
      BY <1>0, <1>1, <2>2 DEF MainInv, PreparedIsClaimed
    <3>3. branch[x][t] \subseteq base[x][t] \cup WritesOf(x)
      BY <3>2 DEF CommitInv, CommitParts, TxnOK
    <3> QED
      BY <3>1, <3>2, <3>3
  <2> QED
    BY <2>1, <2>2
<1> QED
  BY <1>1, <1>2, <1>3, <1>4

LEMMA MoveMainsCommits ==
  ASSUME CommitInv, NEW p \in Procs, Publish(p) \/ Cancelled(p),
         req[p].pc = "commit", Matches(p), MoveMains(p)
  PROVE  CommitParts'
<1>0. /\ open' \cup ended' = open \cup ended
      /\ req[p].pc \in EndSteps /\ req[p].pc # "idle"
      /\ UNCHANGED <<claimed, base, key, acked, foreign>>
  BY EndStepsRegistered
<1>1. PICK x \in Txns : x = req[p].x
  BY <1>0, OwnRequest
<1>2. /\ Registered(x) /\ x \notin foreign
      /\ \A q \in Procs : req[q].pc # "idle" /\ req[q].x = x => q = p
  BY <1>0, <1>1, OwnRequest
<1>3. /\ \A t \in Tables :
           /\ main[t] \subseteq main'[t]
           /\ main'[t] \subseteq main[t] \cup WritesOf(x)
           /\ main'[t] # main[t] => t \in claimed[x]
      /\ \A y \in Txns, t \in Tables :
           branch'[y][t] = branch[y][t] \/ branch'[y][t] = {}
  BY <1>1, MoveMainsGains
<1>4. req' = [req EXCEPT ![p] = Idle] /\ req'[p].pc = "idle"
  BY IdleField DEF Publish, Cancelled, Committed, Reopen, CommitInv, MainInv, TypeOK
<1>5. RequestOK(p)'
  BY <1>4 DEF RequestOK, StatementSteps
<1>6. Incarnations'
  BY <1>0 DEF CommitInv, CommitParts, Incarnations
<1>7. ASSUME NEW y \in Txns, y # x PROVE Spared(y)
  <2>1. WritesOf(x) \cap WritesOf(y) = {}
    BY <1>7, WritesOfApart
  <2>2. \A t \in Tables : main'[t] \cap WritesOf(y) \subseteq main[t]
    BY <1>3, <2>1
  <2> QED
    BY <1>0, <1>3, <2>2 DEF Spared, Registered
<1>8. TxnOK(x)'
  <2>1. TxnOK(x) /\ claimed[x] \subseteq Tables
    BY DEF CommitInv, CommitParts, MainInv, TypeOK
  <2>2. (claimed[x] # {} => Registered(x))' /\ (acked[x] # {} => Registered(x) \/ x \in foreign)'
    BY <1>0, <1>2 DEF Registered
  <2>3. ASSUME NEW u \in claimed'[x]
        PROVE  (Clean(x, u, base[x][u]) /\ branch[x][u] \subseteq base[x][u] \cup WritesOf(x))'
    BY <1>0, <1>3, <2>1 DEF TxnOK, Clean
  <2>4. (x \notin foreign => \A u \in Tables \ claimed[x] : branch[x][u] \subseteq main[u])'
    BY <1>0, <1>3, <2>1 DEF TxnOK
  <2>5. (x \notin foreign => \A u \in Tables \ claimed[x] : main[u] \cap WritesOf(x) = {})'
    BY <1>0, <1>3, <2>1 DEF TxnOK
  <2> QED
    BY <2>2, <2>3, <2>4, <2>5 DEF TxnOK
<1> QED
  BY <1>0, <1>2, <1>4, <1>5, <1>6, <1>7, <1>8, OwnStepCommits

LEMMA NextCommitInv ==
  ASSUME CommitInv, [Next]_vars, ~Concurrent, "forget" \notin Faults
  PROVE  CommitInv'
<1> SUFFICES CommitParts'
  BY NextMainInv, NextEndInv DEF CommitInv
<1>2. ASSUME NEW p \in Procs, RequestStep(p) PROVE CommitParts'
  <2>1. CASE Plan(p) \/ Claim(p) \/ Create(p) \/ Write(p) \/ StatementFails(p)
    BY <2>1, PlanCommits, ClaimCommits, CreateCommits, WriteCommits
  <2>2. CASE Prepare(p) \/ PublishRefused(p) \/ PublishFails(p) \/ FinishEnd(p)
    <3>1. UNCHANGED <<main, branch>>
      BY <2>2 DEF Prepare, PublishRefused, PublishFails, FinishEnd, catalogVars
    <3> QED
      BY <2>2, <3>1, EndStepsCommit
  <2>3. CASE Publish(p)
    BY <2>3, MoveMainsCommits DEF Publish
  <2>4. CASE Cancelled(p)
    <3>1. UNCHANGED <<main, branch>> \/ (req[p].pc = "commit" /\ Matches(p) /\ MoveMains(p))
      BY <2>4 DEF Cancelled, catalogVars
    <3> QED
      BY <2>4, <3>1, EndStepsCommit, MoveMainsCommits
  <2> QED
    BY <1>2, <2>1, <2>2, <2>3, <2>4 DEF RequestStep
<1>3. ASSUME NEW p \in Procs, NEW x \in Txns,
             \/ \E t \in Tables : Statement(p, x, t)
             \/ \E commit \in BOOLEAN : End(p, x, commit)
      PROVE  CommitParts'
  BY <1>3, StartCommits
<1>4. CASE \/ \E x \in Txns : QuietStatement(x)
           \/ \E x \in Txns, commit \in BOOLEAN : EndWithoutOpen(x, commit)
           \/ \E x \in Txns : Abandon(x)
           \/ Shutdown
  BY <1>4, RegistryCommits
<1>5. CASE \E x \in Txns, t \in Tables :
             DropBranch(x, t) \/ DropStale(x, t) \/ UserDrop(x, t)
  BY <1>5, BranchGoesCommits
<1>6. CASE \E t \in Tables : OutsideWrite(t)
  BY <1>6, OutsideWriteCommits
<1>7. CASE Crash
  BY <1>7, CrashCommits
<1>8. CASE UNCHANGED vars
  <2>1. UNCHANGED <<main, branch, open, ended, foreign, claimed, base, req, acked>>
    BY <1>8 DEF vars
  <2>2. Incarnations' /\ \A y \in Txns : Spared(y)
    BY <2>1 DEF CommitInv, CommitParts, Incarnations, Spared, Registered
  <2> QED
    BY <2>1, <2>2, AsideCommits
<1> QED
  BY <1>2, <1>3, <1>4, <1>5, <1>6, <1>7, <1>8, Remembered DEF Next

----------------------------------------------------------------------------
(* Once. *)

LEMMA WhoMovesMain ==
  ASSUME [Next]_vars
  PROVE  \/ main' = main
         \/ \E t \in Tables : OutsideWrite(t)
         \/ \E p \in Procs : /\ Publish(p) \/ Cancelled(p)
                             /\ req[p].pc = "commit" /\ Matches(p) /\ MoveMains(p)
<1>1. ASSUME NEW p \in Procs, RequestStep(p)
      PROVE  \/ main' = main
             \/ /\ Publish(p) \/ Cancelled(p)
                /\ req[p].pc = "commit" /\ Matches(p) /\ MoveMains(p)
  BY <1>1 DEF RequestStep, Plan, Claim, Create, Write, CommitToBranch,
     StatementFails, Prepare, Publish, PublishRefused, PublishFails, FinishEnd,
     Cancelled, catalogVars
<1>2. \/ \E p \in Procs : RequestStep(p)
      \/ \E u \in Tables : OutsideWrite(u)
      \/ main' = main
  BY DEF Next, Statement, End, QuietStatement, DropBranch, DropStale, UserDrop,
         EndWithoutOpen, Abandon, Forget, Shutdown, Crash, catalogVars, vars
<1> QED
  BY <1>1, <1>2

\* The catalog accepts a commit only from a transaction none of whose writes
\* is on main: a table that has one is not at its base, and was not left out.
LEMMA MoveMainsFirst ==
  ASSUME CommitInv, NEW p \in Procs, req[p].pc = "commit", Matches(p)
  PROVE  ~Published(req[p].x)
<1> SUFFICES ASSUME NEW t \in Tables, main[t] \cap WritesOf(req[p].x) # {}
             PROVE  FALSE
  BY DEF Published
<1>1. req[p].x \in Txns /\ RequestOK(p) /\ PreparedIsClaimed
  BY OwnRequest DEF CommitInv, CommitParts, MainInv
<1>2. req[p].heads[t] # {}
  BY <1>1 DEF RequestOK
<1>3. t \in claimed[req[p].x] /\ main[t] = base[req[p].x][t]
  BY <1>1, <1>2 DEF PreparedIsClaimed, Matches, Publishable
<1>4. Clean(req[p].x, t, base[req[p].x][t])
  BY <1>1, <1>3 DEF CommitInv, CommitParts, TxnOK
<1> QED
  BY <1>3, <1>4 DEF Clean

\* What COMMIT publishes is of its own transaction.
LEMMA WhoPublishes ==
  ASSUME CommitInv, [Next]_vars, NEW x \in Txns, ~Published(x), Published(x)'
  PROVE  \E p \in Procs : /\ Publish(p) \/ Cancelled(p)
                          /\ req[p].pc = "commit" /\ Matches(p) /\ MoveMains(p)
                          /\ req[p].x = x
<1>0. TypeOK
  BY DEF CommitInv, MainInv
<1>1. PICK t \in Tables : main'[t] \cap WritesOf(x) # {}
  BY DEF Published
<1>2. main[t] \cap WritesOf(x) = {}
  BY DEF Published
<1>3. main' # main
  BY <1>1, <1>2
<1>4. ASSUME NEW u \in Tables, OutsideWrite(u) PROVE FALSE
  <2>1. main'[t] \cap WritesOf(x) \subseteq main[t]
    BY <1>0, <1>4, OutsideWriteGains
  <2> QED
    BY <1>1, <1>2, <2>1
<1>5. PICK p \in Procs : /\ Publish(p) \/ Cancelled(p)
                         /\ req[p].pc = "commit" /\ Matches(p) /\ MoveMains(p)
  BY <1>3, <1>4, WhoMovesMain
<1>6. main'[t] \subseteq main[t] \cup WritesOf(req[p].x)
  BY <1>5, MoveMainsGains
<1>7. x = req[p].x
  BY <1>1, <1>2, <1>6, WritesOfApart
<1> QED
  BY <1>5, <1>7

LEMMA StepPublishesOnce ==
  ASSUME CommitInv, [Next]_vars, NEW x \in Txns, Published(x), NEW t \in Tables
  PROVE  main'[t] \cap WritesOf(x) \subseteq main[t]
<1>1. CASE main' = main
  BY <1>1
<1>2. ASSUME NEW u \in Tables, OutsideWrite(u)
      PROVE  main'[t] \cap WritesOf(x) \subseteq main[t]
  BY <1>2, OutsideWriteGains DEF CommitInv, MainInv
<1>3. ASSUME NEW p \in Procs, req[p].pc = "commit", Matches(p), MoveMains(p)
      PROVE  main'[t] \cap WritesOf(x) \subseteq main[t]
  <2>1. req[p].x # x
    BY <1>3, MoveMainsFirst
  <2>2. WritesOf(x) \cap WritesOf(req[p].x) = {}
    BY <2>1, WritesOfApart
  <2>3. main'[t] \subseteq main[t] \cup WritesOf(req[p].x)
    BY <1>3, MoveMainsGains
  <2> QED
    BY <2>2, <2>3
<1> QED
  BY <1>1, <1>2, <1>3, WhoMovesMain

\* For a client that sends one request of a transaction at a time, the writes
\* of a transaction reach main in one step, whatever answers were lost,
\* branches dropped, commits cancelled or processes restarted (publish,
\* reopen).  For a client that does not come back with an id the registry
\* forgot, ENDED_RETENTION after the end: it would find a fresh transaction.
THEOREM PublishedOnce ==
  ~Concurrent /\ "forget" \notin Faults => (Spec => PublishesOnce)
<1> SUFFICES ASSUME ~Concurrent, "forget" \notin Faults PROVE Spec => PublishesOnce
  OBVIOUS
<1>1. Init => CommitInv
  BY InitCommitInv
<1>2. CommitInv /\ [Next]_vars => CommitInv'
  BY NextCommitInv
<1>3. CommitInv /\ [Next]_vars =>
        [\A x \in Txns \ forgotten : Published(x) =>
           \A t \in Tables : main'[t] \cap WritesOf(x) \subseteq main[t]]_vars
  BY StepPublishesOnce
<1> QED
  BY <1>1, <1>2, <1>3, PTL DEF Spec, PublishesOnce

----------------------------------------------------------------------------
(* Invisible. *)

\* What is on main was answered and recorded as committed.
AnsweredInv ==
  /\ CommitInv
  /\ \A x \in Txns : Published(x) => outcome[x] = "committed" /\ reply[x] = "committed"

\* An answer "committed" is the last one.
LEMMA CommittedStays ==
  ASSUME EndInv, [Next]_vars, NEW x \in Txns, outcome[x] # "none", reply[x] = "committed"
  PROVE  reply'[x] = "committed"
<1>0. reply \in [Txns -> Replies]
  BY DEF EndInv, TypeOK
<1>1. \A p \in Procs : req[p].pc \in EndSteps => req[p].x \in Txns /\ req[p].x # x
  BY RequestTypes DEF EndInv, EndIsExclusive, Ends
<1>2. ~Unanswered(x)
  BY DEF Unanswered
<1>3. ASSUME NEW p \in Procs, RequestStep(p) PROVE reply'[x] = "committed"
  <2>1. \/ reply' = reply
        \/ req[p].pc \in EndSteps /\ \E r : reply' = [reply EXCEPT ![req[p].x] = r]
    BY <1>3 DEF RequestStep, Plan, Claim, Create, Write, StatementFails, Prepare,
       Publish, PublishRefused, PublishFails, FinishEnd, Cancelled, Committed,
       Reopen, Lost, Answer, clientVars, EndSteps
  <2> QED
    BY <1>0, <1>1, <2>1
<1>4. ASSUME NEW y \in Txns, Unanswered(y), NEW r, reply' = [reply EXCEPT ![y] = r]
      PROVE  reply'[x] = "committed"
  BY <1>0, <1>2, <1>4
<1>5. \/ \E p \in Procs : RequestStep(p)
      \/ \E y \in Txns : Unanswered(y) /\ \E r : reply' = [reply EXCEPT ![y] = r]
      \/ reply' = reply
  BY DEF Next, Statement, End, QuietStatement, DropBranch, DropStale, UserDrop,
         OutsideWrite, EndWithoutOpen, Abandon, Forget, Shutdown, Crash, Answer,
         clientVars, vars
<1> QED
  BY <1>3, <1>4, <1>5

\* Only forgetting the id takes an end record away.
LEMMA RecordKept ==
  ASSUME EndInv, [Next]_vars, "forget" \notin Faults,
         NEW x \in Txns, outcome[x] # "none"
  PROVE  outcome'[x] = outcome[x]
<1>1. [Next]_vars /\ \A y \in Txns : ~Forget(y)
  BY Remembered
<1> QED
  BY <1>1, StepKeepsRecords

LEMMA NextAnsweredInv ==
  ASSUME AnsweredInv, [Next]_vars, ~Concurrent,
         Faults \cap {"lost_reply", "cancel", "forget"} = {}
  PROVE  AnsweredInv'
<1>0. CommitInv /\ EndInv
  BY DEF AnsweredInv, CommitInv
<1>1. CommitInv'
  BY <1>0, NextCommitInv
<1> SUFFICES ASSUME NEW x \in Txns, Published(x)'
             PROVE  outcome'[x] = "committed" /\ reply'[x] = "committed"
  BY <1>1 DEF AnsweredInv
<1>2. CASE Published(x)
  <2>1. outcome[x] = "committed" /\ reply[x] = "committed"
    BY <1>2 DEF AnsweredInv
  <2> QED
    BY <1>0, <2>1, RecordKept, CommittedStays
<1>3. CASE ~Published(x)
  <2>5. PICK p \in Procs : /\ Publish(p) \/ Cancelled(p)
                           /\ req[p].pc = "commit" /\ Matches(p) /\ MoveMains(p)
                           /\ req[p].x = x
    BY <1>0, <1>3, WhoPublishes
  <2>7. Publish(p) /\ Committed(p)
    BY <2>5 DEF Publish, Cancelled, Fault
  <2>8. outcome \in [Txns -> Outcomes] /\ reply \in [Txns -> Replies]
    BY <1>0 DEF EndInv, TypeOK
  <2> QED
    BY <2>5, <2>7, <2>8 DEF Committed, Answer
<1> QED
  BY <1>2, <1>3

\* While no answer of the catalog is lost, no COMMIT is cancelled and no id is
\* sent again after ENDED_RETENTION, a transaction that ended any other way
\* than committed, for its client or in the audit record, left nothing on main:
\* whoever lost a conflict, was rolled back, expired, or went down with its
\* session or process (publish, discard, record_end).
THEOREM RollbackLeavesNothing ==
  ~Concurrent /\ Faults \cap {"lost_reply", "cancel", "forget"} = {} =>
    (Spec => []RolledBackIsInvisible)
<1> SUFFICES ASSUME ~Concurrent, Faults \cap {"lost_reply", "cancel", "forget"} = {}
             PROVE  Spec => []RolledBackIsInvisible
  OBVIOUS
<1>1. Init => AnsweredInv
  <2> SUFFICES ASSUME Init PROVE AnsweredInv
    OBVIOUS
  <2>1. \A x \in Txns, t \in Tables : main[t] \cap WritesOf(x) = {}
    BY TxnConstants DEF Init, WritesOf
  <2> QED
    BY <2>1, InitCommitInv DEF AnsweredInv, Published
<1>2. AnsweredInv /\ [Next]_vars => AnsweredInv'
  BY NextAnsweredInv
<1>3. AnsweredInv => RolledBackIsInvisible
  BY DEF AnsweredInv, RolledBackIsInvisible
<1> QED
  BY <1>1, <1>2, <1>3, PTL DEF Spec

----------------------------------------------------------------------------
(* All of the acknowledged writes. *)

\* With every table non-empty at the start, no base is "no snapshot".
Filled ==
  Nonempty = Tables =>
    /\ \A t \in Tables : main[t] # {}
    /\ \A x \in Txns : \A t \in claimed[x] : base[x][t] # {}
    /\ \A p \in Procs : /\ req[p].pc = "claim" => req[p].seen # {}
                        /\ req[p].pc = "create" => req[p].cand # {}

\* A COMMIT of the transaction may still succeed.
MayPublish(x) ==
  \/ x \in open
  \/ \E p \in Procs : req[p].pc \in {"prepare", "commit"} /\ req[p].x = x

\* No COMMIT publishes the table any more: main left its base, or the branch
\* is gone and pin does not let anyone start it again.
Dead(x, t) ==
  main[t] # base[x][t] \/ (base[x][t] # {} /\ branch[x][t] = {})

\* What was acknowledged is on the branch while it may be published, and on
\* main once the client was told so.
AckedOK(x) ==
  /\ acked[x] # {} => x \in foreign \/ key[x] # NoKey
  /\ MayPublish(x) => \A a \in acked[x] :
       a[1] \in claimed[x] /\ (a[2] \in branch[x][a[1]] \/ Dead(x, a[1]))
  /\ dropping[x] # {} => x \in ended /\ ~MayPublish(x)
  /\ reply[x] = "committed" =>
       /\ x \in ended \cup foreign /\ x \notin open
       /\ \A p \in Procs : ~Busy(p, x)
       /\ \A a \in acked[x] : a[2] \in main[a[1]]

\* COMMIT prepared everything that was acknowledged.
PreparedOK(p) ==
  req[p].pc = "commit" => \A a \in acked[req[p].x] : a[2] \in req[p].heads[a[1]]

AckedParts == (\A x \in Txns : AckedOK(x)) /\ (\A p \in Procs : PreparedOK(p))

AckedInv == CommitInv /\ Filled /\ AckedParts

LEMMA InitAckedInv == Init => AckedInv
<1> SUFFICES ASSUME Init PROVE AckedInv
  OBVIOUS
<1>1. CommitInv
  BY InitCommitInv
<1>2. \A p \in Procs : req[p].pc = "idle"
  BY IdleField DEF Init
<1>3. Filled
  BY <1>2 DEF Init, Filled
<1>4. \A p \in Procs : PreparedOK(p)
  BY <1>2 DEF PreparedOK
<1>5. ASSUME NEW x \in Txns PROVE AckedOK(x)
  BY <1>2 DEF Init, AckedOK
<1> QED
  BY <1>1, <1>3, <1>4, <1>5 DEF AckedInv, AckedParts

LEMMA NextFilled ==
  ASSUME TypeOK, Filled, [Next]_vars
  PROVE  Filled'
<1> SUFFICES ASSUME Nonempty = Tables PROVE Filled'
  BY DEF Filled
<1>0. /\ TypeOK
      /\ \A t \in Tables : main[t] # {}
      /\ \A x \in Txns : \A t \in claimed[x] : base[x][t] # {}
      /\ \A p \in Procs : /\ req[p].pc = "claim" => req[p].seen # {}
                          /\ req[p].pc = "create" => req[p].cand # {}
  BY DEF Filled
<1>a. /\ claimed \in [Txns -> SUBSET Tables]
      /\ base \in [Txns -> [Tables -> SUBSET Writes]]
      /\ req \in [Procs -> {Idle} \cup Statements \cup Ends]
  BY <1>0 DEF TypeOK
<1>1. ASSUME NEW t \in Tables PROVE main'[t] # {}
  <2>1. ASSUME NEW u \in Tables, OutsideWrite(u) PROVE main'[t] # {}
    BY <1>0, <2>1, OutsideWriteGains
  <2>2. ASSUME NEW p \in Procs, MoveMains(p) PROVE main'[t] # {}
    BY <1>0, <2>2 DEF MoveMains
  <2> QED
    BY <1>0, <2>1, <2>2, WhoMovesMain
<1>2. ASSUME NEW p \in Procs, NEW r, req' = [req EXCEPT ![p] = r],
             r.pc = "claim" => r.seen # {}, r.pc = "create" => r.cand # {},
             UNCHANGED <<claimed, base>>
      PROVE  Filled'
  <2>1. req'[p] = r /\ \A q \in Procs : q # p => req'[q] = req[q]
    BY <1>a, <1>2
  <2> QED
    BY <1>0, <1>1, <1>2, <2>1 DEF Filled
<1>3. ASSUME NEW p \in Procs, req' = [req EXCEPT ![p] = Idle], UNCHANGED <<claimed, base>>
      PROVE  Filled'
  BY <1>2, <1>3, IdleField
<1>4. ASSUME NEW p \in Procs, NEW step, NEW x, NEW heads, NEW n,
             req' = [req EXCEPT ![p] = EndAt(step, x, heads, n)],
             step \in EndSteps, UNCHANGED <<claimed, base>>
      PROVE  Filled'
  <2> DEFINE r == EndAt(step, x, heads, n)
  <2>1. r.pc = step /\ req' = [req EXCEPT ![p] = r]
    BY <1>4, EndFields
  <2> HIDE DEF r
  <2> QED
    BY <1>2, <1>4, <2>1 DEF EndSteps
<1>5. ASSUME NEW p \in Procs, NEW step, NEW x, NEW t, NEW w, NEW seen, NEW cand,
             req' = [req EXCEPT ![p] = StatementAt(step, x, t, w, seen, cand)],
             step = "claim" => seen # {}, step = "create" => cand # {},
             UNCHANGED <<claimed, base>>
      PROVE  Filled'
  <2> DEFINE r == StatementAt(step, x, t, w, seen, cand)
  <2>1. r.pc = step /\ r.seen = seen /\ r.cand = cand /\ req' = [req EXCEPT ![p] = r]
    BY <1>5, WholeStatement
  <2> HIDE DEF r
  <2> QED
    BY <1>2, <1>5, <2>1
<1>6. ASSUME NEW p \in Procs, RequestStep(p) PROVE Filled'
  <2>1. CASE Plan(p)
    <3>1. req[p].t \in Tables /\ Read(req[p].x, req[p].t) # {}
      <4>1. req[p].t \in Tables
        BY <1>0, <2>1, RequestTypes DEF Plan, StatementSteps, Statements
      <4> QED
        BY <1>0, <4>1 DEF Read
    <3>2. /\ UNCHANGED <<claimed, base>>
          /\ req' = [req EXCEPT ![p] = StatementAt("claim", req[p].x, req[p].t,
                       req[p].w, Read(req[p].x, req[p].t), {})]
      BY <2>1 DEF Plan, scopeVars
    <3> QED
      BY <3>1, <3>2, <1>5, ZenonT(60)
  <2>2. CASE Claim(p)
    <3>1. req[p].t \in Tables /\ req[p].seen # {} /\ main[req[p].t] # {}
      BY <1>0, <2>2, RequestTypes DEF Claim, StatementSteps, Statements
    <3>2. UNCHANGED <<claimed, base>>
      BY <2>2, <3>1 DEF Claim, scopeVars
    <3>3. \/ req' = [req EXCEPT ![p] = StatementAt("write",
                 req[p].x, req[p].t, req[p].w, req[p].seen, {})]
          \/ \E v : v # {} /\ req' = [req EXCEPT ![p] = StatementAt("create",
                 req[p].x, req[p].t, req[p].w, req[p].seen, v)]
      BY <2>2, <3>1 DEF Claim
    <3> QED
      BY <3>2, <3>3, <1>5
  <2>3. CASE Create(p)
    <3>1. PICK x \in Txns, t \in Tables : x = req[p].x /\ t = req[p].t
      BY <1>0, <2>3, RequestTypes DEF Create, StatementSteps, Statements
    <3>2. req[p].cand # {}
      BY <1>0, <2>3 DEF Create
    <3>3. CASE UNCHANGED scopeVars /\ req' = [req EXCEPT ![p] = Idle]
      BY <3>3, <1>3 DEF scopeVars
    <3>4. CASE /\ base' = IF t \in claimed[x] THEN base
                          ELSE [base EXCEPT ![x][t] = req[p].cand]
               /\ claimed' = [claimed EXCEPT ![x] = @ \cup {t}]
               /\ req' = [req EXCEPT ![p] =
                            StatementAt("write", x, t, req[p].w, req[p].seen, {})]
      <4>1. \A y \in Txns : \A u \in claimed'[y] : base'[y][u] # {}
        BY <1>0, <1>a, <3>2, <3>4
      <4>2. \A q \in Procs : /\ req'[q].pc = "claim" => req'[q].seen # {}
                             /\ req'[q].pc = "create" => req'[q].cand # {}
        <5> DEFINE r == StatementAt("write", x, t, req[p].w, req[p].seen, {})
        <5>1. r.pc = "write" /\ req' = [req EXCEPT ![p] = r]
          BY <3>4, WholeStatement
        <5> HIDE DEF r
        <5> QED
          BY <1>0, <1>a, <5>1
      <4> QED
        BY <1>1, <4>1, <4>2 DEF Filled
    <3> QED
      BY <2>3, <3>1, <3>3, <3>4 DEF Create
  <2>4. CASE Write(p) \/ StatementFails(p)
    BY <2>4, <1>3 DEF Write, StatementFails, scopeVars
  <2>5. CASE Prepare(p) \/ PublishRefused(p)
    <3>1. UNCHANGED <<claimed, base>>
      BY <2>5 DEF Prepare, PublishRefused, scopeVars
    <3>2. \/ req' = [req EXCEPT ![p] = Idle]
          \/ \E step \in EndSteps : \E x, heads, n :
               req' = [req EXCEPT ![p] = EndAt(step, x, heads, n)]
      BY <2>5 DEF Prepare, PublishRefused, Committed, Lost, EndSteps
    <3> QED
      BY <3>1, <3>2, <1>3, <1>4
  <2>6. CASE Publish(p) \/ PublishFails(p) \/ FinishEnd(p) \/ Cancelled(p)
    BY <2>6, <1>3 DEF Publish, PublishFails, FinishEnd, Cancelled, Committed,
       Reopen, scopeVars
  <2> QED
    BY <1>6, <2>1, <2>2, <2>3, <2>4, <2>5, <2>6 DEF RequestStep
<1>7. ASSUME NEW p \in Procs, NEW x \in Txns, NEW t \in Tables, Statement(p, x, t)
      PROVE  Filled'
  <2>1. /\ UNCHANGED <<claimed, base>>
        /\ req' = [req EXCEPT ![p] =
                     StatementAt("plan", x, t, <<x, writes[x] + 1>>, {}, {})]
    BY <1>7 DEF Statement, scopeVars
  <2> DEFINE r == StatementAt("plan", x, t, <<x, writes[x] + 1>>, {}, {})
  <2>2. r.pc = "plan" /\ req' = [req EXCEPT ![p] = r]
    BY <2>1, WholeStatement
  <2> HIDE DEF r
  <2> QED
    BY <1>2, <2>1, <2>2
<1>8. ASSUME NEW p \in Procs, NEW x \in Txns, NEW commit \in BOOLEAN, End(p, x, commit)
      PROVE  Filled'
  BY <1>8, <1>4 DEF End, scopeVars, EndSteps
<1>9. CASE UNCHANGED <<req, claimed, base>>
  BY <1>0, <1>1, <1>9 DEF Filled
<1>10. CASE Crash
  <2>1. (\A p \in Procs : req'[p].pc = "idle") /\ \A x \in Txns : claimed'[x] = {}
    BY <1>10, IdleField DEF Crash
  <2> QED
    BY <1>1, <2>1 DEF Filled
<1>11. CASE \E x \in Txns : Forget(x)
  <2>1. PICK x \in Txns : Forget(x)
    BY <1>11
  <2>2. /\ req' = req /\ claimed'[x] = {}
        /\ \A y \in Txns : y # x => claimed'[y] = claimed[y] /\ base'[y] = base[y]
    BY <1>a, <2>1 DEF Forget
  <2> QED
    BY <1>0, <1>1, <2>2 DEF Filled
<1>12. \/ \E p \in Procs : RequestStep(p)
       \/ \E p \in Procs, x \in Txns, t \in Tables : Statement(p, x, t)
       \/ \E p \in Procs, x \in Txns, commit \in BOOLEAN : End(p, x, commit)
       \/ UNCHANGED <<req, claimed, base>>
       \/ Crash
       \/ \E x \in Txns : Forget(x)
  BY DEF Next, QuietStatement, DropBranch, DropStale, UserDrop, OutsideWrite,
         EndWithoutOpen, Abandon, Shutdown, scopeVars, vars
<1> QED
  BY <1>6, <1>7, <1>8, <1>9, <1>10, <1>11, <1>12

\* The part of the state a step leaves to the transaction x; it may end it.
Kept(x) ==
  /\ UNCHANGED <<acked[x], claimed[x], base[x], branch[x], key[x]>>
  /\ reply'[x] # reply[x] => reply'[x] # "committed"
  /\ x \in open' => x \in open
  /\ x \in ended => x \in ended'
  /\ dropping'[x] = dropping[x] \/ (x \in open /\ x \in ended' \ open')
  /\ foreign' = foreign
  /\ \A t \in Tables : main[t] \subseteq main'[t]

LEMMA DeadStays ==
  ASSUME CommitInv, NEW x \in Txns, NEW t \in claimed[x], Dead(x, t),
         base'[x][t] = base[x][t], branch'[x][t] = branch[x][t],
         main[t] \subseteq main'[t]
  PROVE  Dead(x, t)'
<1>1. base[x][t] \subseteq main[t]
  BY DEF CommitInv, CommitParts, TxnOK, Clean
<1> QED
  BY <1>1 DEF Dead

LEMMA AckedKept ==
  ASSUME AckedInv, TypeOK', NEW x \in Txns, Kept(x),
         \A p \in Procs : req'[p].pc # "idle" /\ req'[p].x = x => req'[p] = req[p]
  PROVE  AckedOK(x)'
<1>0. /\ AckedOK(x) /\ CommitInv /\ EndIsExclusive /\ TypeOK
      /\ claimed[x] \subseteq Tables /\ acked[x] \subseteq Tables \X Writes
  BY DEF AckedInv, AckedParts, CommitInv, EndInv, TypeOK
<1>1. MayPublish(x)' => MayPublish(x)
  BY DEF MayPublish, Kept
<1>2. (acked[x] # {} => x \in foreign \/ key[x] # NoKey)'
  BY <1>0 DEF AckedOK, Kept
<1>3. ASSUME MayPublish(x)', NEW a \in acked'[x]
      PROVE  a[1] \in claimed'[x] /\ (a[2] \in branch'[x][a[1]] \/ Dead(x, a[1])')
  <2>1. /\ a \in acked[x] /\ a[1] \in claimed[x] /\ a[1] \in Tables
        /\ a[2] \in branch[x][a[1]] \/ Dead(x, a[1])
    BY <1>0, <1>1, <1>3 DEF AckedOK, Kept
  <2>2. Dead(x, a[1]) => Dead(x, a[1])'
    BY <1>0, <2>1, DeadStays DEF Kept
  <2> QED
    BY <2>1, <2>2 DEF Kept
<1>4. (dropping[x] # {} => x \in ended /\ ~MayPublish(x))'
  <2>1. CASE dropping'[x] = dropping[x]
    BY <1>0, <1>1, <2>1 DEF AckedOK, Kept
  <2>2. CASE x \in open /\ x \in ended' \ open'
    <3>1. ASSUME NEW p \in Procs, req'[p].pc \in {"prepare", "commit"}, req'[p].x = x
          PROVE  FALSE
      <4>1. req'[p].pc # "idle"
        BY <3>1
      <4>2. req[p].pc \in EndSteps /\ req[p].x = x
        BY <3>1, <4>1 DEF EndSteps
      <4> QED
        BY <1>0, <2>2, <4>2 DEF EndIsExclusive
    <3> QED
      BY <2>2, <3>1 DEF MayPublish
  <2> QED
    BY <2>1, <2>2 DEF Kept
<1>5. ASSUME reply'[x] = "committed"
      PROVE  /\ x \in ended' \cup foreign' /\ x \notin open'
             /\ \A p \in Procs : ~Busy(p, x)'
             /\ \A a \in acked'[x] : a[2] \in main'[a[1]]
  <2>1. /\ x \in ended \cup foreign /\ x \notin open
        /\ \A p \in Procs : ~Busy(p, x)
        /\ \A a \in acked[x] : a[1] \in Tables /\ a[2] \in main[a[1]]
    BY <1>0, <1>5 DEF AckedOK, Kept
  <2>2. x \in ended' \cup foreign' /\ x \notin open'
    BY <2>1 DEF Kept
  <2>3. \A p \in Procs : ~Busy(p, x)'
    BY <2>1 DEF Busy
  <2>4. \A a \in acked'[x] : a[2] \in main'[a[1]]
    BY <2>1 DEF Kept
  <2> QED
    BY <2>2, <2>3, <2>4
<1> QED
  BY <1>2, <1>3, <1>4, <1>5 DEF AckedOK

LEMMA PreparedKept ==
  ASSUME AckedInv, NEW p \in Procs, req'[p] = req[p],
         req[p].pc # "idle" => acked'[req[p].x] = acked[req[p].x]
  PROVE  PreparedOK(p)'
<1>1. PreparedOK(p)
  BY DEF AckedInv, AckedParts
<1> QED
  BY <1>1 DEF PreparedOK

\* A step that moves no request.
LEMMA AsideAcked ==
  ASSUME AckedInv, TypeOK', req' = req, acked' = acked,
         NEW x \in Txns, AckedOK(x)', \A y \in Txns : y # x => Kept(y)
  PROVE  AckedParts'
<1>1. ASSUME NEW p \in Procs PROVE PreparedOK(p)'
  BY PreparedKept
<1>2. ASSUME NEW y \in Txns, y # x PROVE AckedOK(y)'
  BY <1>2, AckedKept
<1> QED
  BY <1>1, <1>2 DEF AckedParts

\* A step of the request p of the transaction x, which has no other.
LEMMA OwnStepAcked ==
  ASSUME AckedInv, TypeOK', NEW p \in Procs, NEW x \in Txns, NEW r,
         req' = [req EXCEPT ![p] = r], r.pc # "idle" => r.x = x,
         \A q \in Procs : req[q].pc # "idle" /\ req[q].x = x => q = p,
         \A y \in Txns : y # x => Kept(y),
         AckedOK(x)', PreparedOK(p)'
  PROVE  AckedParts'
<1>0. CommitInv /\ TypeOK /\ req \in [Procs -> {Idle} \cup Statements \cup Ends]
  BY DEF AckedInv, CommitInv, MainInv, TypeOK
<1>1. req'[p] = r /\ \A q \in Procs : q # p => req'[q] = req[q]
  BY <1>0
<1>2. ASSUME NEW q \in Procs, q # p PROVE PreparedOK(q)'
  <2>1. req[q].pc # "idle" => req[q].x \in Txns /\ req[q].x # x
    BY <1>0, <1>2, OwnRequest
  <2>2. req[q].pc # "idle" => acked'[req[q].x] = acked[req[q].x]
    BY <2>1 DEF Kept
  <2> QED
    BY <1>1, <1>2, <2>2, PreparedKept
<1>3. ASSUME NEW y \in Txns, y # x PROVE AckedOK(y)'
  <2>1. \A q \in Procs : req'[q].pc # "idle" /\ req'[q].x = y => req'[q] = req[q]
    BY <1>1, <1>3
  <2> QED
    BY <1>3, <2>1, AckedKept
<1> QED
  BY <1>2, <1>3 DEF AckedParts

\* A transaction nobody knows yet has no acknowledged write and no answer.
LEMMA FreshAcked ==
  ASSUME AckedInv, NEW x \in Txns, x \notin open \cup ended \cup foreign,
         UNCHANGED <<foreign, acked[x], dropping[x]>>,
         reply'[x] = "committed" =>
           x \in ended' \ open' /\ (req' = req \/ reply'[x] = reply[x])
  PROVE  AckedOK(x)'
<1>0. AckedOK(x) /\ TxnOK(x) /\ \A p \in Procs : RequestOK(p)
  BY DEF AckedInv, AckedParts, CommitInv, CommitParts
<1>1. acked'[x] = {} /\ dropping'[x] = {} /\ reply[x] # "committed"
  BY <1>0 DEF TxnOK, Registered, AckedOK
<1>2. \A p \in Procs : ~Busy(p, x)
  BY <1>0 DEF RequestOK, Registered, Busy
<1>3. reply'[x] = "committed" => \A p \in Procs : ~Busy(p, x)'
  BY <1>1, <1>2 DEF Busy
<1> QED
  BY <1>1, <1>3 DEF AckedOK

LEMMA QuietStatementAcked ==
  ASSUME AckedInv, TypeOK', NEW x \in Txns, QuietStatement(x)
  PROVE  AckedParts'
<1>0. UNCHANGED <<main, branch, claimed, base, key, req, acked, reply, foreign>>
  BY DEF QuietStatement, catalogVars, scopeVars, clientVars, registryVars
<1>1. CASE UNCHANGED registryVars
  <2>1. \A y \in Txns : Kept(y)
    BY <1>0, <1>1 DEF registryVars, Kept
  <2>2. AckedOK(x)'
    BY <1>0, <2>1, AckedKept
  <2> QED
    BY <1>0, <2>1, <2>2, AsideAcked
<1>2. CASE x \notin foreign
  <2>1. PICK E \in SUBSET open :
          /\ EndAll(E, "expired")
          /\ ended' = ended \cup E
          /\ \/ x \in ended \cup E /\ open' = open \ E
             \/ x \notin ended \cup E /\ open' = (open \ E) \cup {x}
    BY <1>2 DEF QuietStatement
  <2>2. dropping' = [y \in Txns |-> IF y \in E THEN Discards(y) ELSE dropping[y]]
    BY <2>1 DEF EndAll
  <2>3. \A y \in Txns : y # x => Kept(y)
    BY <1>0, <2>1, <2>2 DEF Kept
  <2>4. CASE x \in open \cup ended \cup E
    <3>1. Kept(x)
      BY <1>0, <2>1, <2>2, <2>4 DEF Kept
    <3>2. AckedOK(x)'
      BY <1>0, <3>1, AckedKept
    <3> QED
      BY <1>0, <2>3, <3>2, AsideAcked
  <2>5. CASE x \notin open \cup ended \cup E
    <3>1. dropping'[x] = dropping[x] /\ reply'[x] = reply[x]
      BY <1>0, <2>2, <2>5
    <3>2. reply[x] # "committed"
      BY <1>2, <2>5 DEF AckedInv, AckedParts, AckedOK
    <3>3. AckedOK(x)'
      BY <1>0, <1>2, <2>5, <3>1, <3>2, FreshAcked
    <3> QED
      BY <1>0, <2>3, <3>3, AsideAcked
  <2> QED
    BY <2>4, <2>5
<1> QED
  BY <1>1, <1>2 DEF QuietStatement

LEMMA EndWithoutOpenAcked ==
  ASSUME AckedInv, TypeOK', NEW x \in Txns, NEW commit \in BOOLEAN,
         EndWithoutOpen(x, commit)
  PROVE  AckedParts'
<1>0. UNCHANGED <<main, branch, claimed, base, key, req, acked, foreign>>
  BY DEF EndWithoutOpen, catalogVars, scopeVars, registryVars
<1>a. reply \in [Txns -> Replies]
  BY DEF AckedInv, CommitInv, MainInv, TypeOK
<1>1. CASE UNCHANGED registryVars /\ Answer(x, IF commit THEN "conflict" ELSE "rolled_back")
  <2>1. \A y \in Txns : Kept(y)
    BY <1>0, <1>1, <1>a DEF registryVars, Kept, Answer
  <2>2. AckedOK(x)'
    BY <1>0, <2>1, AckedKept
  <2> QED
    BY <1>0, <2>1, <2>2, AsideAcked
<1>2. CASE x \notin foreign
  <2>1. PICK E \in SUBSET open :
          /\ x \notin open \ E
          /\ EndAll(E, "expired")
          /\ open' = open \ E
          /\ ended' = ended \cup E \cup {x}
          /\ Answer(x, IF ~commit THEN "rolled_back"
                       ELSE IF x \in ended \cup E THEN "conflict"
                       ELSE "committed")
    BY <1>2 DEF EndWithoutOpen
  <2>2. dropping' = [y \in Txns |-> IF y \in E THEN Discards(y) ELSE dropping[y]]
    BY <2>1 DEF EndAll
  <2>3. \A y \in Txns : y # x => Kept(y)
    BY <1>0, <1>a, <2>1, <2>2 DEF Kept, Answer
  <2>4. CASE x \in ended \cup E
    <3>1. Kept(x)
      BY <1>0, <1>a, <2>1, <2>2, <2>4 DEF Kept, Answer
    <3>2. AckedOK(x)'
      BY <1>0, <3>1, AckedKept
    <3> QED
      BY <1>0, <2>3, <3>2, AsideAcked
  <2>5. CASE x \notin ended \cup E
    <3>1. dropping'[x] = dropping[x] /\ x \in ended' \ open' /\ x \notin open \cup ended \cup foreign
      BY <1>2, <2>1, <2>2, <2>5
    <3>2. AckedOK(x)'
      BY <1>0, <3>1, FreshAcked
    <3> QED
      BY <1>0, <2>3, <3>2, AsideAcked
  <2> QED
    BY <2>4, <2>5
<1> QED
  BY <1>1, <1>2 DEF EndWithoutOpen

LEMMA EndedAcked ==
  ASSUME AckedInv, TypeOK', (\E x \in Txns : Abandon(x)) \/ Shutdown
  PROVE  AckedParts'
<1>0. UNCHANGED <<main, branch, claimed, base, key, req, acked, reply, foreign>>
  BY DEF Abandon, Shutdown, catalogVars, scopeVars, clientVars
<1>1. \A y \in Txns : Kept(y)
  <2>1. ASSUME NEW x \in Txns, Abandon(x) PROVE \A y \in Txns : Kept(y)
    BY <1>0, <2>1 DEF Abandon, EndAll, Kept
  <2>2. ASSUME Shutdown PROVE \A y \in Txns : Kept(y)
    BY <1>0, <2>2 DEF Shutdown, EndAll, Kept
  <2> QED
    BY <2>1, <2>2
<1>2. \A y \in Txns : AckedOK(y)'
  BY <1>0, <1>1, AckedKept
<1>3. \A p \in Procs : PreparedOK(p)'
  BY <1>0, PreparedKept
<1> QED
  BY <1>2, <1>3 DEF AckedParts

\* A branch that others drop was of no use any more, or is missed by COMMIT.
LEMMA BranchGoesAcked ==
  ASSUME AckedInv, TypeOK', Nonempty = Tables \/ "user_drop" \notin Faults,
         NEW x \in Txns, NEW t \in Tables,
         DropBranch(x, t) \/ DropStale(x, t) \/ UserDrop(x, t)
  PROVE  AckedParts'
<1>a. TypeOK /\ AckedOK(x)
  BY DEF AckedInv, CommitInv, MainInv, AckedParts
<1>0. /\ UNCHANGED <<main, open, ended, foreign, claimed, base, key, req,
                     acked, reply>>
      /\ \A y \in Txns, u \in Tables :
           branch'[y][u] = branch[y][u] \/ branch'[y][u] = {}
  BY <1>a, BranchGoes
<1>b. /\ branch \in [Txns -> [Tables -> SUBSET Writes]]
      /\ dropping \in [Txns -> SUBSET Tables]
  BY <1>a DEF TypeOK
<1>1. /\ \A y \in Txns : y # x => branch'[y] = branch[y] /\ dropping'[y] = dropping[y]
      /\ \A u \in Tables : u # t => branch'[x][u] = branch[x][u]
      /\ dropping'[x] \subseteq dropping[x]
  BY <1>b DEF DropBranch, DropStale, UserDrop, registryVars
<1>2. \A y \in Txns : y # x => Kept(y)
  BY <1>0, <1>1 DEF Kept
<1>3. MayPublish(x)' => MayPublish(x)
  BY <1>0 DEF MayPublish
<1>4. MayPublish(x) => UserDrop(x, t)
  <2>1. DropBranch(x, t) => ~MayPublish(x)
    BY <1>a DEF AckedOK, DropBranch
  <2>2. DropStale(x, t) => ~MayPublish(x)
    BY DEF DropStale, MayPublish, Busy, StatementSteps
  <2> QED
    BY <2>1, <2>2
<1>5. ASSUME MayPublish(x)', NEW a \in acked'[x]
      PROVE  a[1] \in claimed'[x] /\ (a[2] \in branch'[x][a[1]] \/ Dead(x, a[1])')
  <2>1. /\ a \in acked[x] /\ a[1] \in claimed[x] /\ a[1] \in Tables
        /\ a[2] \in branch[x][a[1]] \/ Dead(x, a[1])
    BY <1>0, <1>3, <1>5, <1>a DEF AckedOK, TypeOK
  <2>2. CASE a[1] = t
    <3>1. UserDrop(x, t)
      BY <1>3, <1>4, <1>5
    <3>2. branch'[x][t] = {}
      BY <1>b, <3>1 DEF UserDrop
    <3>3. Nonempty = Tables
      BY <3>1 DEF UserDrop, Fault
    <3>4. base[x][t] # {}
      BY <2>1, <2>2, <3>3 DEF AckedInv, Filled
    <3> QED
      BY <1>0, <2>1, <2>2, <3>2, <3>4 DEF Dead
  <2>3. CASE a[1] # t
    BY <1>0, <1>1, <2>1, <2>3 DEF Dead
  <2> QED
    BY <2>2, <2>3
<1>6. AckedOK(x)'
  <2>1. (acked[x] # {} => x \in foreign \/ key[x] # NoKey)'
    BY <1>0, <1>a DEF AckedOK
  <2>2. (dropping[x] # {} => x \in ended /\ ~MayPublish(x))'
    BY <1>0, <1>1, <1>3, <1>a DEF AckedOK
  <2>3. (reply[x] = "committed" =>
          /\ x \in ended \cup foreign /\ x \notin open
          /\ \A p \in Procs : ~Busy(p, x)
          /\ \A a \in acked[x] : a[2] \in main[a[1]])'
    BY <1>0, <1>a DEF AckedOK, Busy
  <2> QED
    BY <1>5, <2>1, <2>2, <2>3 DEF AckedOK
<1> QED
  BY <1>0, <1>2, <1>6, AsideAcked

LEMMA OutsideWriteAcked ==
  ASSUME AckedInv, TypeOK', NEW t \in Tables, OutsideWrite(t)
  PROVE  AckedParts'
<1>a. TypeOK
  BY DEF AckedInv, CommitInv, MainInv
<1>0. /\ UNCHANGED <<branch, open, ended, foreign, dropping, outcome, claimed,
                     base, key, req, acked, reply>>
      /\ \A u \in Tables : main[u] \subseteq main'[u]
  BY <1>a, OutsideWriteGains
<1>1. \A y \in Txns : Kept(y)
  BY <1>0 DEF Kept
<1>2. \A y \in Txns : AckedOK(y)'
  BY <1>0, <1>1, AckedKept
<1>3. \A p \in Procs : PreparedOK(p)'
  BY <1>0, PreparedKept
<1> QED
  BY <1>2, <1>3 DEF AckedParts

LEMMA CrashAcked ==
  ASSUME AckedInv, Crash
  PROVE  AckedParts'
<1>1. \A p \in Procs : req'[p].pc = "idle"
  BY IdleField DEF Crash
<1>2. \A p \in Procs : PreparedOK(p)'
  BY <1>1 DEF PreparedOK
<1>3. ASSUME NEW x \in Txns PROVE AckedOK(x)'
  <2>1. AckedOK(x) /\ TxnOK(x)
    BY DEF AckedInv, AckedParts, CommitInv, CommitParts
  <2>2. /\ open' = {} /\ foreign' = foreign \cup open \cup ended \cup forgotten
        /\ dropping'[x] = {} /\ UNCHANGED <<main, acked, reply>>
    BY DEF Crash, catalogVars, clientVars
  <2>3. ~MayPublish(x)' /\ \A p \in Procs : ~Busy(p, x)'
    BY <1>1, <2>2 DEF MayPublish, Busy
  <2>4. acked'[x] # {} => x \in foreign'
    BY <2>1, <2>2 DEF TxnOK, Registered
  <2>5. reply'[x] = "committed" => x \in foreign' /\ \A a \in acked'[x] : a[2] \in main'[a[1]]
    BY <2>1, <2>2 DEF AckedOK
  <2> QED
    BY <2>2, <2>3, <2>4, <2>5 DEF AckedOK
<1> QED
  BY <1>2, <1>3 DEF AckedParts

LEMMA StatementAcked ==
  ASSUME AckedInv, TypeOK', ~Concurrent, NEW p \in Procs, NEW x \in Txns,
         NEW t \in Tables, Statement(p, x, t)
  PROVE  AckedParts'
<1>0. /\ UNCHANGED <<main, branch, claimed, base, key, acked, reply, foreign>>
      /\ \A q \in Procs : ~Busy(q, x)
      /\ req[p] = Idle /\ x \notin foreign
  BY DEF Statement, MayRequest, catalogVars, scopeVars, clientVars
<1>1. PICK E \in SUBSET open :
        /\ x \notin ended \cup E
        /\ EndAll(E, "expired")
        /\ open' = (open \ E) \cup {x}
        /\ ended' = ended \cup E
  BY DEF Statement
<1>2. dropping' = [y \in Txns |-> IF y \in E THEN Discards(y) ELSE dropping[y]]
  BY <1>1 DEF EndAll
<1>3. \A y \in Txns : y # x => Kept(y)
  BY <1>0, <1>1, <1>2 DEF Kept
<1> DEFINE r == StatementAt("plan", x, t, <<x, writes[x] + 1>>, {}, {})
<1>4. req' = [req EXCEPT ![p] = r] /\ r.pc = "plan" /\ r.x = x
  BY WholeStatement DEF Statement
<1> HIDE DEF r
<1>5. req'[p] = r
  BY <1>4 DEF AckedInv, CommitInv, MainInv, TypeOK
<1>6. AckedOK(x)'
  <2>1. reply[x] # "committed"
    BY <1>0, <1>1 DEF AckedInv, AckedParts, AckedOK
  <2>2. CASE x \in open
    <3>0. AckedOK(x)
      BY DEF AckedInv, AckedParts
    <3>1. MayPublish(x) /\ dropping'[x] = {}
      BY <2>2, <3>0, <1>1, <1>2 DEF MayPublish, AckedOK
    <3>2. \A a \in acked[x] : Dead(x, a[1])' = Dead(x, a[1])
      BY <1>0 DEF Dead
    <3> QED
      BY <1>0, <2>1, <3>0, <3>1, <3>2 DEF AckedOK
  <2>3. CASE x \notin open
    BY <1>0, <1>1, <1>2, <2>1, <2>3, FreshAcked
  <2> QED
    BY <2>2, <2>3
<1>7. PreparedOK(p)'
  BY <1>4, <1>5 DEF PreparedOK
<1>8. \A q \in Procs : req[q].pc # "idle" /\ req[q].x = x => q = p
  BY <1>0 DEF Busy
<1> QED
  BY <1>3, <1>4, <1>6, <1>7, <1>8, OwnStepAcked

LEMMA EndAcked ==
  ASSUME AckedInv, TypeOK', ~Concurrent, NEW p \in Procs, NEW x \in Txns,
         NEW commit \in BOOLEAN, End(p, x, commit)
  PROVE  AckedParts'
<1>0. /\ UNCHANGED <<main, branch, claimed, base, key, acked, foreign>>
      /\ \A q \in Procs : ~Busy(q, x)
      /\ req[p] = Idle /\ reply' = [reply EXCEPT ![x] = "none"]
  BY DEF End, MayRequest, catalogVars, scopeVars, Answer
<1>a. reply \in [Txns -> Replies] /\ req \in [Procs -> {Idle} \cup Statements \cup Ends]
  BY DEF AckedInv, CommitInv, MainInv, TypeOK
<1>1. PICK E \in SUBSET (open \ {x}) :
        /\ x \in open
        /\ dropping' = [y \in Txns |-> IF y \in E \/ (y = x /\ ~commit)
                                       THEN Discards(y) ELSE dropping[y]]
        /\ open' = open \ (E \cup {x})
        /\ ended' = ended \cup E \cup {x}
  BY DEF End
<1>2. \A y \in Txns : y # x => Kept(y)
  BY <1>0, <1>1, <1>a DEF Kept
<1>3. PICK step \in {"prepare", "rollback"} :
        /\ step = IF commit THEN "prepare" ELSE "rollback"
        /\ req' = [req EXCEPT ![p] = EndAt(step, x, NoTables, 1)]
  BY DEF End
<1> DEFINE r == EndAt(step, x, NoTables, 1)
<1>4. req' = [req EXCEPT ![p] = r] /\ r.pc = step /\ r.x = x
  BY <1>3, EndFields
<1> HIDE DEF r
<1>5. req'[p] = r /\ \A q \in Procs : q # p => req'[q] = req[q]
  BY <1>4, <1>a
<1>6. AckedOK(x)'
  <2>0. AckedOK(x) /\ MayPublish(x)
    BY <1>1 DEF AckedInv, AckedParts, MayPublish
  <2>1. \A a \in acked[x] : Dead(x, a[1])' = Dead(x, a[1])
    BY <1>0 DEF Dead
  <2>2. dropping'[x] # {} => x \in ended' /\ ~MayPublish(x)'
    <3>1. CASE commit
      BY <1>1, <2>0, <3>1 DEF AckedOK
    <3>2. CASE ~commit
      <4>1. \A q \in Procs : req'[q].pc \in {"prepare", "commit"} => req'[q].x # x
        BY <1>0, <1>3, <1>4, <1>5, <3>2 DEF Busy
      <4> QED
        BY <1>1, <4>1 DEF MayPublish
    <3> QED
      BY <3>1, <3>2
  <2>3. reply'[x] # "committed"
    BY <1>0, <1>a
  <2> QED
    BY <1>0, <2>0, <2>1, <2>2, <2>3 DEF AckedOK
<1>7. PreparedOK(p)'
  BY <1>4, <1>5 DEF PreparedOK
<1>8. \A q \in Procs : req[q].pc # "idle" /\ req[q].x = x => q = p
  BY <1>0 DEF Busy
<1> QED
  BY <1>2, <1>4, <1>6, <1>7, <1>8, OwnStepAcked

\* A step of a statement of x: the registry and the answers stay, claims only
\* add to the scope, and of the branches at most the statement's own table.
Proceeds(x) ==
  /\ \A y \in Txns : y # x =>
       UNCHANGED <<acked[y], claimed[y], base[y], branch[y], key[y]>>
  /\ claimed[x] \subseteq claimed'[x]
  /\ acked'[x] # {} => key'[x] # NoKey
  /\ \A u \in claimed[x] :
       base'[x][u] = base[x][u] /\ branch[x][u] \subseteq branch'[x][u]
  /\ \A u \in claimed[x] :
       base[x][u] # {} /\ branch[x][u] = {} => branch'[x][u] = {}
  /\ \A a \in acked'[x] :
       a \in acked[x] \/ (a[1] \in claimed'[x] /\ a[2] \in branch'[x][a[1]])

LEMMA StatementStepAcked ==
  ASSUME AckedInv, TypeOK', NEW p \in Procs, NEW x \in Txns, NEW r,
         req[p].pc \in StatementSteps, req[p].x = x,
         req' = [req EXCEPT ![p] = r], r.pc # "idle" => r.x = x,
         r.pc \notin {"prepare", "commit"},
         UNCHANGED <<main, open, ended, foreign, dropping, reply>>,
         Proceeds(x)
  PROVE  AckedParts'
<1>0. /\ CommitInv /\ AckedOK(x) /\ req[p].pc # "idle"
      /\ req \in [Procs -> {Idle} \cup Statements \cup Ends]
  BY DEF AckedInv, AckedParts, CommitInv, MainInv, TypeOK, StatementSteps
<1>1. \A q \in Procs : req[q].pc # "idle" /\ req[q].x = x => q = p
  BY <1>0, OwnRequest
<1>2. \A y \in Txns : y # x => Kept(y)
  BY DEF Kept, Proceeds
<1>3. req'[p] = r /\ \A q \in Procs : q # p => req'[q] = req[q]
  BY <1>0
<1>4. PreparedOK(p)'
  BY <1>3 DEF PreparedOK
<1>5. MayPublish(x)' => MayPublish(x)
  BY <1>3 DEF MayPublish
<1>6. ASSUME MayPublish(x)', NEW a \in acked'[x]
      PROVE  a[1] \in claimed'[x] /\ (a[2] \in branch'[x][a[1]] \/ Dead(x, a[1])')
  <2>1. CASE a \in acked[x]
    <3>1. a[1] \in claimed[x] /\ (a[2] \in branch[x][a[1]] \/ Dead(x, a[1]))
      BY <1>0, <1>5, <1>6, <2>1 DEF AckedOK
    <3>2. Dead(x, a[1]) => Dead(x, a[1])'
      BY <3>1 DEF Dead, Proceeds
    <3> QED
      BY <3>1, <3>2 DEF Proceeds
  <2> QED
    BY <2>1 DEF Proceeds
<1>7. reply[x] # "committed"
  BY <1>0 DEF AckedOK, Busy
<1>8. AckedOK(x)'
  BY <1>0, <1>5, <1>6, <1>7 DEF AckedOK, Proceeds
<1>9. /\ AckedInv /\ TypeOK' /\ p \in Procs /\ x \in Txns
      /\ req' = [req EXCEPT ![p] = r] /\ (r.pc # "idle" => r.x = x)
  OBVIOUS
<1> QED
  BY ONLY <1>1, <1>2, <1>4, <1>8, <1>9, OwnStepAcked

LEMMA StatementStepsProceed ==
  ASSUME AckedInv, NEW p \in Procs,
         Plan(p) \/ Claim(p) \/ Create(p) \/ Write(p) \/ StatementFails(p)
  PROVE  req[p].x \in Txns /\ req[p].pc \in StatementSteps /\ Proceeds(req[p].x)
<1>0. req[p].pc \in StatementSteps /\ req[p].pc # "idle"
  BY DEF Plan, Claim, Create, Write, StatementFails, StatementSteps
<1>a. CommitInv /\ TypeOK
  BY DEF AckedInv, CommitInv, MainInv
<1>1. PICK x \in Txns, t \in Tables : x = req[p].x /\ t = req[p].t
  BY <1>0, <1>a, OwnRequest
<1>b. /\ claimed \in [Txns -> SUBSET Tables]
      /\ base \in [Txns -> [Tables -> SUBSET Writes]]
      /\ branch \in [Txns -> [Tables -> SUBSET Writes]]
      /\ key \in [Txns -> Catalogs \cup {NoKey}]
      /\ acked \in [Txns -> SUBSET (Tables \X Writes)]
  BY <1>a DEF TypeOK
<1>c. acked[x] # {} => key[x] # NoKey
  <2>1. AckedOK(x) /\ x \notin foreign
    BY <1>0, <1>1, <1>a, OwnRequest DEF AckedInv, AckedParts
  <2> QED
    BY <2>1 DEF AckedOK
<1>d. CatalogOf[t] # NoKey
  BY TxnConstants
<1> SUFFICES Proceeds(x)
  BY <1>0, <1>1
<1> USE DEF Proceeds
<1>5. CASE Plan(p) \/ StatementFails(p)
  <2>1. UNCHANGED <<branch, claimed, base, key, acked>>
    BY <1>5 DEF Plan, StatementFails, catalogVars, scopeVars, clientVars
  <2> QED
    BY <1>c, <2>1
<1>6. CASE Claim(p)
  <2>1. UNCHANGED <<branch, key, acked>>
    BY <1>6 DEF Claim, catalogVars, scopeVars, clientVars
  <2>2. \/ UNCHANGED <<claimed, base>>
        \/ /\ t \notin claimed[x]
           /\ claimed' = [claimed EXCEPT ![x] = @ \cup {t}]
           /\ base' = [base EXCEPT ![x][t] = {}]
    BY <1>1, <1>6 DEF Claim, scopeVars
  <2>3. /\ \A y \in Txns : y # x => UNCHANGED <<claimed[y], base[y]>>
        /\ claimed[x] \subseteq claimed'[x]
        /\ \A u \in claimed[x] : base'[x][u] = base[x][u]
    BY <1>b, <2>2
  <2> QED
    BY <1>c, <2>1, <2>3
<1>7. CASE Create(p)
  <2>0. t \notin claimed[x]
    BY <1>1, <1>7, <1>a DEF Create, CommitInv, MainInv, CreatesUnclaimed
  <2>1. /\ branch' = [branch EXCEPT ![x][t] = req[p].cand]
        /\ acked' = acked
        /\ \/ UNCHANGED <<claimed, base, key>>
           \/ /\ claimed' = [claimed EXCEPT ![x] = @ \cup {t}]
              /\ base' = [base EXCEPT ![x][t] = req[p].cand]
              /\ key' = [key EXCEPT ![x] = CatalogOf[t]]
    BY <1>1, <1>7, <2>0 DEF Create, scopeVars, clientVars
  <2>2. /\ \A y \in Txns : y # x => UNCHANGED <<claimed[y], base[y], branch[y], key[y]>>
        /\ claimed[x] \subseteq claimed'[x]
        /\ \A u \in claimed[x] : base'[x][u] = base[x][u]
        /\ \A u \in claimed[x] : branch'[x][u] = branch[x][u]
        /\ acked'[x] # {} => key'[x] # NoKey
    BY <1>b, <1>c, <1>d, <2>0, <2>1
  <2> QED
    BY <2>1, <2>2
<1>8. CASE Write(p)
  <2>0. t \in claimed[x]
    BY <1>1, <1>8, <1>a DEF Write, CommitInv, CommitParts, RequestOK
  <2>1. /\ branch' = [branch EXCEPT ![x][t] = @ \cup {req[p].w}]
        /\ UNCHANGED <<claimed, base>>
        /\ \/ UNCHANGED <<key, acked>>
           \/ /\ key' = [key EXCEPT ![x] = CatalogOf[t]]
              /\ acked' = [acked EXCEPT ![x] = @ \cup {<<t, req[p].w>>}]
        /\ branch[x][t] # {} \/ base[x][t] = {}
    BY <1>1, <1>8, <2>0 DEF Write, CommitToBranch, Readable
  <2>2. \A y \in Txns : y # x => UNCHANGED <<acked[y], branch[y], key[y]>>
    BY <1>b, <2>1
  <2>3. /\ branch'[x][t] = branch[x][t] \cup {req[p].w}
        /\ \A u \in Tables : u # t => branch'[x][u] = branch[x][u]
    BY <1>b, <2>1
  <2>4. acked'[x] # {} => key'[x] # NoKey
    BY <1>b, <1>c, <1>d, <2>1
  <2>5. \A a \in acked'[x] : a \in acked[x] \/ a = <<t, req[p].w>>
    BY <1>b, <2>1
  <2>6. claimed[x] \subseteq Tables
    BY <1>b
  <2>7. \A u \in claimed[x] : branch[x][u] \subseteq branch'[x][u]
    BY <2>3, <2>6
  <2>8. \A u \in claimed[x] : base[x][u] # {} /\ branch[x][u] = {} => branch'[x][u] = {}
    BY <2>1, <2>3, <2>6
  <2>9. \A a \in acked'[x] : a \in acked[x] \/ (a[1] \in claimed'[x] /\ a[2] \in branch'[x][a[1]])
    BY <2>0, <2>1, <2>3, <2>5
  <2> QED
    BY <2>1, <2>2, <2>4, <2>7, <2>8, <2>9
<1> QED
  BY <1>5, <1>6, <1>7, <1>8

LEMMA StatementStepsAcked ==
  ASSUME AckedInv, TypeOK', NEW p \in Procs,
         Plan(p) \/ Claim(p) \/ Create(p) \/ Write(p) \/ StatementFails(p)
  PROVE  AckedParts'
<1>0. req[p].pc \in StatementSteps /\ req[p].pc # "idle"
  BY DEF Plan, Claim, Create, Write, StatementFails, StatementSteps
<1>1. PICK x \in Txns, t \in Tables : x = req[p].x /\ t = req[p].t
  BY <1>0, OwnRequest DEF AckedInv
<1>2. UNCHANGED <<main, open, ended, foreign, dropping, reply>>
  BY DEF Plan, Claim, Create, Write, StatementFails, CommitToBranch, catalogVars,
         registryVars, clientVars
<1>3. \E r : /\ req' = [req EXCEPT ![p] = r]
             /\ r.pc # "idle" => r.x = x
             /\ r.pc \notin {"prepare", "commit"}
  <2>1. \/ req' = [req EXCEPT ![p] = Idle]
        \/ \E step \in StatementSteps : \E w, seen, cand :
             req' = [req EXCEPT ![p] = StatementAt(step, x, t, w, seen, cand)]
    BY <1>1 DEF Plan, Claim, Create, Write, StatementFails, StatementSteps
  <2>2. CASE req' = [req EXCEPT ![p] = Idle]
    BY <2>2, IdleField
  <2>3. ASSUME NEW step \in StatementSteps, NEW w, NEW seen, NEW cand,
               req' = [req EXCEPT ![p] = StatementAt(step, x, t, w, seen, cand)]
        PROVE  \E r : /\ req' = [req EXCEPT ![p] = r] /\ r.x = x
                      /\ r.pc \notin {"prepare", "commit"}
    <3> DEFINE r == StatementAt(step, x, t, w, seen, cand)
    <3>1. r.pc = step /\ r.x = x /\ req' = [req EXCEPT ![p] = r]
      BY <2>3, WholeStatement
    <3> HIDE DEF r
    <3> QED
      BY <3>1 DEF StatementSteps
  <2> QED
    BY <2>1, <2>2, <2>3
<1>4. PICK r : /\ req' = [req EXCEPT ![p] = r]
               /\ r.pc # "idle" => r.x = x
               /\ r.pc \notin {"prepare", "commit"}
  BY <1>3
<1>5. Proceeds(x)
  BY <1>1, StatementStepsProceed
<1> QED
  BY <1>0, <1>1, <1>2, <1>4, <1>5, StatementStepAcked

----------------------------------------------------------------------------
(* COMMIT and ROLLBACK. *)

\* Where the transaction of a running COMMIT or ROLLBACK stands.
LEMMA EndStanding ==
  ASSUME AckedInv, NEW p \in Procs, NEW x, x = req[p].x, req[p].pc \in EndSteps
  PROVE  /\ x \in Txns /\ x \in ended /\ x \notin open /\ x \notin foreign
         /\ req[p].pc # "idle"
         /\ \A q \in Procs : req[q].pc # "idle" /\ req[q].x = x => q = p
         /\ claimed[x] \subseteq Tables /\ acked[x] \subseteq Tables \X Writes
         /\ AckedOK(x) /\ PreparedOK(p) /\ reply[x] # "committed"
         /\ acked[x] # {} => key[x] # NoKey
         /\ req[p].pc \in {"prepare", "commit"} => MayPublish(x) /\ dropping[x] = {}
         /\ req \in [Procs -> {Idle} \cup Statements \cup Ends]
         /\ reply \in [Txns -> Replies] /\ dropping \in [Txns -> SUBSET Tables]
<1>0. /\ CommitInv /\ EndIsExclusive /\ req[p].pc # "idle" /\ PreparedOK(p)
  BY DEF AckedInv, AckedParts, CommitInv, EndInv, EndSteps
<1>1. /\ x \in Txns /\ x \in ended /\ x \notin open /\ x \notin foreign
      /\ \A q \in Procs : req[q].pc # "idle" /\ req[q].x = x => q = p
  BY <1>0, OwnRequest DEF EndIsExclusive
<1>2. AckedOK(x)
  BY <1>1 DEF AckedInv, AckedParts
<1>3. reply[x] # "committed"
  BY <1>0, <1>2 DEF AckedOK, Busy
<1>4. acked[x] # {} => key[x] # NoKey
  BY <1>1, <1>2 DEF AckedOK
<1>5. req[p].pc \in {"prepare", "commit"} => MayPublish(x) /\ dropping[x] = {}
  BY <1>1, <1>2 DEF AckedOK, MayPublish
<1>6. /\ claimed[x] \subseteq Tables /\ acked[x] \subseteq Tables \X Writes
      /\ req \in [Procs -> {Idle} \cup Statements \cup Ends]
      /\ reply \in [Txns -> Replies] /\ dropping \in [Txns -> SUBSET Tables]
  BY <1>0, <1>1 DEF CommitInv, MainInv, TypeOK
<1> QED
  BY <1>0, <1>1, <1>2, <1>3, <1>4, <1>5, <1>6

\* It leaves every other transaction alone.
LEMMA EndStepOthers ==
  ASSUME AckedInv, TypeOK', NEW p \in Procs, NEW x, x = req[p].x,
         \/ Prepare(p) \/ Publish(p) \/ PublishRefused(p) \/ PublishFails(p)
         \/ FinishEnd(p) \/ Cancelled(p)
  PROVE  \A y \in Txns : y # x => Kept(y)
<1>0. /\ req[p].pc \in EndSteps
      /\ UNCHANGED <<claimed, base, key, acked, foreign>>
  BY EndStepsRegistered DEF AckedInv
<1>1. x \in Txns /\ reply \in [Txns -> Replies] /\ dropping \in [Txns -> SUBSET Tables]
  BY <1>0, EndStanding
<1>2. \A t \in Tables : main[t] \subseteq main'[t]
  <2>1. MainInv /\ Next
    BY DEF AckedInv, CommitInv, Next, RequestStep
  <2> QED
    BY <2>1, StepGrows DEF vars
<1>3. branch' = branch \/ \E b : branch' = [branch EXCEPT ![x] = b]
  BY DEF Prepare, Publish, PublishRefused, PublishFails, FinishEnd, Cancelled,
         MoveMains, catalogVars
<1>4. \A y \in Txns : y # x => branch'[y] = branch[y]
  BY <1>1, <1>3 DEF AckedInv, CommitInv, MainInv, TypeOK
<1>5. reply' = reply \/ \E a : reply' = [reply EXCEPT ![x] = a]
  BY DEF Prepare, Publish, PublishRefused, PublishFails, FinishEnd, Cancelled,
         Committed, Reopen, Lost, Answer
<1>6. \A y \in Txns : y # x => reply'[y] = reply[y]
  BY <1>1, <1>5
<1>7. dropping' = dropping \/ \E d : dropping' = [dropping EXCEPT ![x] = d]
  BY DEF Prepare, Publish, PublishRefused, PublishFails, FinishEnd, Cancelled,
         Committed, Reopen, Lost
<1>8. \A y \in Txns : y # x => dropping'[y] = dropping[y]
  BY <1>1, <1>7
<1>9. \A y \in Txns : y # x => (y \in open' => y \in open) /\ (y \in ended => y \in ended')
  BY DEF Prepare, Publish, PublishRefused, PublishFails, FinishEnd, Cancelled,
         Committed, Reopen, Lost
<1> QED
  BY <1>0, <1>2, <1>4, <1>6, <1>8, <1>9 DEF Kept

LEMMA EndStepAcked ==
  ASSUME AckedInv, TypeOK', NEW p \in Procs, NEW x, x = req[p].x,
         \/ Prepare(p) \/ Publish(p) \/ PublishRefused(p) \/ PublishFails(p)
         \/ FinishEnd(p) \/ Cancelled(p),
         NEW r, req' = [req EXCEPT ![p] = r], r.pc # "idle" => r.x = x,
         AckedOK(x)', PreparedOK(p)'
  PROVE  AckedParts'
<1>1. req[p].pc \in EndSteps
  BY EndStepsRegistered DEF AckedInv
<1>2. x \in Txns /\ \A q \in Procs : req[q].pc # "idle" /\ req[q].x = x => q = p
  BY <1>1, EndStanding
<1>3. \A y \in Txns : y # x => Kept(y)
  BY EndStepOthers
<1> QED
  BY <1>2, <1>3, OwnStepAcked

\* The branches an unfinished COMMIT still counts on, while nothing moves.
LEMMA MayPublishStill ==
  ASSUME AckedInv, NEW p \in Procs, NEW x, x = req[p].x,
         req[p].pc \in {"prepare", "commit"},
         UNCHANGED <<main, branch, claimed, base, key, acked, foreign>>,
         reply'[x] # "committed",
         dropping'[x] # {} => x \in ended' /\ ~MayPublish(x)'
  PROVE  AckedOK(x)'
<1>1. req[p].pc \in EndSteps
  BY DEF EndSteps
<1>2. AckedOK(x) /\ MayPublish(x)
  BY <1>1, EndStanding
<1>3. \A a \in acked[x] : Dead(x, a[1])' = Dead(x, a[1])
  BY DEF Dead
<1> QED
  BY <1>2, <1>3 DEF AckedOK

\* What COMMIT finds prepared has every acknowledged write: a table that is
\* left out has none, and a table that may be published is not dead.
LEMMA NothingLeftOut ==
  ASSUME AckedInv, NEW p \in Procs, NEW x, x = req[p].x, req[p].pc = "prepare",
         NEW a \in acked[x]
  PROVE  /\ a[1] \in claimed[x] /\ a[1] \in Tables
         /\ ~Skipped(x, a[1])
         /\ Publishable(x, a[1]) => a[2] \in branch[x][a[1]]
<1>1. req[p].pc \in EndSteps
  BY DEF EndSteps
<1>2. AckedOK(x) /\ MayPublish(x) /\ claimed[x] \subseteq Tables
  BY <1>1, EndStanding
<1>3. a[1] \in claimed[x] /\ (a[2] \in branch[x][a[1]] \/ Dead(x, a[1]))
  BY <1>2 DEF AckedOK
<1> QED
  BY <1>2, <1>3 DEF Skipped, Publishable, Dead

LEMMA LostAcked ==
  ASSUME AckedInv, TypeOK', NEW p \in Procs, Prepare(p) \/ PublishRefused(p), Lost(p)
  PROVE  AckedParts'
<1>0. /\ req[p].pc \in {"prepare", "commit"} /\ req[p].pc \in EndSteps
      /\ UNCHANGED <<main, branch, claimed, base, key, acked, foreign>>
  BY DEF Prepare, PublishRefused, EndSteps, scopeVars, catalogVars
<1>1. PICK x : x = req[p].x
  OBVIOUS
<1>2. /\ x \in Txns /\ x \in ended /\ x \notin open /\ reply[x] # "committed"
      /\ \A q \in Procs : req[q].pc # "idle" /\ req[q].x = x => q = p
      /\ req \in [Procs -> {Idle} \cup Statements \cup Ends]
  BY <1>0, <1>1, EndStanding
<1> DEFINE r == EndAt("conflict", x, NoTables, req[p].attempt)
<1>3. r.pc = "conflict" /\ r.x = x /\ req' = [req EXCEPT ![p] = r]
  BY <1>1, EndFields DEF Lost
<1> HIDE DEF r
<1>4. req'[p] = r /\ \A q \in Procs : q # p => req'[q] = req[q]
  BY <1>2, <1>3
<1>5. UNCHANGED <<open, ended, reply>>
  BY DEF Lost
<1>6. ~MayPublish(x)'
  BY <1>2, <1>3, <1>4, <1>5 DEF MayPublish
<1>7. AckedOK(x)'
  BY <1>0, <1>1, <1>2, <1>5, <1>6, MayPublishStill
<1>8. PreparedOK(p)'
  BY <1>3, <1>4 DEF PreparedOK
<1> QED
  BY <1>1, <1>3, <1>7, <1>8, EndStepAcked

\* An answered COMMIT: everything acknowledged is on main.
LEMMA CommittedAcked ==
  ASSUME AckedInv, TypeOK', NEW p \in Procs, Prepare(p) \/ Publish(p), Committed(p),
         \A a \in acked[req[p].x] : a[2] \in main'[a[1]]
  PROVE  AckedParts'
<1>0. /\ req[p].pc \in {"prepare", "commit"} /\ req[p].pc \in EndSteps
      /\ UNCHANGED <<claimed, base, key, acked, foreign>>
  BY DEF Prepare, Publish, EndSteps, scopeVars, catalogVars
<1>1. PICK x : x = req[p].x
  OBVIOUS
<1>a. AckedInv /\ p \in Procs
  OBVIOUS
<1>2. /\ x \in Txns /\ x \in ended /\ x \notin open /\ dropping[x] = {}
      /\ \A q \in Procs : req[q].pc # "idle" /\ req[q].x = x => q = p
      /\ acked[x] # {} => key[x] # NoKey
      /\ req \in [Procs -> {Idle} \cup Statements \cup Ends]
  BY ONLY <1>0, <1>1, <1>a, EndStanding
<1>3. req' = [req EXCEPT ![p] = Idle] /\ UNCHANGED <<open, ended, dropping>>
  BY DEF Committed
<1>4. req'[p].pc = "idle" /\ \A q \in Procs : q # p => req'[q] = req[q]
  BY <1>2, <1>3, IdleField
<1>5. \A q \in Procs : ~(req'[q].pc # "idle" /\ req'[q].x = x)
  BY <1>2, <1>4
<1>6. ~MayPublish(x)'
  BY <1>2, <1>3, <1>5 DEF MayPublish
<1>7. AckedOK(x)'
  BY <1>0, <1>1, <1>2, <1>3, <1>5, <1>6 DEF AckedOK, Busy
<1>8. PreparedOK(p)'
  BY <1>4 DEF PreparedOK
<1> QED
  BY <1>1, <1>3, <1>7, <1>8, EndStepAcked, IdleField

LEMMA PrepareAcked ==
  ASSUME AckedInv, TypeOK', NEW p \in Procs, Prepare(p)
  PROVE  AckedParts'
<1>0. /\ req[p].pc = "prepare" /\ req[p].pc \in EndSteps
      /\ UNCHANGED <<main, branch, claimed, base, key, acked, foreign>>
  BY DEF Prepare, EndSteps, scopeVars, catalogVars
<1>1. PICK x : x = req[p].x
  OBVIOUS
<1>2. /\ x \in Txns /\ x \in ended /\ x \notin open /\ reply[x] # "committed"
      /\ dropping[x] = {} /\ (acked[x] # {} => key[x] # NoKey)
      /\ req \in [Procs -> {Idle} \cup Statements \cup Ends]
  BY <1>0, <1>1, EndStanding
<1> DEFINE ts == {t \in claimed[x] : ~Skipped(x, t)}
           heads == [t \in Tables |-> IF t \in ts THEN branch[x][t] ELSE {}]
<1>3. \A a \in acked[x] : a[1] \in ts /\ a[1] \in Tables
  BY <1>0, <1>1, NothingLeftOut
<1>4. CASE (key[x] = NoKey \/ ts = {}) /\ Committed(p)
  <2>1. acked[x] = {}
    BY <1>2, <1>3, <1>4
  <2> QED
    BY <1>1, <1>4, <2>1, CommittedAcked
<1>5. CASE /\ \A t \in ts : Publishable(x, t)
           /\ req' = [req EXCEPT ![p] = EndAt("commit", x, heads, req[p].attempt)]
           /\ UNCHANGED <<open, ended, dropping, outcome, reply>>
  <2> DEFINE r == EndAt("commit", x, heads, req[p].attempt)
  <2>1. r.pc = "commit" /\ r.x = x /\ r.heads = heads
    BY EndFields
  <2>2. req' = [req EXCEPT ![p] = r]
    BY <1>5
  <2>3. \A a \in acked[x] : a[2] \in heads[a[1]]
    BY <1>0, <1>1, <1>3, <1>5, NothingLeftOut
  <2> HIDE DEF r, heads
  <2>4. req'[p] = r
    BY <1>2, <2>2
  <2>5. PreparedOK(p)'
    BY <1>0, <2>1, <2>3, <2>4 DEF PreparedOK
  <2>6. reply'[x] # "committed" /\ dropping'[x] = {}
    BY <1>2, <1>5
  <2>7. AckedOK(x)'
    BY <1>0, <1>1, <2>6, MayPublishStill
  <2> QED
    BY <1>1, <2>1, <2>2, <2>5, <2>7, EndStepAcked
<1>6. CASE Lost(p)
  BY <1>6, LostAcked
<1> QED
  BY <1>1, <1>4, <1>5, <1>6 DEF Prepare

LEMMA PublishRefusedAcked ==
  ASSUME AckedInv, TypeOK', NEW p \in Procs, PublishRefused(p)
  PROVE  AckedParts'
<1>0. /\ req[p].pc = "commit" /\ req[p].pc \in EndSteps
      /\ UNCHANGED <<main, branch, claimed, base, key, acked, foreign>>
  BY DEF PublishRefused, EndSteps, scopeVars, catalogVars
<1>1. PICK x : x = req[p].x
  OBVIOUS
<1>2. /\ reply[x] # "committed" /\ dropping[x] = {}
      /\ req \in [Procs -> {Idle} \cup Statements \cup Ends]
  BY <1>0, <1>1, EndStanding
<1>3. CASE /\ req' = [req EXCEPT ![p] = EndAt("prepare", x, NoTables, req[p].attempt + 1)]
           /\ UNCHANGED <<open, ended, dropping, outcome, reply>>
  <2> DEFINE r == EndAt("prepare", x, NoTables, req[p].attempt + 1)
  <2>1. r.pc = "prepare" /\ r.x = x /\ req' = [req EXCEPT ![p] = r]
    BY <1>3, EndFields
  <2> HIDE DEF r
  <2>2. PreparedOK(p)'
    BY <1>2, <2>1 DEF PreparedOK
  <2>3. AckedOK(x)'
    BY <1>0, <1>1, <1>2, <1>3, MayPublishStill
  <2> QED
    BY <1>1, <2>1, <2>2, <2>3, EndStepAcked
<1>4. CASE Lost(p)
  BY <1>4, LostAcked
<1> QED
  BY <1>1, <1>3, <1>4 DEF PublishRefused

LEMMA PublishFailsAcked ==
  ASSUME AckedInv, TypeOK', NEW p \in Procs, PublishFails(p)
  PROVE  AckedParts'
<1>0. /\ req[p].pc \in {"prepare", "commit"} /\ req[p].pc \in EndSteps
      /\ UNCHANGED <<main, branch, claimed, base, key, acked, foreign>>
  BY DEF PublishFails, EndSteps, scopeVars, catalogVars
<1>1. PICK x : x = req[p].x
  OBVIOUS
<1>2. /\ x \in Txns /\ dropping[x] = {} /\ reply \in [Txns -> Replies]
      /\ req \in [Procs -> {Idle} \cup Statements \cup Ends]
  BY <1>0, <1>1, EndStanding
<1>3. /\ req' = [req EXCEPT ![p] = Idle] /\ UNCHANGED dropping
      /\ reply' = [reply EXCEPT ![x] = "failed"]
  BY <1>1 DEF PublishFails, Reopen, Answer
<1>4. AckedOK(x)'
  BY <1>0, <1>1, <1>2, <1>3, MayPublishStill
<1>5. PreparedOK(p)'
  BY <1>2, <1>3, IdleField DEF PreparedOK
<1> QED
  BY <1>1, <1>3, <1>4, <1>5, EndStepAcked, IdleField

\* The request is over and the transaction stays out of the registry.
LEMMA OverAcked ==
  ASSUME AckedInv, TypeOK', NEW p \in Procs, FinishEnd(p) \/ Cancelled(p)
  PROVE  AckedParts'
<1>0. /\ req[p].pc \in EndSteps /\ UNCHANGED <<open, ended, key, acked, foreign>>
      /\ req' = [req EXCEPT ![p] = Idle]
  BY DEF FinishEnd, Cancelled, EndSteps, scopeVars
<1>1. PICK x : x = req[p].x
  OBVIOUS
<1>2. /\ x \in Txns /\ x \notin open /\ (acked[x] # {} => key[x] # NoKey)
      /\ \A q \in Procs : req[q].pc # "idle" /\ req[q].x = x => q = p
      /\ reply \in [Txns -> Replies] /\ dropping \in [Txns -> SUBSET Tables]
      /\ req \in [Procs -> {Idle} \cup Statements \cup Ends]
  BY <1>0, <1>1, EndStanding
<1>3. \E a \in Replies \ {"committed"} : reply' = [reply EXCEPT ![x] = a]
  BY <1>1 DEF FinishEnd, Cancelled, Answer, Replies
<1>4. dropping'[x] = {} /\ reply'[x] # "committed"
  BY <1>1, <1>2, <1>3 DEF FinishEnd, Cancelled
<1>5. req'[p].pc = "idle" /\ \A q \in Procs : q # p => req'[q] = req[q]
  BY <1>0, <1>2, IdleField
<1>6. ~MayPublish(x)'
  BY <1>0, <1>2, <1>5 DEF MayPublish
<1>7. AckedOK(x)'
  BY <1>0, <1>2, <1>4, <1>6 DEF AckedOK
<1>8. PreparedOK(p)'
  BY <1>5 DEF PreparedOK
<1> QED
  BY <1>0, <1>1, <1>7, <1>8, EndStepAcked, IdleField

LEMMA PublishAcked ==
  ASSUME AckedInv, TypeOK', NEW p \in Procs, Publish(p)
  PROVE  AckedParts'
<1>0. /\ req[p].pc = "commit" /\ req[p].pc \in EndSteps /\ MoveMains(p)
      /\ UNCHANGED <<claimed, base, key, acked, foreign>>
  BY DEF Publish, EndSteps, scopeVars
<1>1. PICK x : x = req[p].x
  OBVIOUS
<1>2. /\ x \in Txns /\ dropping[x] = {} /\ PreparedOK(p) /\ AckedOK(x) /\ MayPublish(x)
      /\ claimed[x] \subseteq Tables /\ acked[x] \subseteq Tables \X Writes
      /\ acked[x] # {} => key[x] # NoKey
      /\ req \in [Procs -> {Idle} \cup Statements \cup Ends]
      /\ reply \in [Txns -> Replies]
  BY <1>0, <1>1, EndStanding, SMTT(30)
<1>3. ASSUME NEW a \in acked[x]
      PROVE  a[2] \in main'[a[1]] /\ branch'[x][a[1]] = {} /\ a[1] \in claimed[x]
  <2>1. a[1] \in Tables /\ a[2] \in req[p].heads[a[1]] /\ a[1] \in claimed[x]
    BY <1>0, <1>1, <1>2 DEF PreparedOK, AckedOK
  <2>2. branch \in [Txns -> [Tables -> SUBSET Writes]]
    BY DEF AckedInv, CommitInv, MainInv, TypeOK
  <2> QED
    BY <1>0, <1>1, <1>2, <2>1, <2>2 DEF MoveMains
<1>4. CASE Committed(p)
  BY <1>1, <1>3, <1>4, CommittedAcked
<1>5. CASE Reopen(p)
  <2>1. /\ req' = [req EXCEPT ![p] = Idle] /\ UNCHANGED dropping
        /\ reply' = [reply EXCEPT ![x] = "failed"]
    BY <1>1, <1>5 DEF Reopen, Answer
  <2>2. reply'[x] # "committed" /\ dropping'[x] = {}
    BY <1>2, <2>1
  <2>3. \A a \in acked[x] : Dead(x, a[1])'
    BY <1>0, <1>3 DEF Dead
  <2>4. AckedOK(x)'
    BY <1>0, <1>2, <1>3, <2>2, <2>3 DEF AckedOK
  <2>5. PreparedOK(p)'
    BY <1>2, <2>1, IdleField DEF PreparedOK
  <2> QED
    BY <1>1, <2>1, <2>4, <2>5, EndStepAcked, IdleField
<1> QED
  BY <1>4, <1>5 DEF Publish

LEMMA NextAckedInv ==
  ASSUME AckedInv, [Next]_vars, ~Concurrent, "forget" \notin Faults,
         Nonempty = Tables \/ "user_drop" \notin Faults
  PROVE  AckedInv'
<1>0. CommitInv' /\ Filled' /\ TypeOK'
  BY NextCommitInv, NextFilled, NextTypeOK DEF AckedInv, CommitInv, MainInv
<1> SUFFICES AckedParts'
  BY <1>0 DEF AckedInv
<1>1. ASSUME NEW p \in Procs, RequestStep(p) PROVE AckedParts'
  <2>1. CASE Plan(p) \/ Claim(p) \/ Create(p) \/ Write(p) \/ StatementFails(p)
    BY <1>0, <2>1, StatementStepsAcked
  <2>2. CASE Prepare(p)
    BY <1>0, <2>2, PrepareAcked
  <2>3. CASE Publish(p)
    BY <1>0, <2>3, PublishAcked
  <2>4. CASE PublishRefused(p)
    BY <1>0, <2>4, PublishRefusedAcked
  <2>5. CASE PublishFails(p)
    BY <1>0, <2>5, PublishFailsAcked
  <2>6. CASE FinishEnd(p) \/ Cancelled(p)
    BY <1>0, <2>6, OverAcked
  <2> QED
    BY <1>1, <2>1, <2>2, <2>3, <2>4, <2>5, <2>6 DEF RequestStep
<1>2. ASSUME NEW p \in Procs, NEW x \in Txns, NEW t \in Tables, Statement(p, x, t)
      PROVE  AckedParts'
  BY <1>0, <1>2, StatementAcked
<1>3. ASSUME NEW p \in Procs, NEW x \in Txns, NEW commit \in BOOLEAN, End(p, x, commit)
      PROVE  AckedParts'
  BY <1>0, <1>3, EndAcked
<1>4. ASSUME NEW x \in Txns, QuietStatement(x)
      PROVE  AckedParts'
  BY <1>0, <1>4, QuietStatementAcked
<1>5. ASSUME NEW x \in Txns, NEW t \in Tables,
             DropBranch(x, t) \/ DropStale(x, t) \/ UserDrop(x, t)
      PROVE  AckedParts'
  BY <1>0, <1>5, BranchGoesAcked
<1>6. ASSUME NEW x \in Txns, NEW commit \in BOOLEAN, EndWithoutOpen(x, commit)
      PROVE  AckedParts'
  BY <1>0, <1>6, EndWithoutOpenAcked
<1>7. CASE (\E x \in Txns : Abandon(x)) \/ Shutdown
  BY <1>0, <1>7, EndedAcked
<1>8. ASSUME NEW t \in Tables, OutsideWrite(t) PROVE AckedParts'
  BY <1>0, <1>8, OutsideWriteAcked
<1>9. CASE Crash
  BY <1>9, CrashAcked
<1>10. CASE UNCHANGED vars
  <2>1. UNCHANGED <<main, branch, open, ended, foreign, claimed, base, key,
                    dropping, req, acked, reply>>
    BY <1>10 DEF vars
  <2>2. \A x \in Txns : AckedOK(x)'
    BY <2>1 DEF AckedInv, AckedParts, AckedOK, MayPublish, Dead, Busy
  <2>3. \A p \in Procs : PreparedOK(p)'
    BY <2>1 DEF AckedInv, AckedParts, PreparedOK
  <2> QED
    BY <2>2, <2>3 DEF AckedParts
<1> QED
  BY <1>1, <1>2, <1>3, <1>4, <1>5, <1>6, <1>7, <1>8, <1>9, <1>10, Remembered DEF Next

\* A COMMIT answered with success published every write the client was told
\* succeeded, on every table, whatever else failed, for a client that waits
\* for its answers and sends no id again after ENDED_RETENTION.  A user who drops a transaction branch by hand must find
\* no table that was empty when the transaction claimed it: there a dropped
\* branch starts again without a parent.
THEOREM AcknowledgedIsPublished ==
  ~Concurrent /\ "forget" \notin Faults /\ (Nonempty = Tables \/ "user_drop" \notin Faults)
    => (Spec => []CommittedIsVisible)
<1> SUFFICES ASSUME ~Concurrent, "forget" \notin Faults,
                    Nonempty = Tables \/ "user_drop" \notin Faults
             PROVE  Spec => []CommittedIsVisible
  OBVIOUS
<1>1. Init => AckedInv
  BY InitAckedInv
<1>2. AckedInv /\ [Next]_vars => AckedInv'
  BY NextAckedInv
<1>3. AckedInv => CommittedIsVisible
  BY DEF AckedInv, AckedParts, AckedOK, CommittedIsVisible
<1> QED
  BY <1>1, <1>2, <1>3, PTL DEF Spec

----------------------------------------------------------------------------
(* The promise: AtomicCommit. *)

\* A request works for the transaction it started with.
LEMMA RequestKeepsTxn ==
  ASSUME NEW p \in Procs, RequestStep(p)
  PROVE  /\ req[p].pc # "idle"
         /\ open' = open \/ open' = open \cup {req[p].x}
         /\ \E r : /\ req' = [req EXCEPT ![p] = r]
                   /\ r.pc = "idle" \/ r.x = req[p].x
<1>1. req[p].pc # "idle"
  BY DEF RequestStep, Plan, Claim, Create, Write, StatementFails, Prepare, Publish,
     PublishRefused, PublishFails, FinishEnd, Cancelled, StatementSteps, EndSteps
<1>2. open' = open \/ open' = open \cup {req[p].x}
  BY DEF RequestStep, Plan, Claim, Create, Write, StatementFails, Prepare, Publish,
     PublishRefused, PublishFails, FinishEnd, Cancelled, Committed, Reopen, Lost,
     registryVars
<1>3. \/ req' = [req EXCEPT ![p] = Idle]
      \/ \E step, t, w, seen, cand :
           req' = [req EXCEPT ![p] = StatementAt(step, req[p].x, t, w, seen, cand)]
      \/ \E step, heads, n : req' = [req EXCEPT ![p] = EndAt(step, req[p].x, heads, n)]
  <2>1. CASE Plan(p) \/ Claim(p) \/ Create(p) \/ Write(p) \/ StatementFails(p)
    BY <2>1 DEF Plan, Claim, Create, Write, StatementFails
  <2>2. CASE Prepare(p) \/ PublishRefused(p)
    BY <2>2 DEF Prepare, PublishRefused, Committed, Lost
  <2>3. CASE Publish(p) \/ PublishFails(p) \/ FinishEnd(p) \/ Cancelled(p)
    BY <2>3 DEF Publish, PublishFails, FinishEnd, Cancelled, Committed, Reopen
  <2> QED
    BY <2>1, <2>2, <2>3 DEF RequestStep
<1>4. \E r : /\ req' = [req EXCEPT ![p] = r]
             /\ r.pc = "idle" \/ r.x = req[p].x
  BY <1>3, IdleField, WholeStatement, EndFields
<1> QED
  BY <1>1, <1>2, <1>4

\* An id the registry refuses, and no request works for, stays that way.
LEMMA QuietStays ==
  ASSUME CommitInv, [Next]_vars, NEW x \in Txns, x \notin open, x \in ended \cup foreign,
         \A p \in Procs : ~Busy(p, x)
  PROVE  x \notin open' /\ \A p \in Procs : ~Busy(p, x)'
<1>0. req \in [Procs -> {Idle} \cup Statements \cup Ends]
  BY DEF CommitInv, MainInv, TypeOK
<1>1. ASSUME NEW p \in Procs, NEW r, req' = [req EXCEPT ![p] = r],
             r.pc = "idle" \/ r.x # x
      PROVE  \A q \in Procs : ~Busy(q, x)'
  BY <1>0, <1>1 DEF Busy
<1>2. ASSUME NEW p \in Procs, RequestStep(p)
      PROVE  x \notin open' /\ \A q \in Procs : ~Busy(q, x)'
  <2>1. req[p].x # x
    BY <1>2, RequestKeepsTxn DEF Busy
  <2> QED
    BY <1>1, <1>2, <2>1, RequestKeepsTxn
<1>3. ASSUME NEW p \in Procs, NEW y \in Txns, NEW t \in Tables, Statement(p, y, t)
      PROVE  x \notin open' /\ \A q \in Procs : ~Busy(q, x)'
  <2>1. y # x /\ x \notin open'
    BY <1>3 DEF Statement
  <2> DEFINE r == StatementAt("plan", y, t, <<y, writes[y] + 1>>, {}, {})
  <2>2. req' = [req EXCEPT ![p] = r] /\ r.x = y
    BY <1>3, WholeStatement DEF Statement
  <2> HIDE DEF r
  <2> QED
    BY <1>1, <2>1, <2>2
<1>4. ASSUME NEW p \in Procs, NEW y \in Txns, NEW commit \in BOOLEAN, End(p, y, commit)
      PROVE  x \notin open' /\ \A q \in Procs : ~Busy(q, x)'
  <2>1. y # x /\ x \notin open'
    BY <1>4 DEF End
  <2> DEFINE r == EndAt(IF commit THEN "prepare" ELSE "rollback", y, NoTables, 1)
  <2>2. req' = [req EXCEPT ![p] = r] /\ r.x = y
    BY <1>4, EndFields DEF End
  <2> HIDE DEF r
  <2> QED
    BY <1>1, <2>1, <2>2
<1>5. ASSUME NEW y \in Txns, QuietStatement(y)
      PROVE  x \notin open' /\ req' = req
  BY <1>5 DEF QuietStatement, registryVars
<1>6. ASSUME NEW y \in Txns, NEW commit \in BOOLEAN, EndWithoutOpen(y, commit)
      PROVE  x \notin open' /\ req' = req
  BY <1>6 DEF EndWithoutOpen, registryVars
<1>7. CASE Crash
  BY <1>7, IdleField DEF Crash, Busy
<1>8. CASE \/ \E y \in Txns, t \in Tables :
                DropBranch(y, t) \/ DropStale(y, t) \/ UserDrop(y, t)
           \/ \E y \in Txns : Abandon(y) \/ Forget(y)
           \/ \E t \in Tables : OutsideWrite(t)
           \/ Shutdown \/ UNCHANGED vars
  <2>1. req' = req /\ (open' = open \/ \E y : open' = open \ {y} \/ open' = {})
    BY <1>8 DEF DropBranch, DropStale, UserDrop, Abandon, Forget, OutsideWrite,
       Shutdown, registryVars, vars
  <2> QED
    BY <2>1 DEF Busy
<1>9. CASE req' = req /\ x \notin open'
  BY <1>9 DEF Busy
<1> QED
  BY <1>2, <1>3, <1>4, <1>5, <1>6, <1>7, <1>8, <1>9 DEF Next

\* A published transaction is over.
SettledInv ==
  /\ AckedInv
  /\ \A x \in Txns : Published(x) => x \notin open /\ \A p \in Procs : ~Busy(p, x)

LEMMA NextSettledInv ==
  ASSUME SettledInv, [Next]_vars, ~Concurrent, Faults \cap {"lost_reply", "forget"} = {},
         Nonempty = Tables \/ "user_drop" \notin Faults
  PROVE  SettledInv'
<1>0. AckedInv /\ CommitInv /\ AckedInv'
  BY NextAckedInv DEF SettledInv, AckedInv
<1> SUFFICES ASSUME NEW x \in Txns, Published(x)'
             PROVE  x \notin open' /\ \A p \in Procs : ~Busy(p, x)'
  BY <1>0 DEF SettledInv
<1>1. CASE Published(x)
  <2>1. x \notin open /\ \A p \in Procs : ~Busy(p, x)
    BY <1>1 DEF SettledInv
  <2>2. x \in ended \cup foreign
    BY <1>0, <1>1, <2>1 DEF CommitInv, CommitParts, TxnOK, Published, Registered
  <2> QED
    BY <1>0, <2>1, <2>2, QuietStays
<1>2. CASE ~Published(x)
  <2>1. PICK p \in Procs : /\ Publish(p) \/ Cancelled(p)
                           /\ req[p].pc = "commit" /\ Matches(p) /\ MoveMains(p)
                           /\ req[p].x = x
    BY <1>0, <1>2, WhoPublishes
  <2>2. /\ x \notin open /\ req \in [Procs -> {Idle} \cup Statements \cup Ends]
        /\ \A q \in Procs : req[q].pc # "idle" /\ req[q].x = x => q = p
    BY <1>0, <2>1, EndStanding DEF EndSteps
  <2>3. req' = [req EXCEPT ![p] = Idle] /\ open' = open
    BY <2>1 DEF Publish, Cancelled, Committed, Fault
  <2> QED
    BY <2>2, <2>3, IdleField DEF Busy
<1> QED
  BY <1>1, <1>2

LEMMA WhoAcks ==
  ASSUME [Next]_vars
  PROVE  acked' = acked \/ \E p \in Procs : Write(p)
BY ZenonT(60) DEF Next, RequestStep, Plan, Claim, Create, StatementFails, Prepare, Publish,
   PublishRefused, PublishFails, FinishEnd, Cancelled, Statement, End,
   QuietStatement, EndWithoutOpen, DropBranch, DropStale, UserDrop, Abandon, Forget,
   OutsideWrite, Shutdown, Crash, clientVars, vars

LEMMA StepKeepsPromise ==
  ASSUME SettledInv, TypeOK', [Next]_vars
  PROVE  [Promise!Next]_<<main, acked>>
<1>0. AckedInv /\ CommitInv /\ TypeOK
  BY DEF SettledInv, AckedInv, CommitInv, MainInv
<1>1. ASSUME NEW p \in Procs, Write(p), acked' # acked PROVE Promise!Next
  <2>0. req[p].pc = "write" /\ req[p].pc # "idle" /\ req[p].pc \in StatementSteps
    BY <1>1 DEF Write, StatementSteps
  <2>1. PICK x \in Txns, t \in Tables :
          \E w \in WritesOf(x) : x = req[p].x /\ t = req[p].t /\ w = req[p].w
    BY <1>0, <2>0, OwnRequest
  <2>w. PICK w \in WritesOf(x) : x = req[p].x /\ t = req[p].t /\ w = req[p].w
    BY <2>1
  <2>2. ~Published(x)
    BY <2>0, <2>w DEF SettledInv, Busy
  <2>3. main' = main /\ acked' = [acked EXCEPT ![x] = @ \cup {<<t, w>>}]
    BY <1>1, <2>w DEF Write, CommitToBranch
  <2>4. Promise!Ack(x)
    BY <2>w, <2>2, <2>3 DEF Promise!Ack, Promise!Published, Promise!WritesOf,
       Published, WritesOf
  <2> QED
    BY <2>4 DEF Promise!Next
<1>2. ASSUME NEW t \in Tables, OutsideWrite(t) PROVE Promise!Next
  <2>1. writes[Outside] \in 0..MaxWrites /\ writes[Outside] < MaxOutside
    BY <1>0, <1>2 DEF TypeOK, Writers, OutsideWrite
  <2>2. <<Outside, writes[Outside] + 1>> \in Promise!WritesOf(Outside)
    BY <2>1, TxnConstants DEF Promise!WritesOf
  <2>3. /\ main' = [main EXCEPT ![t] = @ \cup {<<Outside, writes[Outside] + 1>>}]
        /\ acked' = acked
    BY <1>2 DEF OutsideWrite, clientVars
  <2> QED
    BY <2>2, <2>3 DEF Promise!Next, Promise!OutsideWrite
<1>3. ASSUME NEW p \in Procs, Publish(p) \/ Cancelled(p),
             req[p].pc = "commit", Matches(p), MoveMains(p)
      PROVE  Promise!Next
  <2>0. req[p].pc \in EndSteps
    BY <1>3 DEF EndSteps
  <2>1. PICK x \in Txns : x = req[p].x
    BY <1>0, <2>0, EndStanding
  <2>2. ~Published(x)
    BY <1>0, <1>3, <2>1, MoveMainsFirst
  <2>3. main' \in [Tables -> SUBSET Writes]
    BY DEF TypeOK
  <2>4. \A t \in Tables :
          main[t] \subseteq main'[t] /\ main'[t] \ main[t] \subseteq WritesOf(x)
    <3>1. \A t \in Tables : /\ main[t] \subseteq main'[t]
                            /\ main'[t] \subseteq main[t] \cup WritesOf(x)
      BY <1>0, <1>3, <2>1, MoveMainsGains
    <3> QED
      BY <3>1
  <2>5. \A a \in acked[x] : a[2] \in main'[a[1]]
    <3>1. PreparedOK(p) /\ acked[x] \subseteq Tables \X Writes
      BY <1>0, <2>0, <2>1, EndStanding
    <3> QED
      BY <1>3, <2>1, <3>1 DEF PreparedOK, MoveMains
  <2>6. acked' = acked
    BY <1>3 DEF Publish, Cancelled
  <2>7. Promise!Publish(x)
    BY <2>2, <2>3, <2>4, <2>5, <2>6 DEF Promise!Publish, Promise!Published,
       Promise!WritesOf, Published, WritesOf, Writes, Writers
  <2> QED
    BY <2>7 DEF Promise!Next
<1>4. \/ main' = main /\ acked' = acked
      \/ \E p \in Procs : Write(p) /\ acked' # acked
      \/ \E t \in Tables : OutsideWrite(t)
      \/ \E p \in Procs : /\ Publish(p) \/ Cancelled(p)
                          /\ req[p].pc = "commit" /\ Matches(p) /\ MoveMains(p)
  BY WhoMovesMain, WhoAcks
<1> QED
  BY <1>1, <1>2, <1>3, <1>4

\* The branches, the registry, the checks of COMMIT and its retries implement
\* the promise of AtomicCommit: each transaction moves main in one step, with
\* all it acknowledged and nothing of anyone else.  For a client that waits
\* for its answers, an id not used after ENDED_RETENTION, and a catalog whose answers arrive: a COMMIT whose answer
\* was lost reopens the transaction (reopen), and the client may go on writing
\* in one that is already published.
THEOREM TransactionsAreAtomic ==
  /\ ~Concurrent
  /\ Faults \cap {"lost_reply", "forget"} = {}
  /\ Nonempty = Tables \/ "user_drop" \notin Faults
  => (Spec => ImplementsAtomicCommit)
<1> SUFFICES ASSUME ~Concurrent, Faults \cap {"lost_reply", "forget"} = {},
                    Nonempty = Tables \/ "user_drop" \notin Faults
             PROVE  Spec => ImplementsAtomicCommit
  OBVIOUS
<1>1. Init => SettledInv
  <2> SUFFICES ASSUME Init PROVE SettledInv
    OBVIOUS
  <2>1. \A x \in Txns, t \in Tables : main[t] \cap WritesOf(x) = {}
    BY TxnConstants DEF Init, WritesOf
  <2> QED
    BY <2>1, InitAckedInv DEF SettledInv, Published
<1>2. SettledInv /\ [Next]_vars => SettledInv'
  BY NextSettledInv
<1>3. Init => Promise!Init
  BY DEF Init, Promise!Init
<1>4. SettledInv /\ SettledInv' /\ [Next]_vars => [Promise!Next]_<<main, acked>>
  <2>1. SettledInv' => TypeOK'
    BY DEF SettledInv, AckedInv, CommitInv, MainInv
  <2> QED
    BY <2>1, StepKeepsPromise
<1> QED
  BY <1>1, <1>2, <1>3, <1>4, PTL DEF Spec, ImplementsAtomicCommit, Promise!Spec

----------------------------------------------------------------------------
(* A statement reads the transaction's own writes. *)

\* pin refuses the table from now on.
Stale(x, t) == base[x][t] # {} /\ branch[x][t] = {}

\* An acknowledged write can be read or the table cannot.
HeldOK(x) ==
  MayPublish(x) =>
    \A a \in acked[x] : a[2] \in branch[x][a[1]] \/ Stale(x, a[1])

ReadOK(p) ==
  req[p].pc = "claim" =>
    /\ req[p].x \in open => \A a \in acked[req[p].x] :
         a[1] = req[p].t => a[2] \in req[p].seen
    /\ \A y \in Txns \ {req[p].x} :
         req[p].seen \cap WritesOf(y) \subseteq main[req[p].t]

ReadInv ==
  /\ AckedInv
  /\ \A x \in Txns : HeldOK(x)
  /\ \A p \in Procs : ReadOK(p)

\* Only a new transaction may be published that might not be before.
LEMMA MayPublishComes ==
  ASSUME CommitInv, [Next]_vars, NEW x \in Txns, MayPublish(x)', ~MayPublish(x)
  PROVE  acked'[x] = {}
<1>0. /\ x \notin open /\ req \in [Procs -> {Idle} \cup Statements \cup Ends]
      /\ \A p \in Procs : req[p].pc \in {"prepare", "commit"} => req[p].x # x
  BY DEF CommitInv, MainInv, TypeOK, MayPublish
<1>1. x \notin ended \cup foreign => acked[x] = {}
  BY <1>0 DEF CommitInv, CommitParts, TxnOK, Registered
<1>2. ASSUME NEW p \in Procs, RequestStep(p) PROVE ~MayPublish(x)'
  <2>1. x \notin open'
    BY <1>0, <1>2 DEF RequestStep, Plan, Claim, Create, Write, StatementFails, Prepare,
       Publish, PublishRefused, PublishFails, FinishEnd, Cancelled, Committed,
       Reopen, Lost, registryVars
  <2>2. PICK r : req' = [req EXCEPT ![p] = r] /\ (r.pc = "idle" \/ r.x = req[p].x)
    BY <1>2, RequestKeepsTxn
  <2>3. req'[p] = r /\ \A q \in Procs : q # p => req'[q] = req[q]
    BY <1>0, <2>2
  <2>4. CASE req[p].pc \in {"prepare", "commit"}
    BY <1>0, <2>1, <2>2, <2>3, <2>4 DEF MayPublish
  <2>5. CASE req[p].pc \notin {"prepare", "commit"}
    <3>1. \/ req' = [req EXCEPT ![p] = Idle]
          \/ \E step \in StatementSteps : \E t, w, seen, cand :
               req' = [req EXCEPT ![p] = StatementAt(step, req[p].x, t, w, seen, cand)]
      <4>1. CASE Plan(p)
        BY <4>1 DEF Plan, StatementSteps
      <4>2. CASE Claim(p)
        BY <4>2 DEF Claim, StatementSteps
      <4>3. CASE Create(p)
        BY <4>3 DEF Create, StatementSteps
      <4>4. CASE Write(p) \/ StatementFails(p) \/ FinishEnd(p) \/ Cancelled(p)
        BY <4>4 DEF Write, StatementFails, FinishEnd, Cancelled
      <4>5. ~(Prepare(p) \/ Publish(p) \/ PublishRefused(p) \/ PublishFails(p))
        BY <2>5 DEF Prepare, Publish, PublishRefused, PublishFails
      <4> QED
        BY <1>2, <4>1, <4>2, <4>3, <4>4, <4>5 DEF RequestStep
    <3>2. req'[p].pc \notin {"prepare", "commit"}
      BY <1>0, <3>1, IdleField, WholeStatement DEF StatementSteps
    <3> QED
      BY <1>0, <2>1, <2>3, <3>2 DEF MayPublish
  <2> QED
    BY <2>4, <2>5
<1>3. ASSUME NEW p \in Procs, NEW y \in Txns, NEW t \in Tables, Statement(p, y, t)
      PROVE  acked'[x] = {}
  <2>1. CASE y = x
    BY <1>1, <1>3, <2>1 DEF Statement, clientVars
  <2>2. CASE y # x
    <3>1. x \notin open'
      BY <1>0, <1>3, <2>2 DEF Statement
    <3> DEFINE r == StatementAt("plan", y, t, <<y, writes[y] + 1>>, {}, {})
    <3>2. req' = [req EXCEPT ![p] = r] /\ r.pc = "plan"
      BY <1>3, WholeStatement DEF Statement
    <3> HIDE DEF r
    <3> QED
      BY <1>0, <3>1, <3>2 DEF MayPublish
  <2> QED
    BY <2>1, <2>2
<1>4. ASSUME NEW p \in Procs, NEW y \in Txns, NEW commit \in BOOLEAN, End(p, y, commit)
      PROVE  FALSE
  <2>1. y # x /\ x \notin open'
    BY <1>0, <1>4 DEF End
  <2> DEFINE r == EndAt(IF commit THEN "prepare" ELSE "rollback", y, NoTables, 1)
  <2>2. req' = [req EXCEPT ![p] = r] /\ r.x = y
    BY <1>4, EndFields DEF End
  <2> HIDE DEF r
  <2> QED
    BY <1>0, <2>1, <2>2 DEF MayPublish
<1>5. ASSUME NEW y \in Txns, QuietStatement(y)
      PROVE  acked'[x] = {}
  <2>1. acked' = acked /\ req' = req
    BY <1>5 DEF QuietStatement, clientVars
  <2>2. x \in open'
    BY <1>0, <2>1 DEF MayPublish
  <2>3. x \notin ended \cup foreign
    BY <1>0, <1>5, <2>2 DEF QuietStatement, registryVars
  <2> QED
    BY <1>1, <2>1, <2>3
<1>6. CASE Crash
  <2>1. ~MayPublish(x)'
    BY <1>6, IdleField DEF Crash, MayPublish
  <2> QED
    BY <2>1
<1>7. CASE req' = req /\ open' \subseteq open
  BY <1>0, <1>7 DEF MayPublish
<1>8. \/ \E p \in Procs : RequestStep(p)
      \/ \E p \in Procs, y \in Txns, t \in Tables : Statement(p, y, t)
      \/ \E p \in Procs, y \in Txns, commit \in BOOLEAN : End(p, y, commit)
      \/ \E y \in Txns : QuietStatement(y)
      \/ Crash
      \/ req' = req /\ open' \subseteq open
  BY DEF Next, EndWithoutOpen, DropBranch, DropStale, UserDrop, Abandon, Forget,
     OutsideWrite, Shutdown, registryVars, vars
<1> QED
  BY <1>2, <1>3, <1>4, <1>5, <1>6, <1>7, <1>8

LEMMA WhoMovesScope ==
  ASSUME [Next]_vars, "forget" \notin Faults
  PROVE  \/ UNCHANGED <<branch, base, acked>>
         \/ \E p \in Procs :
              Plan(p) \/ Claim(p) \/ Create(p) \/ Write(p) \/ StatementFails(p)
         \/ \E x \in Txns, t \in Tables :
              DropBranch(x, t) \/ DropStale(x, t) \/ UserDrop(x, t)
         \/ \E p \in Procs : /\ Publish(p) \/ Cancelled(p)
                             /\ req[p].pc = "commit" /\ Matches(p) /\ MoveMains(p)
         \/ Crash
<1>1. ASSUME NEW p \in Procs, RequestStep(p)
      PROVE  \/ UNCHANGED <<branch, base, acked>>
             \/ Plan(p) \/ Claim(p) \/ Create(p) \/ Write(p) \/ StatementFails(p)
             \/ /\ Publish(p) \/ Cancelled(p)
                /\ req[p].pc = "commit" /\ Matches(p) /\ MoveMains(p)
  BY <1>1 DEF RequestStep, Prepare, Publish, PublishRefused, PublishFails, FinishEnd,
     Cancelled, scopeVars, catalogVars
<1>2. \/ \E p \in Procs : RequestStep(p)
      \/ \E x \in Txns, t \in Tables :
           DropBranch(x, t) \/ DropStale(x, t) \/ UserDrop(x, t)
      \/ Crash
      \/ UNCHANGED <<branch, base, acked>>
  BY Remembered DEF Next, Statement, End, QuietStatement, EndWithoutOpen, Abandon,
     OutsideWrite, Shutdown, scopeVars, clientVars, catalogVars, vars
<1> QED
  BY <1>1, <1>2

LEMMA StepHolds ==
  ASSUME ReadInv, [Next]_vars, NEW x \in Txns, "forget" \notin Faults,
         Nonempty = Tables \/ Faults \cap {"lost_reply", "user_drop"} = {}
  PROVE  HeldOK(x)'
<1> SUFFICES ASSUME MayPublish(x)', NEW a \in acked'[x]
             PROVE  a[2] \in branch'[x][a[1]] \/ Stale(x, a[1])'
  BY DEF HeldOK
<1>0. /\ AckedInv /\ CommitInv /\ TypeOK /\ HeldOK(x) /\ AckedOK(x)
  BY DEF ReadInv, AckedInv, AckedParts, CommitInv, MainInv
<1>1. MayPublish(x)
  BY <1>0, MayPublishComes
<1>2. a \in acked[x] => /\ a[1] \in claimed[x] /\ a[1] \in Tables
                        /\ a[2] \in branch[x][a[1]] \/ Stale(x, a[1])
  BY <1>0, <1>1 DEF HeldOK, AckedOK, TypeOK
<1>3. CASE UNCHANGED <<branch[x], base[x], acked[x]>>
  BY <1>2, <1>3 DEF Stale
<1>4. ASSUME NEW p \in Procs,
             Plan(p) \/ Claim(p) \/ Create(p) \/ Write(p) \/ StatementFails(p)
      PROVE  a[2] \in branch'[x][a[1]] \/ Stale(x, a[1])'
  <2>1. req[p].x \in Txns /\ Proceeds(req[p].x)
    BY <1>0, <1>4, StatementStepsProceed
  <2>2. CASE req[p].x = x
    BY <1>2, <2>1, <2>2 DEF Proceeds, Stale
  <2>3. CASE req[p].x # x
    BY <1>3, <2>1, <2>3 DEF Proceeds
  <2> QED
    BY <2>2, <2>3
<1>5. ASSUME NEW y \in Txns, NEW t \in Tables,
             DropBranch(y, t) \/ DropStale(y, t) \/ UserDrop(y, t)
      PROVE  a[2] \in branch'[x][a[1]] \/ Stale(x, a[1])'
  <2>0. branch \in [Txns -> [Tables -> SUBSET Writes]]
    BY <1>0 DEF TypeOK
  <2>1. /\ UNCHANGED <<base, acked>>
        /\ branch' = branch \/ branch' = [branch EXCEPT ![y][t] = {}]
    BY <1>5 DEF DropBranch, DropStale, UserDrop, scopeVars, clientVars
  <2>2. CASE branch'[x][a[1]] = branch[x][a[1]]
    BY <1>2, <2>1, <2>2 DEF Stale
  <2>3. CASE branch'[x][a[1]] # branch[x][a[1]]
    <3>1. y = x /\ a[1] = t /\ branch'[x][t] = {}
      BY <1>2, <2>0, <2>1, <2>3
    <3>2. UserDrop(x, t)
      <4>1. DropBranch(x, t) => ~MayPublish(x)
        BY <1>0 DEF AckedOK, DropBranch
      <4>2. DropStale(x, t) => ~MayPublish(x)
        BY DEF DropStale, MayPublish, Busy, StatementSteps
      <4> QED
        BY <1>1, <1>5, <3>1, <4>1, <4>2
    <3>3. base[x][t] # {}
      BY <1>0, <1>2, <2>1, <3>1, <3>2 DEF UserDrop, Fault, AckedInv, Filled
    <3> QED
      BY <2>1, <3>1, <3>3 DEF Stale
  <2> QED
    BY <2>2, <2>3
<1>6. ASSUME NEW p \in Procs, Publish(p) \/ Cancelled(p),
             req[p].pc = "commit", Matches(p), MoveMains(p)
      PROVE  a[2] \in branch'[x][a[1]] \/ Stale(x, a[1])'
  <2>0. /\ branch \in [Txns -> [Tables -> SUBSET Writes]]
        /\ UNCHANGED <<base, acked>>
    BY <1>0, <1>6 DEF TypeOK, Publish, Cancelled, scopeVars
  <2>1. CASE req[p].x # x
    <3>1. branch'[x] = branch[x]
      BY <1>6, <2>0, <2>1 DEF MoveMains
    <3> QED
      BY <1>3, <2>0, <3>1
  <2>2. CASE req[p].x = x
    <3>1. /\ x \notin open /\ req \in [Procs -> {Idle} \cup Statements \cup Ends]
          /\ \A q \in Procs : req[q].pc # "idle" /\ req[q].x = x => q = p
          /\ PreparedOK(p)
      BY <1>0, <1>6, <2>2, EndStanding DEF EndSteps
    <3>2. x \in open'
      <4>1. req' = [req EXCEPT ![p] = Idle]
        BY <1>6 DEF Publish, Cancelled, Committed, Reopen
      <4> QED
        BY <3>1, <4>1, IdleField DEF MayPublish
    <3>3. Fault("lost_reply")
      BY <1>6, <3>1, <3>2 DEF Publish, Cancelled, Committed
    <3>4. base[x][a[1]] # {}
      BY <1>0, <1>2, <2>0, <3>3 DEF Fault, AckedInv, Filled
    <3>5. branch'[x][a[1]] = {}
      <4>1. a[2] \in req[p].heads[a[1]]
        BY <1>6, <2>0, <2>2, <3>1 DEF PreparedOK
      <4> QED
        BY <1>2, <1>6, <2>0, <2>2, <4>1 DEF MoveMains
    <3> QED
      BY <2>0, <3>4, <3>5 DEF Stale
  <2> QED
    BY <2>1, <2>2
<1>7. CASE Crash
  <2>1. ~MayPublish(x)'
    BY <1>7, IdleField DEF Crash, MayPublish
  <2> QED
    BY <2>1
<1> QED
  BY <1>3, <1>4, <1>5, <1>6, <1>7, WhoMovesScope

\* A request is about to claim because it was, or because it was planned.
LEMMA WhoClaims ==
  ASSUME TypeOK, [Next]_vars, NEW p \in Procs, req'[p].pc = "claim"
  PROVE  req'[p] = req[p] \/ Plan(p)
<1>0. req \in [Procs -> {Idle} \cup Statements \cup Ends]
  BY DEF TypeOK
<1>1. ASSUME NEW q \in Procs, q # p, NEW r, req' = [req EXCEPT ![q] = r]
      PROVE  req'[p] = req[p]
  BY <1>0, <1>1
<1>2. ASSUME NEW q \in Procs, RequestStep(q) PROVE req'[p] = req[p] \/ Plan(p)
  <2>1. CASE q # p
    BY <1>1, <1>2, <2>1, RequestKeepsTxn
  <2>2. CASE q = p
    <3>1. \/ Plan(p)
          \/ req' = [req EXCEPT ![p] = Idle]
          \/ \E step \in {"create", "write"} : \E x, t, w, seen, cand :
               req' = [req EXCEPT ![p] = StatementAt(step, x, t, w, seen, cand)]
          \/ \E step \in EndSteps : \E x, heads, n :
               req' = [req EXCEPT ![p] = EndAt(step, x, heads, n)]
      <4>1. CASE Claim(p) \/ Create(p) \/ Write(p) \/ StatementFails(p)
        BY <4>1 DEF Claim, Create, Write, StatementFails
      <4>2. CASE Prepare(p) \/ PublishRefused(p)
        BY <4>2 DEF Prepare, PublishRefused, Committed, Lost, EndSteps
      <4>3. CASE Publish(p) \/ PublishFails(p) \/ FinishEnd(p) \/ Cancelled(p)
        BY <4>3 DEF Publish, PublishFails, FinishEnd, Cancelled, Committed, Reopen
      <4> QED
        BY <1>2, <2>2, <4>1, <4>2, <4>3 DEF RequestStep
    <3> QED
      BY <1>0, <3>1, IdleField, WholeStatement, EndFields DEF EndSteps
  <2> QED
    BY <2>1, <2>2
<1>3. ASSUME NEW q \in Procs, NEW x \in Txns, NEW t \in Tables, Statement(q, x, t)
      PROVE  req'[p] = req[p]
  <2> DEFINE r == StatementAt("plan", x, t, <<x, writes[x] + 1>>, {}, {})
  <2>1. req' = [req EXCEPT ![q] = r] /\ r.pc = "plan"
    BY <1>3, WholeStatement DEF Statement
  <2> HIDE DEF r
  <2> QED
    BY <1>0, <1>1, <2>1
<1>4. ASSUME NEW q \in Procs, NEW x \in Txns, NEW commit \in BOOLEAN, End(q, x, commit)
      PROVE  req'[p] = req[p]
  <2> DEFINE r == EndAt(IF commit THEN "prepare" ELSE "rollback", x, NoTables, 1)
  <2>1. req' = [req EXCEPT ![q] = r] /\ r.pc # "claim"
    BY <1>4, EndFields DEF End
  <2> HIDE DEF r
  <2> QED
    BY <1>0, <1>1, <2>1
<1>5. CASE Crash
  BY <1>5, IdleField DEF Crash
<1>6. CASE req' = req
  BY <1>6
<1>7. \/ \E q \in Procs : RequestStep(q)
      \/ \E q \in Procs, x \in Txns, t \in Tables : Statement(q, x, t)
      \/ \E q \in Procs, x \in Txns, commit \in BOOLEAN : End(q, x, commit)
      \/ Crash
      \/ req' = req
  BY DEF Next, QuietStatement, EndWithoutOpen, DropBranch, DropStale, UserDrop,
     Abandon, Forget, OutsideWrite, Shutdown, vars
<1> QED
  BY <1>2, <1>3, <1>4, <1>5, <1>6, <1>7

LEMMA PlanReads ==
  ASSUME ReadInv, NEW p \in Procs, Plan(p)
  PROVE  ReadOK(p)'
<1>0. /\ AckedInv /\ CommitInv /\ TypeOK
      /\ req[p].pc = "plan" /\ req[p].pc # "idle" /\ req[p].pc \in StatementSteps
  BY DEF ReadInv, AckedInv, CommitInv, MainInv, Plan, StatementSteps
<1>1. PICK x \in Txns, t \in Tables : x = req[p].x /\ t = req[p].t
  BY <1>0, OwnRequest
<1> DEFINE r == StatementAt("claim", x, t, req[p].w, Read(x, t), {})
<1>2. r.x = x /\ r.t = t /\ r.seen = Read(x, t) /\ req' = [req EXCEPT ![p] = r]
  BY <1>1, WholeStatement DEF Plan
<1> HIDE DEF r
<1>3. req'[p] = r
  BY <1>0, <1>2 DEF TypeOK
<1>4. UNCHANGED <<main, open, acked>> /\ Readable(x, t)
  BY <1>1 DEF Plan, catalogVars, registryVars, clientVars
<1>5. ASSUME x \in open, NEW a \in acked[x], a[1] = t
      PROVE  a[2] \in Read(x, t)
  <2>1. MayPublish(x) /\ HeldOK(x) /\ AckedOK(x)
    BY <1>0, <1>5 DEF MayPublish, ReadInv, AckedInv, AckedParts
  <2>2. t \in claimed[x] /\ (a[2] \in branch[x][t] \/ Stale(x, t))
    BY <1>5, <2>1 DEF HeldOK, AckedOK
  <2> QED
    BY <1>4, <2>2 DEF Readable, Read, Stale
<1>6. ASSUME NEW y \in Txns \ {x}
      PROVE  Read(x, t) \cap WritesOf(y) \subseteq main[t]
  <2>1. WritesOf(x) \cap WritesOf(y) = {}
    BY <1>6, WritesOfApart
  <2>2. t \in claimed[x] => /\ base[x][t] \subseteq main[t]
                            /\ branch[x][t] \subseteq base[x][t] \cup WritesOf(x)
    BY <1>0 DEF CommitInv, CommitParts, TxnOK, Clean
  <2> QED
    BY <2>1, <2>2 DEF Read
<1> QED
  BY <1>2, <1>3, <1>4, <1>5, <1>6 DEF ReadOK

LEMMA StepReads ==
  ASSUME ReadInv, [Next]_vars, NEW p \in Procs
  PROVE  ReadOK(p)'
<1> SUFFICES ASSUME req'[p].pc = "claim", req'[p] = req[p] PROVE ReadOK(p)'
  <2>1. TypeOK
    BY DEF ReadInv, AckedInv, CommitInv, MainInv
  <2> QED
    BY <2>1, WhoClaims, PlanReads DEF ReadOK
<1>0. /\ AckedInv /\ CommitInv /\ TypeOK /\ MainInv /\ ReadOK(p)
      /\ req[p].pc = "claim" /\ req[p].pc # "idle" /\ req[p].pc \in StatementSteps
  BY DEF ReadInv, AckedInv, CommitInv, MainInv, StatementSteps
<1>1. PICK x \in Txns, t \in Tables : x = req[p].x /\ t = req[p].t
  BY <1>0, OwnRequest
<1>2. \A q \in Procs : req[q].pc # "idle" /\ req[q].x = x => q = p
  BY <1>0, <1>1, OwnRequest
<1>3. main[t] \subseteq main'[t]
  BY <1>0, StepGrows DEF vars
<1>4. ASSUME x \in open', NEW a \in acked'[x] PROVE x \in open /\ a \in acked[x]
  <2>1. MayPublish(x)
    BY <1>0, <1>4, MayPublishComes DEF MayPublish
  <2>2. x \in open
    BY <1>0, <1>2, <2>1 DEF MayPublish
  <2>3. ASSUME NEW q \in Procs, Write(q) PROVE a \in acked[x]
    <3>1. req[q].pc = "write" /\ req[q].pc # "idle"
      BY <2>3 DEF Write
    <3>2. req[q].x \in Txns /\ req[q].x # x
      BY <1>0, <1>2, <3>1, OwnRequest
    <3>3. \/ acked' = acked
          \/ acked' = [acked EXCEPT ![req[q].x] = @ \cup {<<req[q].t, req[q].w>>}]
      BY <2>3 DEF Write
    <3> QED
      BY <1>0, <1>4, <3>2, <3>3 DEF TypeOK
  <2> QED
    BY <1>4, <2>2, <2>3, WhoAcks
<1> QED
  BY <1>0, <1>1, <1>3, <1>4 DEF ReadOK

\* A statement of an open transaction reads every earlier write of it that
\* was acknowledged, and nothing another transaction has not published (pin,
\* Pin::Stale), for a client that waits for its answers and sends no id again
\* after ENDED_RETENTION.  A table that was
\* empty when it was claimed has no base to miss, so there no branch may
\* disappear under the transaction: dropped by a user, or published by a
\* COMMIT whose answer was lost.
THEOREM OwnWritesAreRead ==
  /\ ~Concurrent
  /\ "forget" \notin Faults
  /\ Nonempty = Tables \/ Faults \cap {"lost_reply", "user_drop"} = {}
  => (Spec => []ReadsOwnWrites)
<1> SUFFICES ASSUME ~Concurrent, "forget" \notin Faults,
                    Nonempty = Tables \/ Faults \cap {"lost_reply", "user_drop"} = {}
             PROVE  Spec => []ReadsOwnWrites
  OBVIOUS
<1>1. Init => ReadInv
  <2> SUFFICES ASSUME Init PROVE ReadInv
    OBVIOUS
  <2>1. \A p \in Procs : ReadOK(p)
    BY IdleField DEF Init, ReadOK
  <2>2. \A x \in Txns : HeldOK(x)
    BY DEF Init, HeldOK
  <2> QED
    BY <2>1, <2>2, InitAckedInv DEF ReadInv
<1>2. ReadInv /\ [Next]_vars => ReadInv'
  <2> SUFFICES ASSUME ReadInv, [Next]_vars PROVE ReadInv'
    OBVIOUS
  <2>1. AckedInv'
    BY NextAckedInv DEF ReadInv
  <2>2. \A x \in Txns : HeldOK(x)'
    BY StepHolds
  <2>3. \A p \in Procs : ReadOK(p)'
    BY StepReads
  <2> QED
    BY <2>1, <2>2, <2>3 DEF ReadInv
<1>3. ReadInv => ReadsOwnWrites
  BY DEF ReadInv, ReadOK, ReadsOwnWrites
<1> QED
  BY <1>1, <1>2, <1>3, PTL DEF Spec

----------------------------------------------------------------------------
(* A transaction holds what it can publish together. *)

\* The catalog of the first claimed table is bound, and admit compared every
\* later table with it.
HeldTogether(x) ==
  \A t \in claimed[x] :
    /\ CatalogOf[t] = key[x]
    /\ claimed[x] \ {t} # {} => CatalogOf[t] \in Atomic

HoldInv == TypeOK /\ Filled /\ \A x \in Txns : HeldTogether(x)

LEMMA NextHoldInv ==
  ASSUME HoldInv, [Next]_vars, Nonempty = Tables
  PROVE  HoldInv'
<1>0. TypeOK /\ Filled /\ TypeOK' /\ Filled'
  BY NextTypeOK, NextFilled DEF HoldInv
<1> SUFFICES ASSUME NEW x \in Txns PROVE HeldTogether(x)'
  BY <1>0 DEF HoldInv
<1>a. /\ HeldTogether(x)
      /\ claimed \in [Txns -> SUBSET Tables] /\ key \in [Txns -> Catalogs \cup {NoKey}]
  BY DEF HoldInv, TypeOK
<1>1. CASE UNCHANGED <<claimed, key>>
  BY <1>a, <1>1 DEF HeldTogether
<1>2. ASSUME NEW p \in Procs, Create(p) \/ Write(p) PROVE HeldTogether(x)'
  <2>1. PICK y \in Txns, t \in Tables : y = req[p].x /\ t = req[p].t
    BY <1>0, <1>2, RequestTypes DEF Create, Write, StatementSteps, Statements
  <2>2. /\ Admitted(y, t)
        /\ \/ UNCHANGED <<claimed, key>>
           \/ /\ key' = [key EXCEPT ![y] = CatalogOf[t]]
              /\ claimed' = [claimed EXCEPT ![y] = @ \cup {t}] \/ claimed' = claimed
    BY <1>2, <2>1 DEF Create, Write, scopeVars
  <2>3. CASE y # x
    BY <1>a, <2>2, <2>3 DEF HeldTogether
  <2>4. CASE y = x
    <3>1. claimed[x] # {} => key[x] = CatalogOf[t]
      BY <1>a, <2>2, <2>4, TxnConstants DEF HeldTogether, Admitted
    <3>2. claimed[x] \ {t} # {} => CatalogOf[t] \in Atomic
      BY <2>2, <2>4 DEF Admitted
    <3>3. CASE UNCHANGED <<claimed, key>>
      BY <1>1, <3>3
    <3>4. CASE key'[x] = CatalogOf[t] /\ claimed'[x] \in {claimed[x], claimed[x] \cup {t}}
      <4>1. ASSUME NEW u \in claimed'[x] PROVE CatalogOf[u] = CatalogOf[t]
        BY <1>a, <3>1, <3>4, <4>1 DEF HeldTogether
      <4>2. ASSUME NEW u \in claimed'[x], claimed'[x] \ {u} # {}
            PROVE  CatalogOf[u] \in Atomic
        <5>1. CASE u \in claimed[x] /\ claimed[x] \ {u} # {}
          BY <1>a, <5>1 DEF HeldTogether
        <5>2. CASE claimed[x] \ {t} # {}
          BY <3>2, <4>1, <5>2
        <5> QED
          BY <3>4, <4>2, <5>1, <5>2
      <4> QED
        BY <3>4, <4>1, <4>2 DEF HeldTogether
    <3> QED
      BY <1>a, <2>2, <2>4, <3>3, <3>4
  <2> QED
    BY <2>3, <2>4
<1>3. ASSUME NEW p \in Procs, Claim(p) PROVE UNCHANGED <<claimed, key>>
  <2>1. req[p].t \in Tables /\ req[p].seen # {} /\ main[req[p].t] # {}
    BY <1>0, <1>3, RequestTypes DEF Claim, StatementSteps, Statements, Filled
  <2> QED
    BY <1>3, <2>1 DEF Claim, scopeVars
<1>4. CASE Crash
  BY <1>4 DEF Crash, HeldTogether
<1>5. CASE \E y \in Txns : Forget(y)
  BY <1>a, <1>5 DEF Forget, HeldTogether
<1>6. \/ \E p \in Procs : Create(p) \/ Write(p) \/ Claim(p)
      \/ Crash
      \/ \E y \in Txns : Forget(y)
      \/ UNCHANGED <<claimed, key>>
  <2>1. ASSUME NEW p \in Procs, RequestStep(p)
        PROVE  Create(p) \/ Write(p) \/ Claim(p) \/ UNCHANGED <<claimed, key>>
    BY <2>1 DEF RequestStep, Plan, StatementFails, Prepare, Publish, PublishRefused,
       PublishFails, FinishEnd, Cancelled, scopeVars
  <2>2. \/ (\E p \in Procs : RequestStep(p)) \/ Crash \/ UNCHANGED <<claimed, key>>
        \/ \E y \in Txns : Forget(y)
    BY DEF Next, Statement, End, QuietStatement, EndWithoutOpen, DropBranch,
       DropStale, UserDrop, Abandon, OutsideWrite, Shutdown, scopeVars, vars
  <2> QED
    BY <2>1, <2>2
<1> QED
  BY <1>1, <1>2, <1>3, <1>4, <1>5, <1>6

\* A transaction never holds tables it cannot publish together, however many
\* requests of it run at once: admit asks again before each branch is created
\* and before each commit.  Every table must hold a snapshot: the claim of an
\* empty table binds no catalog, so the next one is admitted next to it.
THEOREM HoldsWhatItPublishes == Nonempty = Tables => (Spec => []HoldsPublishable)
<1> SUFFICES ASSUME Nonempty = Tables PROVE Spec => []HoldsPublishable
  OBVIOUS
<1>1. Init => HoldInv
  <2> SUFFICES ASSUME Init PROVE HoldInv
    OBVIOUS
  <2>1. \A x \in Txns : HeldTogether(x)
    BY DEF Init, HeldTogether
  <2> QED
    BY <2>1, InitTypeOK, InitAckedInv DEF HoldInv, AckedInv
<1>2. HoldInv /\ [Next]_vars => HoldInv'
  BY NextHoldInv
<1>3. HoldInv => HoldsPublishable
  BY DEF HoldInv, HeldTogether, HoldsPublishable
<1> QED
  BY <1>1, <1>2, <1>3, PTL DEF Spec
============================================================================
