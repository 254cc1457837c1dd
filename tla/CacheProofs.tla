---------------------------- MODULE CacheProofs ----------------------------
(***************************************************************************)
(* Proofs about MetadataCache, for every set of tokens, tables, loads and  *)
(* writers and every size of the generation maps: the cache is well typed, *)
(* and as long as two bumps do not overlap, nor a re-insert with another   *)
(* store of its key, no entry from before a finished invalidation stays.   *)
(***************************************************************************)
EXTENDS MetadataCache, TLAPS

-----------------------------------------------------------------------------
(* The invariant, in terms of a few functions and sets of the state. *)

\* The generations of every key.
Gens == [k \in Keys |-> Generation(k)]

\* The invalidation i keeps older loads from storing k: its stamp is in the
\* map, or the prune that made room for it has raised the floor to it.
Fenced(i, k) ==
  /\ inv[i].pc \in {"put", "scan", "evict"}
  /\ k \in Covers(inv[i])
  /\ inv[i].pc = "put" => \/ inv[i].scope = "table" /\ Gens[k].table = inv[i].stamp
                          \/ inv[i].scope = "key" /\ Gens[k].key = inv[i].stamp

\* The times of the changes of each key that are finished or fenced.
Due == [k \in Keys |-> {finished[k]} \cup {inv[i].time : i \in {j \in Tasks : Fenced(j, k)}}]

\* Those whose invalidation is over, or has passed over the key.
Past == [k \in Keys |->
           {finished[k]} \cup
           {inv[i].time : i \in {j \in Tasks : /\ inv[j].pc = "evict"
                                               /\ k \in Covers(inv[j]) \ inv[j].todo}}]

\* No time of the set is later.
NotBefore(at, times) == \A t \in times : t <= at

\* The loads whose snapshot of the generations is still theirs, and the keys
\* whose entry a load is about to take out again.
Live == {p \in Loads : load[p].pc # "idle" /\ load[p].snap = Gens[load[p].k]}
Undoing == {q \in Loads : load[q].pc = "undo" /\ load[q].snap # Gens[load[q].k]}
RacedKeys == {load[p].k : p \in Undoing}

\* The ETag of a cached copy is newer than the copy.
Mistagged(e) == e.etag # NoTime /\ ~(e.etag <= e.ver)

\* The keys without an entry from before a change that is due.
RecentKeys ==
  {k \in Keys : entry[k] = NoEntry \/ k \in RacedKeys \/ NotBefore(entry[k].at, Due[k])}

\* A load that has put what it fetched into the cache, until its ETag task ends.
HasStored(l) ==
  \/ l.kind = "load" /\ l.pc \in {"undo", "head"}
  \/ l.kind = "etag" /\ l.pc \in {"check", "get"}

Claimed == {load[p].k : p \in {q \in Live : HasStored(load[q])}}

\* What a load holds was fetched since it began.
Fetched(l) ==
  \/ l.kind = "load" /\ l.pc \in {"check", "insert"}
  \/ l.kind = "touch" /\ l.pc \in {"check", "get"}

\* The version a 304 vouches for.
Vouched(l) == IF l.pc = "revalidate" THEN l.e.etag ELSE l.e.ver
Vouching(l) == l.pc = "revalidate" \/ (l.kind = "touch" /\ l.pc \in {"check", "get"})

\* What is known of a load whose snapshot is still in force.
LoadSound(p) ==
  /\ Fetched(load[p]) => NotBefore(load[p].e.at, Due[load[p].k])
  /\ Vouching(load[p]) =>
       \/ load[p].k \in RecentKeys
       \/ Mistagged(entry[load[p].k])
       \/ Vouched(load[p]) <= entry[load[p].k].ver
  /\ load[p].kind # "load" /\ load[p].pc = "insert" =>
       \/ NotBefore(load[p].e.at, Due[load[p].k])
       \/ Mistagged(load[p].e) /\ load[p].k \notin Claimed

\* An entry is not older than a change whose invalidation has passed over it.
EntrySound(k) ==
  \/ entry[k] = NoEntry
  \/ k \in RacedKeys
  \/ Mistagged(entry[k])
  \/ NotBefore(entry[k].at, Past[k])

FenceHolds ==
  /\ \A p \in Live : LoadSound(p)
  /\ Claimed \subseteq RecentKeys
  /\ \A k \in Keys : EntrySound(k)

Below(g, h) == g.global <= h.global /\ g.table <= h.table /\ g.key <= h.key

\* The generations only grow, and the stamp that is put is the newest.
GenerationsGrow ==
  /\ global <= counter /\ floor <= counter
  /\ \A t \in Tables : tableGen[t] <= counter
  /\ \A k \in Keys : keyGen[k] <= counter
  /\ \A i \in Tasks : inv[i].pc = "put" =>
       /\ inv[i].stamp = counter /\ global < counter
       /\ \A j \in Tasks : inv[j].pc = "put" => i = j
  /\ \A p \in Loads : load[p].pc # "idle" => Below(load[p].snap, Gens[load[p].k])

\* Nothing is newer than the clock.
TimesPast ==
  /\ \A k \in Keys : finished[k] <= now
  /\ \A i \in Tasks : inv[i].pc # "idle" => inv[i].time <= now

\* What each step of a load is for.
Staged(l) ==
  /\ l.pc \in {"lookup", "authorize", "revalidate", "load", "head"} => l.kind = "load"
  /\ l.pc = "get" => l.kind # "load"

Stages == \A p \in Loads : load[p].pc # "idle" => Staged(load[p])

InStore(l) == l.pc \in {"insert", "undo"}
InReinsert(l) == l.pc \in {"get", "insert", "undo"} /\ l.kind # "load"

\* A re-insert of a key runs alone.
StoresApart ==
  \A p, q \in Loads :
    /\ p # q /\ load[p].pc # "idle" /\ load[q].pc # "idle"
    /\ load[p].k = load[q].k /\ InReinsert(load[p])
    => ~InStore(load[q]) /\ ~InReinsert(load[q])

\* A load that invalidates a key it was refused has ended.
OneTask == \A p \in Loads : load[p].pc # "idle" => inv[p] = IdleInv

CacheInv ==
  /\ TypeOK /\ Stages /\ OneTask
  /\ GenerationsGrow /\ TimesPast /\ StoresApart /\ FenceHolds

-----------------------------------------------------------------------------
(* Types. *)

\* The constants, as the provers use them.
LEMMA Bounds ==
  /\ MaxTime \in Nat /\ 0 \in Times /\ NoTime \in Nat /\ NoTime \notin Times
  /\ \A t \in Times : t \in Nat /\ t <= MaxTime
  /\ MaxStamps \in Nat /\ 0 \in Stamps
  /\ \A s \in Stamps : s \in Nat /\ s <= MaxStamps
  /\ Loads \cap Writers = {} /\ Loads \subseteq Tasks /\ Writers \subseteq Tasks
BY CacheConstants DEF Times, Stamps, NoTime, Tasks

\* The fields of the records.
LEMMA EntryParts ==
  /\ Blank \in Entries
  /\ \A e \in Entries : e.ver \in Times /\ e.at \in Times /\ e.etag \in Times \cup {NoTime}
  /\ NoEntry \notin Entries
<1>1. Blank \in Entries
  BY Bounds DEF Blank, Entries
<1>2. NoEntry.ver = NoTime
  BY DEF NoEntry
<1> QED
  BY <1>1, <1>2, Bounds DEF Entries

LEMMA EntryMade ==
  ASSUME NEW v \in Times, NEW t \in Times, NEW g \in Times \cup {NoTime}
  PROVE  /\ [ver |-> v, at |-> t, etag |-> g] \in Entries
         /\ [Blank EXCEPT !.etag = g] \in Entries
         /\ [Blank EXCEPT !.at = t, !.ver = v] \in Entries
BY Bounds DEF Entries, Blank

LEMMA LoadParts ==
  ASSUME NEW l \in LoadTasks \cup {IdleLoad}, l.pc # "idle"
  PROVE  /\ l \in LoadTasks /\ l # IdleLoad
         /\ l.pc \in LoadSteps /\ l.k \in Keys /\ l.snap \in Generations
         /\ l.kind \in StoreKinds /\ l.e \in Entries
BY DEF IdleLoad, LoadTasks

LEMMA IdleParts ==
  /\ IdleLoad.pc = "idle" /\ IdleLoad \notin LoadTasks
  /\ IdleInv.pc = "idle" /\ IdleInv \notin InvTasks
<1>1. \A l \in LoadTasks : l.pc # "idle"
  BY DEF LoadTasks, LoadSteps
<1>2. \A i \in InvTasks : i.pc # "idle"
  BY DEF InvTasks
<1> QED
  BY <1>1, <1>2 DEF IdleLoad, IdleInv

LEMMA InvParts ==
  ASSUME NEW i \in InvTasks \cup {IdleInv}, i.pc # "idle"
  PROVE  /\ i \in InvTasks /\ i.pc \in {"stamp", "put", "scan", "evict"}
         /\ i.scope \in Scopes /\ i.k \in Keys /\ i.time \in Times
         /\ i.stamp \in Stamps /\ i.todo \subseteq Keys
BY DEF IdleInv, InvTasks

LEMMA KeyParts ==
  ASSUME NEW k \in Keys
  PROVE  TableOf(k) \in Tables
BY DEF Keys, TableOf

LEMMA GenerationTypes ==
  ASSUME TypeOK
  PROVE  /\ \A k \in Keys : Generation(k) \in Generations /\ Gens[k] = Generation(k)
         /\ Gens \in [Keys -> Generations]
<1>1. \A g \in Stamps : OrFloor(g) \in Stamps
  BY DEF OrFloor, TypeOK
<1>2. \A k \in Keys : Generation(k) \in Generations
  <2> SUFFICES ASSUME NEW k \in Keys PROVE Generation(k) \in Generations
    OBVIOUS
  <2>1. tableGen[TableOf(k)] \in Stamps /\ keyGen[k] \in Stamps /\ global \in Stamps
    BY KeyParts DEF TypeOK
  <2>2. OrFloor(tableGen[TableOf(k)]) \in Stamps /\ OrFloor(keyGen[k]) \in Stamps
    BY <1>1, <2>1
  <2> QED
    BY <2>1, <2>2 DEF Generation, Generations
<1> QED
  BY <1>2 DEF Gens


-----------------------------------------------------------------------------
(* What a step does to the loads. *)

Others(p) == \A q \in Loads \ {p} : load'[q] = load[q]

\* The load p returns.
Ended(p) ==
  /\ load' \in [Loads -> LoadTasks \cup {IdleLoad}]
  /\ load'[p] = IdleLoad
  /\ Others(p)

\* The load p goes on to step x, for a store of kind d, with e in hand.
Moved(p, x, d, e) ==
  /\ load' \in [Loads -> LoadTasks \cup {IdleLoad}]
  /\ load'[p].pc = x /\ load'[p].kind = d /\ load'[p].e = e
  /\ load'[p].k = load[p].k /\ load'[p].snap = load[p].snap
  /\ Others(p)

LEMMA Ending ==
  ASSUME TypeOK, NEW p \in Loads, Return(p)
  PROVE  Ended(p)
BY DEF TypeOK, Return, Ended, Others

LEMMA Moving ==
  ASSUME TypeOK, NEW p \in Loads, load[p].pc # "idle",
         NEW x \in LoadSteps, NEW d \in StoreKinds, NEW e \in Entries,
         load' = [load EXCEPT ![p] = [load[p] EXCEPT !.pc = x, !.kind = d, !.e = e]]
  PROVE  Moved(p, x, d, e)
<1>1. load[p] \in LoadTasks
  BY LoadParts DEF TypeOK
<1> DEFINE new == [load[p] EXCEPT !.pc = x, !.kind = d, !.e = e]
<1>2. /\ new \in LoadTasks
      /\ new.pc = x /\ new.kind = d /\ new.e = e
      /\ new.k = load[p].k /\ new.snap = load[p].snap
  BY <1>1 DEF LoadTasks
<1>3. load' = [load EXCEPT ![p] = new] /\ load'[p] = new
  BY DEF TypeOK
<1> HIDE DEF new
<1>4. load' \in [Loads -> LoadTasks \cup {IdleLoad}] /\ Others(p)
  BY <1>2, <1>3 DEF TypeOK, Others
<1> QED
  BY <1>2, <1>3, <1>4 DEF Moved

LEMMA Going ==
  ASSUME TypeOK, NEW p \in Loads, load[p].pc # "idle", NEW x \in LoadSteps, Go(p, x)
  PROVE  Moved(p, x, load[p].kind, load[p].e)
<1>1. load[p] \in LoadTasks
  BY LoadParts DEF TypeOK
<1> DEFINE new == [load[p] EXCEPT !.pc = x]
<1>2. /\ new \in LoadTasks
      /\ new.pc = x /\ new.kind = load[p].kind /\ new.e = load[p].e
      /\ new.k = load[p].k /\ new.snap = load[p].snap
  BY <1>1 DEF LoadTasks
<1>3. load' = [load EXCEPT ![p] = new] /\ load'[p] = new
  BY DEF TypeOK, Go
<1> HIDE DEF new
<1>4. load' \in [Loads -> LoadTasks \cup {IdleLoad}] /\ Others(p)
  BY <1>2, <1>3 DEF TypeOK, Others
<1> QED
  BY <1>2, <1>3, <1>4 DEF Moved

\* A step that also changes what the load holds.
LEMMA Holding ==
  ASSUME TypeOK, NEW p \in Loads, load[p].pc # "idle", NEW x \in LoadSteps, NEW e \in Entries,
         load' = [load EXCEPT ![p] = [load[p] EXCEPT !.pc = x, !.e = e]]
  PROVE  Moved(p, x, load[p].kind, e)
<1>1. load[p] \in LoadTasks
  BY LoadParts DEF TypeOK
<1> DEFINE new == [load[p] EXCEPT !.pc = x, !.e = e]
<1>2. /\ new \in LoadTasks
      /\ new.pc = x /\ new.kind = load[p].kind /\ new.e = e
      /\ new.k = load[p].k /\ new.snap = load[p].snap
  BY <1>1 DEF LoadTasks
<1>3. load' = [load EXCEPT ![p] = new] /\ load'[p] = new
  BY DEF TypeOK
<1> HIDE DEF new
<1>4. load' \in [Loads -> LoadTasks \cup {IdleLoad}] /\ Others(p)
  BY <1>2, <1>3 DEF TypeOK, Others
<1> QED
  BY <1>2, <1>3, <1>4 DEF Moved


\* The steps of a load, one by one.
LEMMA LoadShapes ==
  ASSUME TypeOK, NEW p \in Loads
  PROVE  /\ ServeFresh(p) => Ended(p) \/ Moved(p, "authorize", load[p].kind, load[p].e)
         /\ Miss(p) => Moved(p, "load", load[p].kind, load[p].e)
         /\ Authorize(p) \/ Deny(p) \/ LoadFails(p) => Ended(p)
         /\ Check(p) => \/ Ended(p)
                        \/ /\ ~GenerationChanged(p)
                           /\ Moved(p, IF load[p].kind = "load" THEN "insert" ELSE "get",
                                    load[p].kind, load[p].e)
         /\ Undo(p) => Ended(p) \/ Moved(p, "head", load[p].kind, load[p].e)
<1>1. ASSUME load[p].pc # "idle", NEW x \in LoadSteps, Go(p, x)
      PROVE  Moved(p, x, load[p].kind, load[p].e)
  BY <1>1, Going
<1>2. ServeFresh(p) => Ended(p) \/ Moved(p, "authorize", load[p].kind, load[p].e)
  BY <1>1, Ending DEF ServeFresh, LoadSteps
<1>3. Miss(p) => Moved(p, "load", load[p].kind, load[p].e)
  BY <1>1 DEF Miss, LoadSteps
<1>4. Authorize(p) \/ Deny(p) \/ LoadFails(p) => Ended(p)
  BY Ending DEF Authorize, Deny, LoadFails
<1>5. Check(p) => \/ Ended(p)
                  \/ /\ ~GenerationChanged(p)
                     /\ Moved(p, IF load[p].kind = "load" THEN "insert" ELSE "get",
                              load[p].kind, load[p].e)
  <2>1. "insert" \in LoadSteps /\ "get" \in LoadSteps
    BY DEF LoadSteps
  <2> QED
    BY <1>1, <2>1, Ending DEF Check
<1>6. Undo(p) => Ended(p) \/ Moved(p, "head", load[p].kind, load[p].e)
  BY <1>1, Ending DEF Undo, LoadSteps
<1> QED
  BY <1>2, <1>3, <1>4, <1>5, <1>6

\* Those that fetch.
LEMMA FetchShapes ==
  ASSUME TypeOK, NEW p \in Loads
  PROVE  /\ FindStale(p) =>
              \E e \in Entries : /\ Moved(p, "revalidate", load[p].kind, e)
                                 /\ e.etag = entry[load[p].k].etag
         /\ NotModified(p) =>
              \E e \in Entries : /\ Moved(p, "check", "touch", e)
                                 /\ e.at = now /\ e.ver = load[p].e.etag
         /\ Modified(p) \/ RevalidateFails(p) =>
              \E e \in Entries : Moved(p, "load", load[p].kind, e)
         /\ Load(p) =>
              \E e \in Entries : Moved(p, "check", load[p].kind, e) /\ e.at = now
         /\ Head(p) =>
              \E e \in Entries : Moved(p, "check", "etag", e)
<1> DEFINE k == load[p].k
<1>0. /\ "revalidate" \in LoadSteps /\ "check" \in LoadSteps /\ "load" \in LoadSteps
      /\ "touch" \in StoreKinds /\ "etag" \in StoreKinds
  BY DEF LoadSteps, StoreKinds
<1>1. load[p].pc # "idle" =>
        /\ k \in Keys /\ TableOf(k) \in Tables /\ changed[TableOf(k)] \in Times
        /\ load[p].e \in Entries /\ load[p].kind \in StoreKinds
        /\ load[p] \in LoadTasks
  BY LoadParts, KeyParts DEF TypeOK
<1>2. now \in Times
  BY DEF TypeOK
<1>3. ASSUME FindStale(p)
      PROVE  \E e \in Entries : /\ Moved(p, "revalidate", load[p].kind, e)
                                /\ e.etag = entry[load[p].k].etag
  <2>1. load[p].pc # "idle"
    BY <1>3 DEF FindStale
  <2>2. entry[k].etag \in Times \cup {NoTime}
    BY <1>1, <1>3, <2>1, EntryParts DEF FindStale, TypeOK
  <2>3. PICK e : e = [Blank EXCEPT !.etag = entry[k].etag]
    OBVIOUS
  <2>4. e \in Entries /\ e.etag = entry[k].etag
    BY <2>2, <2>3, Bounds, EntryMade DEF Blank
  <2>5. load' = [load EXCEPT ![p] = [load[p] EXCEPT !.pc = "revalidate", !.e = e]]
    BY <1>3, <2>3 DEF FindStale
  <2>6. Moved(p, "revalidate", load[p].kind, e)
    BY <1>0, <2>1, <2>4, <2>5, Holding
  <2> QED
    BY <2>4, <2>6
<1>4. ASSUME NotModified(p)
      PROVE  \E e \in Entries : /\ Moved(p, "check", "touch", e)
                                /\ e.at = now /\ e.ver = load[p].e.etag
  <2>1. load[p].pc # "idle"
    BY <1>4 DEF NotModified
  <2>2. PICK e : e = [Blank EXCEPT !.at = now, !.ver = changed[TableOf(k)]]
    OBVIOUS
  <2>3. e \in Entries /\ e.at = now /\ e.ver = load[p].e.etag
    BY <1>1, <1>2, <1>4, <2>1, <2>2, Bounds, EntryMade DEF Blank, NotModified
  <2>4. load' = [load EXCEPT ![p] = [load[p] EXCEPT !.pc = "check", !.kind = "touch", !.e = e]]
    BY <1>4, <2>2 DEF NotModified
  <2>5. Moved(p, "check", "touch", e)
    BY <1>0, <2>1, <2>3, <2>4, Moving
  <2> QED
    BY <2>3, <2>5
<1>5. ASSUME Modified(p) \/ RevalidateFails(p)
      PROVE  \E e \in Entries : Moved(p, "load", load[p].kind, e)
  <2>1. load[p].pc # "idle"
    BY <1>5 DEF Modified, RevalidateFails
  <2>2. PICK e \in Entries :
          load' = [load EXCEPT ![p] = [load[p] EXCEPT !.pc = "load", !.e = e]]
    <3>1. [Blank EXCEPT !.etag = changed[TableOf(k)]] \in Entries /\ Blank \in Entries
      BY <1>1, <2>1, Bounds, EntryMade, EntryParts
    <3> QED
      BY <1>5, <3>1 DEF Modified, RevalidateFails
  <2> QED
    BY <1>0, <2>1, <2>2, Holding
<1>6. ASSUME Load(p)
      PROVE  \E e \in Entries : Moved(p, "check", load[p].kind, e) /\ e.at = now
  <2>1. load[p].pc # "idle"
    BY <1>6 DEF Load
  <2>2. PICK e : e = [load[p].e EXCEPT !.ver = changed[TableOf(k)], !.at = now]
    OBVIOUS
  <2>3. e \in Entries /\ e.at = now
    BY <1>1, <1>2, <2>1, <2>2 DEF Entries
  <2>4. load' = [load EXCEPT ![p] = [load[p] EXCEPT !.pc = "check", !.e = e]]
    BY <1>1, <1>6, <2>1, <2>2 DEF Load, LoadTasks, Entries, TypeOK
  <2>5. Moved(p, "check", load[p].kind, e)
    BY <1>0, <2>1, <2>3, <2>4, Holding
  <2> QED
    BY <2>3, <2>5
<1>7. ASSUME Head(p)
      PROVE  \E e \in Entries : Moved(p, "check", "etag", e)
  <2>1. load[p].pc # "idle"
    BY <1>7 DEF Head
  <2>2. PICK tag \in {changed[TableOf(k)], NoTime} :
          load' = [load EXCEPT ![p].pc = "check", ![p].kind = "etag", ![p].e.etag = tag]
    BY <1>7 DEF Head
  <2>3. PICK e : e = [load[p].e EXCEPT !.etag = tag]
    OBVIOUS
  <2>4. e \in Entries
    BY <1>1, <2>1, <2>2, <2>3 DEF Entries
  <2>5. load' = [load EXCEPT ![p] = [load[p] EXCEPT !.pc = "check", !.kind = "etag", !.e = e]]
    BY <2>2, <2>3
  <2> QED
    BY <1>0, <2>1, <2>4, <2>5, Moving
<1> QED
  BY <1>3, <1>4, <1>5, <1>6, <1>7


\* Those that store.
LEMMA GetShape ==
  ASSUME TypeOK, Stages, NEW p \in Loads, Get(p)
  PROVE  \/ Ended(p)
         \/ \E e \in Entries :
              /\ entry[load[p].k] # NoEntry
              /\ Moved(p, "insert", load[p].kind, e)
              /\ \/ load[p].kind = "etag" /\ e.at = entry[load[p].k].at
                 \/ /\ load[p].kind = "touch"
                    /\ \/ entry[load[p].k].ver < load[p].e.ver /\ e = entry[load[p].k]
                       \/ /\ ~(entry[load[p].k].ver < load[p].e.ver)
                          /\ e.at = Later(entry[load[p].k].at, load[p].e.at)
<1>1. load[p].pc = "get" /\ load[p].pc # "idle"
  BY DEF Get
<1>2. load[p].k \in Keys /\ load[p].e \in Entries
  BY <1>1, LoadParts DEF TypeOK
<1>3. load[p].kind \in {"touch", "etag"}
  BY <1>1, LoadParts DEF TypeOK, Stages, Staged, StoreKinds
<1>4. PICK old : old = entry[load[p].k]
  OBVIOUS
<1>5. CASE old = NoEntry
  BY <1>4, <1>5, Ending DEF Get
<1>6. CASE old # NoEntry
  <2>1. old \in Entries
    BY <1>2, <1>4, <1>6 DEF TypeOK
  <2>2. CASE load[p].kind = "etag"
    <3>1. PICK e : e = [old EXCEPT !.etag = load[p].e.etag]
      OBVIOUS
    <3>2. e \in Entries /\ e.at = old.at
      BY <1>2, <2>1, <3>1 DEF Entries
    <3>3. load' = [load EXCEPT ![p] = [load[p] EXCEPT !.pc = "insert", !.e = e]]
      BY <1>4, <1>6, <2>2, <3>1 DEF Get
    <3>4. Moved(p, "insert", load[p].kind, e)
      BY <1>1, <3>2, <3>3, Holding DEF LoadSteps
    <3> QED
      BY <1>4, <1>6, <2>2, <3>2, <3>4
  <2>3. CASE load[p].kind = "touch"
    <3>1. PICK e : e = IF old.ver < load[p].e.ver THEN old
                       ELSE [old EXCEPT !.at = Later(old.at, load[p].e.at)]
      OBVIOUS
    <3>2. Later(old.at, load[p].e.at) \in Times
      BY <1>2, <2>1, EntryParts DEF Later
    <3>3. /\ e \in Entries
          /\ old.ver < load[p].e.ver => e = old
          /\ ~(old.ver < load[p].e.ver) => e.at = Later(old.at, load[p].e.at)
      BY <2>1, <3>1, <3>2 DEF Entries
    <3>4. load' = [load EXCEPT ![p] = [load[p] EXCEPT !.pc = "insert", !.e = e]]
      BY <1>4, <1>6, <2>3, <3>1 DEF Get
    <3>5. Moved(p, "insert", load[p].kind, e)
      BY <1>1, <3>3, <3>4, Holding DEF LoadSteps
    <3> QED
      BY <1>4, <1>6, <2>3, <3>3, <3>5
  <2> QED
    BY <1>3, <2>2, <2>3
<1> QED
  BY <1>5, <1>6

LEMMA InsertShape ==
  ASSUME TypeOK, NEW p \in Loads, Insert(p)
  PROVE  /\ \E e \in Entries : Moved(p, "undo", load[p].kind, e)
         /\ entry' \in [Keys -> Entries \cup {NoEntry}]
         /\ entry'[load[p].k] = load[p].e
         /\ \A k \in Keys \ {load[p].k} : entry'[k] = entry[k]
<1>1. load[p].pc # "idle"
  BY DEF Insert
<1>2. load[p].k \in Keys /\ load[p].e \in Entries
  BY <1>1, LoadParts DEF TypeOK
<1>3. PICK e : e = [Blank EXCEPT !.etag = load[p].e.etag]
  OBVIOUS
<1>4. e \in Entries
  BY <1>2, <1>3, Bounds, EntryMade, EntryParts
<1>5. load' = [load EXCEPT ![p] = [load[p] EXCEPT !.pc = "undo", !.e = e]]
  BY <1>3 DEF Insert
<1>6. Moved(p, "undo", load[p].kind, e)
  BY <1>1, <1>4, <1>5, Holding DEF LoadSteps
<1> QED
  BY <1>2, <1>4, <1>6 DEF Insert, TypeOK

LEMMA BeginShape ==
  ASSUME TypeOK, NEW p \in Loads, NEW k \in Keys, Begin(p, k)
  PROVE  /\ load' \in [Loads -> LoadTasks \cup {IdleLoad}]
         /\ load'[p].pc = "lookup" /\ load'[p].kind = "load"
         /\ load'[p].k = k /\ load'[p].snap = Gens[k]
         /\ Others(p)
<1>1. PICK l : l = [pc |-> "lookup", k |-> k, snap |-> Generation(k), kind |-> "load",
                    e |-> Blank]
  OBVIOUS
<1>2. l \in LoadTasks
  BY <1>1, GenerationTypes, EntryParts DEF LoadTasks, LoadSteps, StoreKinds
<1>3. load' = [load EXCEPT ![p] = l]
  BY <1>1 DEF Begin
<1> QED
  BY <1>1, <1>2, <1>3, GenerationTypes DEF TypeOK, Others


-----------------------------------------------------------------------------
(* What a step does to the invalidations. *)

Elsewhere(i) == \A j \in Tasks \ {i} : inv'[j] = inv[j]

\* The invalidation i goes on to step x, with stamp s and the keys d to evict.
Turned(i, x, s, d) ==
  /\ inv' \in [Tasks -> InvTasks \cup {IdleInv}]
  /\ inv'[i].pc = x /\ inv'[i].stamp = s /\ inv'[i].todo = d
  /\ inv'[i].scope = inv[i].scope /\ inv'[i].k = inv[i].k /\ inv'[i].time = inv[i].time
  /\ Covers(inv'[i]) = Covers(inv[i])
  /\ Elsewhere(i)

\* A task starts to invalidate something that changed at a time.
Started(i, time) ==
  /\ inv' \in [Tasks -> InvTasks \cup {IdleInv}]
  /\ inv[i] = IdleInv
  /\ inv'[i].pc = "stamp" /\ inv'[i].time = time
  /\ Elsewhere(i)

LEMMA Turning ==
  ASSUME TypeOK, NEW i \in Tasks, inv[i].pc # "idle",
         NEW x \in {"stamp", "put", "scan", "evict"}, NEW s \in Stamps, NEW d \in SUBSET Keys,
         inv' = [inv EXCEPT ![i] = [inv[i] EXCEPT !.pc = x, !.stamp = s, !.todo = d]]
  PROVE  Turned(i, x, s, d)
<1>1. inv[i] \in InvTasks
  BY InvParts DEF TypeOK
<1> DEFINE new == [inv[i] EXCEPT !.pc = x, !.stamp = s, !.todo = d]
<1>2. /\ new \in InvTasks
      /\ new.pc = x /\ new.stamp = s /\ new.todo = d
      /\ new.scope = inv[i].scope /\ new.k = inv[i].k /\ new.time = inv[i].time
  BY <1>1 DEF InvTasks
<1>3. inv' = [inv EXCEPT ![i] = new] /\ inv'[i] = new
  BY DEF TypeOK
<1> HIDE DEF new
<1>4. inv' \in [Tasks -> InvTasks \cup {IdleInv}] /\ Elsewhere(i)
  BY <1>2, <1>3 DEF TypeOK, Elsewhere
<1>5. Covers(inv'[i]) = Covers(inv[i])
  BY <1>2, <1>3 DEF Covers
<1> QED
  BY <1>2, <1>3, <1>4, <1>5 DEF Turned

LEMMA CoversTypes ==
  ASSUME TypeOK, NEW i \in Tasks, inv[i].pc # "idle"
  PROVE  /\ Covers(inv[i]) \subseteq Keys
         /\ inv[i].scope = "table" => Covers(inv[i]) = {k \in Keys : TableOf(k) = TableOf(inv[i].k)}
         /\ inv[i].scope = "key" => Covers(inv[i]) = {inv[i].k}
         /\ inv[i].scope = "all" => Covers(inv[i]) = Keys
         /\ inv[i].scope \in {"table", "key", "all"}
<1>1. inv[i].scope \in Scopes /\ inv[i].k \in Keys
  BY InvParts DEF TypeOK
<1> QED
  BY <1>1 DEF Covers, Scopes

LEMMA SameFields ==
  ASSUME NEW r \in InvTasks, NEW x, NEW s, NEW d
  PROVE  /\ [r EXCEPT !.pc = x, !.stamp = s] = [r EXCEPT !.pc = x, !.stamp = s, !.todo = r.todo]
         /\ [r EXCEPT !.pc = x, !.todo = d] = [r EXCEPT !.pc = x, !.stamp = r.stamp, !.todo = d]
         /\ [r EXCEPT !.pc = x] = [r EXCEPT !.pc = x, !.stamp = r.stamp, !.todo = r.todo]
         /\ [r EXCEPT !.todo = d] = [r EXCEPT !.pc = r.pc, !.stamp = r.stamp, !.todo = d]
BY DEF InvTasks

LEMMA InvShapes ==
  ASSUME TypeOK, NEW i \in Tasks
  PROVE  /\ Stamp(i) => Turned(i, "put", counter + 1, inv[i].todo)
         /\ Put(i) => Turned(i, "scan", inv[i].stamp, inv[i].todo)
         /\ Scan(i) => Turned(i, "evict", inv[i].stamp,
                              {k \in Covers(inv[i]) : entry[k] # NoEntry})
         /\ \A k \in Keys :
              inv[i].pc = "evict" /\ inv' = [inv EXCEPT ![i].todo = @ \ {k}]
              => Turned(i, "evict", inv[i].stamp, inv[i].todo \ {k})
<1>1. inv[i].pc # "idle" =>
        inv[i] \in InvTasks /\ inv[i].stamp \in Stamps /\ inv[i].todo \in SUBSET Keys
  BY InvParts DEF TypeOK
<1>2. Stamp(i) => Turned(i, "put", counter + 1, inv[i].todo)
  <2> SUFFICES ASSUME Stamp(i) PROVE Turned(i, "put", counter + 1, inv[i].todo)
    OBVIOUS
  <2>1. inv[i].pc # "idle"
    BY DEF Stamp
  <2>2. PICK s : s = counter + 1
    OBVIOUS
  <2>3. s \in Stamps
    BY <2>2, Bounds DEF Stamp, TypeOK, Stamps
  <2>4. inv' = [inv EXCEPT ![i] = [inv[i] EXCEPT !.pc = "put", !.stamp = s, !.todo = inv[i].todo]]
    <3>1. inv' = [inv EXCEPT ![i] = [inv[i] EXCEPT !.pc = "put", !.stamp = s]]
      BY <2>2 DEF Stamp
    <3>2. [inv[i] EXCEPT !.pc = "put", !.stamp = s]
          = [inv[i] EXCEPT !.pc = "put", !.stamp = s, !.todo = inv[i].todo]
      BY <1>1, <2>1, SameFields
    <3> QED
      BY <3>1, <3>2
  <2> QED
    BY <1>1, <2>1, <2>2, <2>3, <2>4, Turning
<1>3. Put(i) => Turned(i, "scan", inv[i].stamp, inv[i].todo)
  <2> SUFFICES ASSUME Put(i) PROVE Turned(i, "scan", inv[i].stamp, inv[i].todo)
    OBVIOUS
  <2>1. inv[i].pc # "idle"
    BY DEF Put
  <2>2. inv' = [inv EXCEPT ![i] = [inv[i] EXCEPT !.pc = "scan", !.stamp = inv[i].stamp,
                                                 !.todo = inv[i].todo]]
    BY <1>1, <2>1, SameFields DEF Put
  <2> QED
    BY <1>1, <2>1, <2>2, Turning
<1>4. Scan(i) => Turned(i, "evict", inv[i].stamp, {k \in Covers(inv[i]) : entry[k] # NoEntry})
  <2> SUFFICES ASSUME Scan(i)
               PROVE  Turned(i, "evict", inv[i].stamp, {k \in Covers(inv[i]) : entry[k] # NoEntry})
    OBVIOUS
  <2>1. inv[i].pc # "idle"
    BY DEF Scan
  <2>2. PICK d : d = {k \in Covers(inv[i]) : entry[k] # NoEntry}
    OBVIOUS
  <2>3. d \in SUBSET Keys
    BY <2>1, <2>2, CoversTypes
  <2>4. inv' = [inv EXCEPT ![i] = [inv[i] EXCEPT !.pc = "evict", !.stamp = inv[i].stamp, !.todo = d]]
    BY <1>1, <2>1, <2>2, SameFields, ZenonT(60) DEF Scan
  <2> QED
    BY <1>1, <2>1, <2>2, <2>3, <2>4, Turning
<1>5. ASSUME NEW k \in Keys, inv[i].pc = "evict", inv' = [inv EXCEPT ![i].todo = @ \ {k}]
      PROVE  Turned(i, "evict", inv[i].stamp, inv[i].todo \ {k})
  <2>1. inv[i].pc # "idle"
    BY <1>5
  <2>2. PICK d : d = inv[i].todo \ {k}
    OBVIOUS
  <2>3. d \in SUBSET Keys
    BY <1>1, <2>1, <2>2
  <2>4. inv' = [inv EXCEPT ![i] = [inv[i] EXCEPT !.pc = "evict", !.stamp = inv[i].stamp, !.todo = d]]
    <3>1. inv' = [inv EXCEPT ![i] = [inv[i] EXCEPT !.todo = d]]
      BY <1>5, <2>2
    <3>2. [inv[i] EXCEPT !.todo = d]
          = [inv[i] EXCEPT !.pc = inv[i].pc, !.stamp = inv[i].stamp, !.todo = d]
      BY <1>1, <2>1, SameFields
    <3> QED
      BY <1>5, <3>1, <3>2
  <2> QED
    BY <1>1, <2>1, <2>2, <2>3, <2>4, Turning
<1> QED
  BY <1>2, <1>3, <1>4, <1>5

LEMMA Starting ==
  ASSUME TypeOK, NEW i \in Tasks, inv[i] = IdleInv, NEW scope \in Scopes, NEW k \in Keys,
         NEW time \in Times, inv' = [inv EXCEPT ![i] = Invalidating(scope, k, time)]
  PROVE  Started(i, time)
<1>1. PICK new : new = Invalidating(scope, k, time)
  OBVIOUS
<1>2. new \in InvTasks /\ new.pc = "stamp" /\ new.time = time
  BY <1>1, Bounds DEF Invalidating, InvTasks
<1> QED
  BY <1>1, <1>2 DEF Started, Elsewhere, TypeOK


-----------------------------------------------------------------------------
(* Type correctness, with what each step of a load is for. *)

LEMMA StagesEnded ==
  ASSUME Stages, NEW p \in Loads, Ended(p)
  PROVE  Stages' /\ load' \in [Loads -> LoadTasks \cup {IdleLoad}]
BY IdleParts DEF Stages, Ended, Others

LEMMA StagesMoved ==
  ASSUME Stages, NEW p \in Loads, NEW x, NEW d, NEW e, Moved(p, x, d, e),
         x \in {"lookup", "authorize", "revalidate", "load", "head"} => d = "load",
         x = "get" => d # "load"
  PROVE  Stages' /\ load' \in [Loads -> LoadTasks \cup {IdleLoad}]
BY DEF Stages, Moved, Others, Staged

LEMMA LoadStepStages ==
  ASSUME TypeOK, Stages, NEW p \in Loads, LoadStep(p)
  PROVE  Stages' /\ load' \in [Loads -> LoadTasks \cup {IdleLoad}]
<1>0. /\ load[p].pc \in {"lookup", "authorize", "revalidate", "load", "head"}
           => load[p].kind = "load"
      /\ load[p].pc = "get" => load[p].kind # "load"
  BY DEF Stages, Staged
<1>1. CASE ServeFresh(p)
  <2>1. load[p].kind = "load"
    BY <1>0, <1>1 DEF ServeFresh
  <2>2. Ended(p) \/ Moved(p, "authorize", load[p].kind, load[p].e)
    BY <1>1, LoadShapes
  <2> QED
    BY <2>1, <2>2, StagesEnded, StagesMoved
<1>2. CASE FindStale(p)
  <2>1. load[p].kind = "load"
    BY <1>0, <1>2 DEF FindStale
  <2>2. PICK e \in Entries : Moved(p, "revalidate", load[p].kind, e)
    BY <1>2, FetchShapes
  <2> QED
    BY <2>1, <2>2, StagesMoved
<1>3. CASE Miss(p)
  <2>1. load[p].kind = "load"
    BY <1>0, <1>3 DEF Miss
  <2>2. Moved(p, "load", load[p].kind, load[p].e)
    BY <1>3, LoadShapes
  <2> QED
    BY <2>1, <2>2, StagesMoved
<1>4. CASE Authorize(p) \/ Deny(p) \/ LoadFails(p)
  <2>1. Ended(p)
    BY <1>4, LoadShapes
  <2> QED
    BY <2>1, StagesEnded
<1>5. CASE NotModified(p)
  <2>1. PICK e \in Entries : Moved(p, "check", "touch", e)
    BY <1>5, FetchShapes
  <2> QED
    BY <2>1, StagesMoved
<1>6. CASE Modified(p) \/ RevalidateFails(p)
  <2>1. load[p].kind = "load"
    BY <1>0, <1>6 DEF Modified, RevalidateFails
  <2>2. PICK e \in Entries : Moved(p, "load", load[p].kind, e)
    BY <1>6, FetchShapes
  <2> QED
    BY <2>1, <2>2, StagesMoved
<1>7. CASE Load(p)
  <2>1. PICK e \in Entries : Moved(p, "check", load[p].kind, e)
    BY <1>7, FetchShapes
  <2> QED
    BY <2>1, StagesMoved
<1>8. CASE Head(p)
  <2>1. PICK e \in Entries : Moved(p, "check", "etag", e)
    BY <1>8, FetchShapes
  <2> QED
    BY <2>1, StagesMoved
<1>9. CASE Check(p)
  <2>1. \/ Ended(p)
        \/ Moved(p, IF load[p].kind = "load" THEN "insert" ELSE "get",
                 load[p].kind, load[p].e)
    BY <1>9, LoadShapes
  <2>2. PICK x : x = IF load[p].kind = "load" THEN "insert" ELSE "get"
    OBVIOUS
  <2> QED
    BY <2>1, <2>2, StagesEnded, StagesMoved
<1>10. CASE Get(p)
  <2>1. Ended(p) \/ \E e \in Entries : Moved(p, "insert", load[p].kind, e)
    BY <1>10, GetShape
  <2> QED
    BY <2>1, StagesEnded, StagesMoved
<1>11. CASE Insert(p)
  <2>1. PICK e \in Entries : Moved(p, "undo", load[p].kind, e)
    BY <1>11, InsertShape
  <2> QED
    BY <2>1, StagesMoved
<1>12. CASE Undo(p)
  <2>1. Ended(p) \/ (load[p].kind = "load" /\ Moved(p, "head", load[p].kind, load[p].e))
    <3>1. Ended(p) \/ Moved(p, "head", load[p].kind, load[p].e)
      BY <1>12, LoadShapes
    <3>2. load[p].kind = "load" \/ Return(p)
      BY <1>12 DEF Undo
    <3> QED
      BY <3>1, <3>2, Ending
  <2> QED
    BY <2>1, StagesEnded, StagesMoved
<1> QED
  BY <1>1, <1>2, <1>3, <1>4, <1>5, <1>6, <1>7, <1>8, <1>9, <1>10, <1>11, <1>12 DEF LoadStep

LEMMA LoadStepTypes ==
  ASSUME TypeOK, Stages, NEW p \in Loads, LoadStep(p)
  PROVE  TypeOK'
<1>1. load' \in [Loads -> LoadTasks \cup {IdleLoad}]
  BY LoadStepStages
<1>2. UNCHANGED genVars /\ UNCHANGED <<changed, finished>>
  BY DEF LoadStep, ServeFresh, FindStale, Miss, Authorize, Deny, NotModified, Modified,
         RevalidateFails, Load, LoadFails, Head, Check, Get, Insert, Undo, catalogVars
<1>3. entry' \in [Keys -> Entries \cup {NoEntry}]
  <2>1. CASE Insert(p)
    BY <2>1, InsertShape
  <2>2. CASE Undo(p)
    BY <2>2 DEF Undo, TypeOK
  <2>3. CASE ~Insert(p) /\ ~Undo(p)
    <3>1. entry' = entry
      BY <2>3 DEF LoadStep, ServeFresh, FindStale, Miss, Authorize, Deny, NotModified,
         Modified, RevalidateFails, Load, LoadFails, Head, Check, Get
    <3> QED
      BY <3>1 DEF TypeOK
  <2> QED
    BY <2>1, <2>2, <2>3
<1>4. now' \in Times /\ inv' \in [Tasks -> InvTasks \cup {IdleInv}]
  <2>1. CASE Deny(p)
    <3>1. now' \in Times /\ now' = now + 1
      BY <2>1, Bounds DEF Deny, TypeOK, Times
    <3>2. load[p].k \in Keys /\ p \in Tasks
      BY <2>1, LoadParts, Bounds DEF Deny, TypeOK
    <3>3. PICK t \in Times : t = now + 1
      BY <3>1
    <3>4. PICK new : new = Invalidating("key", load[p].k, t)
      OBVIOUS
    <3>5. new \in InvTasks
      BY <3>2, <3>4, Bounds DEF Invalidating, InvTasks, Scopes
    <3> QED
      BY <2>1, <3>1, <3>2, <3>3, <3>4, <3>5 DEF Deny, TypeOK
  <2>2. CASE ~Deny(p)
    <3>1. UNCHANGED <<now, inv>>
      BY <2>2 DEF LoadStep, ServeFresh, FindStale, Miss, Authorize, NotModified, Modified,
         RevalidateFails, Load, LoadFails, Head, Check, Get, Insert, Undo, catalogVars
    <3> QED
      BY <3>1 DEF TypeOK
  <2> QED
    BY <2>1, <2>2
<1> QED
  BY <1>1, <1>2, <1>3, <1>4 DEF TypeOK, genVars


LEMMA InvalidationTypes ==
  ASSUME TypeOK, NEW i \in Tasks, Invalidation(i)
  PROVE  TypeOK'
<1>1. \A t \in Times, u \in Times : Later(t, u) \in Times
  BY DEF Later
<1>2. CASE Stamp(i)
  <2>1. inv' \in [Tasks -> InvTasks \cup {IdleInv}]
    BY <1>2, InvShapes DEF Turned
  <2>2. counter' \in Stamps /\ floor' \in Stamps
    BY <1>2, Bounds DEF Stamp, TypeOK, Stamps
  <2>3. tableGen' \in [Tables -> Stamps] /\ keyGen' \in [Keys -> Stamps]
    BY <1>2, Bounds DEF Stamp, TypeOK, Cleared
  <2> QED
    BY <1>2, <2>1, <2>2, <2>3 DEF Stamp, TypeOK, catalogVars
<1>3. CASE Put(i)
  <2>1. inv' \in [Tasks -> InvTasks \cup {IdleInv}]
    BY <1>3, InvShapes DEF Turned
  <2>2. inv[i].pc # "idle"
    BY <1>3 DEF Put
  <2>3. inv[i].stamp \in Stamps /\ inv[i].scope \in Scopes /\ inv[i].k \in Keys
    BY <2>2, InvParts DEF TypeOK
  <2>4. /\ global' \in Stamps /\ tableGen' \in [Tables -> Stamps]
        /\ keyGen' \in [Keys -> Stamps]
    BY <1>3, <2>3 DEF Put, TypeOK, Scopes
  <2> QED
    BY <1>3, <2>1, <2>4 DEF Put, TypeOK, catalogVars
<1>4. CASE Scan(i)
  <2>1. inv' \in [Tasks -> InvTasks \cup {IdleInv}]
    BY <1>4, InvShapes DEF Turned
  <2> QED
    BY <1>4, <2>1 DEF Scan, TypeOK, catalogVars, genVars
<1>5. CASE Evict(i)
  <2>1. PICK k \in inv[i].todo : /\ entry' = [entry EXCEPT ![k] = NoEntry]
                                 /\ inv' = [inv EXCEPT ![i].todo = @ \ {k}]
    BY <1>5 DEF Evict
  <2>2. k \in Keys
    BY <1>5, <2>1, InvParts DEF Evict, TypeOK
  <2>3. inv' \in [Tasks -> InvTasks \cup {IdleInv}]
    BY <1>5, <2>1, <2>2, InvShapes DEF Turned, Evict
  <2>4. entry' \in [Keys -> Entries \cup {NoEntry}]
    BY <2>1 DEF TypeOK
  <2> QED
    BY <1>5, <2>3, <2>4 DEF Evict, TypeOK, catalogVars, genVars
<1>6. CASE Invalidated(i)
  <2>1. inv' \in [Tasks -> InvTasks \cup {IdleInv}]
    BY <1>6 DEF Invalidated, TypeOK
  <2>2. inv[i].time \in Times
    BY <1>6, InvParts DEF Invalidated, TypeOK
  <2>3. finished' \in [Keys -> Times]
    BY <1>1, <1>6, <2>2 DEF Invalidated, TypeOK
  <2> QED
    BY <1>6, <2>1, <2>3 DEF Invalidated, TypeOK, catalogVars, genVars
<1> QED
  BY <1>2, <1>3, <1>4, <1>5, <1>6 DEF Invalidation

\* The steps of the sessions and of the catalog, and what they invalidate.
LEMMA WorldShapes ==
  ASSUME TypeOK, NEW w \in Writers, NEW k \in Keys
  PROVE  /\ Commit(w, k) \/ CommitElsewhere(w, k) => Started(w, now + 1) /\ now' \in Times
         /\ Refresh(w, k) => Started(w, now)
<1>1. w \in Tasks /\ "table" \in Scopes /\ "key" \in Scopes /\ "all" \in Scopes
  BY Bounds DEF Scopes
<1>2. Commit(w, k) \/ CommitElsewhere(w, k) => now + 1 \in Times /\ now' = now + 1
  BY Bounds DEF Commit, CommitElsewhere, Times, TypeOK
<1>3. Commit(w, k) \/ CommitElsewhere(w, k) => Started(w, now + 1)
  <2> SUFFICES ASSUME Commit(w, k) \/ CommitElsewhere(w, k)
               PROVE  Started(w, now + 1)
    OBVIOUS
  <2>1. PICK t \in Times : t = now + 1
    BY <1>2
  <2>2. PICK scope \in {"table", "key"} :
          inv' = [inv EXCEPT ![w] = Invalidating(scope, k, now + 1)] /\ inv[w] = IdleInv
    BY DEF Commit, CommitElsewhere
  <2> QED
    BY <1>1, <2>1, <2>2, Starting
<1>4. Refresh(w, k) => Started(w, now)
  <2> SUFFICES ASSUME Refresh(w, k) PROVE Started(w, now)
    OBVIOUS
  <2>1. PICK t \in Times : t = now
    BY DEF TypeOK
  <2> QED
    BY <1>1, <2>1, Starting DEF Refresh
<1> QED
  BY <1>2, <1>3, <1>4

LEMMA WorldTypes ==
  ASSUME TypeOK, NEW k \in Keys,
         \/ \E w \in Writers : Commit(w, k) \/ CommitElsewhere(w, k) \/ Refresh(w, k)
         \/ Environment(k)
  PROVE  TypeOK'
<1>0. TableOf(k) \in Tables
  BY KeyParts
<1>1. ASSUME NEW w \in Writers, Commit(w, k) PROVE TypeOK'
  <2>1. inv' \in [Tasks -> InvTasks \cup {IdleInv}] /\ now' \in Times
    BY <1>1, WorldShapes DEF Started
  <2>2. changed' \in [Tables -> Times]
    BY <1>1, <2>1 DEF Commit, TypeOK
  <2> QED
    BY <1>1, <2>1, <2>2 DEF Commit, TypeOK, genVars
<1>2. ASSUME NEW w \in Writers, CommitElsewhere(w, k) PROVE TypeOK'
  <2>1. inv' \in [Tasks -> InvTasks \cup {IdleInv}] /\ now' \in Times
    BY <1>2, WorldShapes DEF Started
  <2> QED
    BY <1>2, <2>1 DEF CommitElsewhere, TypeOK, genVars
<1>3. ASSUME NEW w \in Writers, Refresh(w, k) PROVE TypeOK'
  <2>1. inv' \in [Tasks -> InvTasks \cup {IdleInv}]
    BY <1>3, WorldShapes DEF Started
  <2> QED
    BY <1>3, <2>1 DEF Refresh, TypeOK, genVars, catalogVars
<1>4. CASE ExternalCommit(TableOf(k))
  <2>1. now' \in Times
    BY <1>4, Bounds DEF ExternalCommit, Times, TypeOK
  <2>2. changed' \in [Tables -> Times]
    BY <1>4, <2>1 DEF ExternalCommit, TypeOK
  <2> QED
    BY <1>4, <2>1, <2>2 DEF ExternalCommit, TypeOK, genVars
<1>5. CASE Drop(k)
  <2>1. entry' \in [Keys -> Entries \cup {NoEntry}]
    BY <1>5 DEF Drop, TypeOK
  <2> QED
    BY <1>5, <2>1 DEF Drop, TypeOK, genVars, catalogVars
<1> QED
  BY <1>1, <1>2, <1>3, <1>4, <1>5 DEF Environment

\* No other step touches the loads.
LEMMA OnlyLoadSteps ==
  ASSUME Next
  PROVE  \/ \E p \in Loads, k \in Keys : Begin(p, k)
         \/ \E p \in Loads : LoadStep(p)
         \/ load' = load /\ \E i \in Tasks : Invalidation(i)
         \/ load' = load /\ \E k \in Keys :
              \/ \E w \in Writers : Commit(w, k) \/ CommitElsewhere(w, k) \/ Refresh(w, k)
              \/ Environment(k)
<1>1. \A i \in Tasks : Invalidation(i) => load' = load
  BY DEF Invalidation, Stamp, Put, Scan, Evict, Invalidated
<1>2. \A k \in Keys : Environment(k) => load' = load
  BY DEF Environment, ExternalCommit, Drop
<1>3. \A w \in Writers, k \in Keys :
        Commit(w, k) \/ CommitElsewhere(w, k) \/ Refresh(w, k) => load' = load
  BY DEF Commit, CommitElsewhere, Refresh
<1> QED
  BY <1>1, <1>2, <1>3 DEF Next

LEMMA CacheTypeInit == Init => TypeOK /\ Stages
<1> SUFFICES ASSUME Init PROVE TypeOK /\ Stages
  OBVIOUS
<1>1. Stages
  BY IdleParts DEF Init, Stages
<1> QED
  BY <1>1, Bounds DEF Init, TypeOK

LEMMA CacheTypeNext == TypeOK /\ Stages /\ [Next]_vars => TypeOK' /\ Stages'
<1> SUFFICES ASSUME TypeOK, Stages, [Next]_vars PROVE TypeOK' /\ Stages'
  OBVIOUS
<1>1. CASE UNCHANGED vars
  BY <1>1 DEF vars, TypeOK, Stages
<1>2. ASSUME NEW p \in Loads, NEW k \in Keys, Begin(p, k) PROVE TypeOK' /\ Stages'
  <2>1. /\ load' \in [Loads -> LoadTasks \cup {IdleLoad}]
        /\ load'[p].pc = "lookup" /\ load'[p].kind = "load" /\ Others(p)
    BY <1>2, BeginShape
  <2>2. Stages'
    BY <2>1 DEF Stages, Staged, Others
  <2> QED
    BY <1>2, <2>1, <2>2 DEF Begin, TypeOK, catalogVars, genVars
<1>3. ASSUME NEW p \in Loads, LoadStep(p) PROVE TypeOK' /\ Stages'
  BY <1>3, LoadStepTypes, LoadStepStages
<1>4. load' = load => Stages'
  BY DEF Stages
<1> QED
  BY <1>1, <1>2, <1>3, <1>4, InvalidationTypes, WorldTypes, OnlyLoadSteps

\* The cache is always well typed: generations, snapshots, entries and tasks
\* keep their ranges, overlapping bumps or not.
THEOREM CacheTypeCorrect == Spec => []TypeOK
<1>1. Spec => [](TypeOK /\ Stages)
  BY CacheTypeInit, CacheTypeNext, PTL DEF Spec
<1> QED
  BY <1>1, PTL


-----------------------------------------------------------------------------
(* The generations grow. *)

LEMMA GensParts ==
  TypeOK => \A k \in Keys :
    /\ Gens[k] = [global |-> Gens[k].global, table |-> Gens[k].table, key |-> Gens[k].key]
    /\ Gens[k].global = global
    /\ Gens[k].table = IF tableGen[TableOf(k)] = 0 THEN floor ELSE tableGen[TableOf(k)]
    /\ Gens[k].key = IF keyGen[k] = 0 THEN floor ELSE keyGen[k]
    /\ Gens[k].global \in Stamps /\ Gens[k].table \in Stamps /\ Gens[k].key \in Stamps
<1> SUFFICES ASSUME TypeOK, NEW k \in Keys
             PROVE  /\ Gens[k] = [global |-> Gens[k].global, table |-> Gens[k].table, key |-> Gens[k].key]
                    /\ Gens[k].global = global
                    /\ Gens[k].table = IF tableGen[TableOf(k)] = 0 THEN floor
                                       ELSE tableGen[TableOf(k)]
                    /\ Gens[k].key = IF keyGen[k] = 0 THEN floor ELSE keyGen[k]
                    /\ Gens[k].global \in Stamps /\ Gens[k].table \in Stamps
                    /\ Gens[k].key \in Stamps
  OBVIOUS
<1>1. Gens[k] = Generation(k) /\ Gens[k] \in Generations
  BY GenerationTypes
<1>2. Gens[k] = [global |-> Gens[k].global, table |-> Gens[k].table, key |-> Gens[k].key]
  BY <1>1 DEF Generation
<1> QED
  BY <1>1, <1>2 DEF Generation, OrFloor, Generations

\* The same, of the next state.
GensShaped ==
  \A k \in Keys :
    /\ Gens[k] = [global |-> Gens[k].global, table |-> Gens[k].table, key |-> Gens[k].key]
    /\ Gens[k].global = global
    /\ Gens[k].table = IF tableGen[TableOf(k)] = 0 THEN floor ELSE tableGen[TableOf(k)]
    /\ Gens[k].key = IF keyGen[k] = 0 THEN floor ELSE keyGen[k]
    /\ Gens[k].global \in Stamps /\ Gens[k].table \in Stamps /\ Gens[k].key \in Stamps

LEMMA GensPartsNext ==
  TypeOK' => \A k \in Keys :
    /\ Gens'[k] = [global |-> Gens'[k].global, table |-> Gens'[k].table, key |-> Gens'[k].key]
    /\ Gens'[k].global = global'
    /\ Gens'[k].table = IF tableGen'[TableOf(k)] = 0 THEN floor' ELSE tableGen'[TableOf(k)]
    /\ Gens'[k].key = IF keyGen'[k] = 0 THEN floor' ELSE keyGen'[k]
    /\ Gens'[k].global \in Stamps /\ Gens'[k].table \in Stamps /\ Gens'[k].key \in Stamps
<1>1. TypeOK' => GensShaped'
  <2>1. TypeOK => GensShaped
    BY GensParts DEF GensShaped
  <2> QED
    BY <2>1, PTL
<1> QED
  BY <1>1 DEF GensShaped

LEMMA GensTyped == TypeOK => Gens \in [Keys -> Generations]
BY GenerationTypes

LEMMA GensTypedNext == TypeOK' => (Gens \in [Keys -> Generations])'
BY GensTyped, PTL

LEMMA GensSame == UNCHANGED genVars => Gens' = Gens
BY DEF Gens, Generation, OrFloor, genVars

\* Generations that are below each other are the same.
LEMMA BelowAntisymmetric ==
  ASSUME NEW g \in Generations, NEW h \in Generations, Below(g, h), Below(h, g)
  PROVE  g = h
<1>1. /\ g.global \in Nat /\ g.table \in Nat /\ g.key \in Nat
      /\ h.global \in Nat /\ h.table \in Nat /\ h.key \in Nat
  BY Bounds DEF Generations
<1>2. g.global = h.global /\ g.table = h.table /\ g.key = h.key
  BY <1>1 DEF Below
<1> QED
  BY <1>2 DEF Generations

LEMMA BelowTransitive ==
  ASSUME NEW f \in Generations, NEW g \in Generations, NEW h \in Generations,
         Below(f, g), Below(g, h)
  PROVE  Below(f, h)
<1>1. /\ g.global \in Nat /\ g.table \in Nat /\ g.key \in Nat
      /\ h.global \in Nat /\ h.table \in Nat /\ h.key \in Nat
      /\ f.global \in Nat /\ f.table \in Nat /\ f.key \in Nat
  BY Bounds DEF Generations
<1> QED
  BY <1>1 DEF Below

LEMMA BelowReflexive ==
  ASSUME NEW g \in Generations
  PROVE  Below(g, g)
<1>1. g.global \in Nat /\ g.table \in Nat /\ g.key \in Nat
  BY Bounds DEF Generations
<1> QED
  BY <1>1 DEF Below

\* No key's generations go back.
Advancing == \A k \in Keys : Below(Gens[k], Gens'[k])

LEMMA GensBounded ==
  ASSUME TypeOK, GenerationsGrow, NEW k \in Keys
  PROVE  Gens[k].global <= counter /\ Gens[k].table <= counter /\ Gens[k].key <= counter
BY GensParts, KeyParts DEF GenerationsGrow

LEMMA StampGens ==
  ASSUME TypeOK, TypeOK', GenerationsGrow, NEW i \in Tasks, Stamp(i)
  PROVE  /\ Advancing
         /\ \A k \in Keys : Gens[k].table # counter + 1 /\ Gens[k].key # counter + 1
         /\ \A t \in Tables : tableGen'[t] <= counter'
         /\ \A k \in Keys : keyGen'[k] <= counter'
         /\ floor' <= counter'
<1>0. counter \in Nat /\ floor \in Nat /\ counter' = counter + 1
  BY Bounds DEF TypeOK, Stamp
<1>1. floor' = counter + 1 \/ floor' = floor
  BY DEF Stamp
<1>2. \/ tableGen' = tableGen
      \/ floor' = counter + 1 /\ \A t \in Tables : tableGen'[t] = 0
  BY DEF Stamp, TypeOK, Cleared
<1>3. \/ keyGen' = keyGen
      \/ floor' = counter + 1 /\ \A k \in Keys : keyGen'[k] = 0
  BY DEF Stamp, TypeOK, Cleared
<1>4. floor <= counter /\ floor' <= counter' /\ floor <= floor'
  BY <1>0, <1>1 DEF GenerationsGrow
<1>5. \A k \in Keys : Gens[k].table # counter + 1 /\ Gens[k].key # counter + 1
  <2> SUFFICES ASSUME NEW k \in Keys
               PROVE  Gens[k].table # counter + 1 /\ Gens[k].key # counter + 1
    OBVIOUS
  <2>1. Gens[k].table \in Nat /\ Gens[k].key \in Nat
    BY GensParts, Bounds
  <2> QED
    BY <1>0, <2>1, GensBounded
<1>6. \A t \in Tables : tableGen[t] \in Nat /\ tableGen[t] <= counter
  BY Bounds DEF TypeOK, GenerationsGrow
<1>7. \A k \in Keys : keyGen[k] \in Nat /\ keyGen[k] <= counter
  BY Bounds DEF TypeOK, GenerationsGrow
<1>8. /\ \A t \in Tables : tableGen'[t] <= counter'
      /\ \A k \in Keys : keyGen'[k] <= counter'
  BY <1>0, <1>2, <1>3, <1>6, <1>7
<1>9. Advancing
  <2> SUFFICES ASSUME NEW k \in Keys PROVE Below(Gens[k], Gens'[k])
    BY DEF Advancing
  <2>0. TableOf(k) \in Tables
    BY KeyParts
  <2>1. Gens'[k].global = Gens[k].global /\ Gens[k].global \in Nat
    BY GensParts, GensPartsNext, Bounds DEF Stamp
  <2>2. Gens[k].table <= Gens'[k].table
    <3>1. /\ Gens[k].table = IF tableGen[TableOf(k)] = 0 THEN floor ELSE tableGen[TableOf(k)]
          /\ Gens'[k].table = IF tableGen'[TableOf(k)] = 0 THEN floor' ELSE tableGen'[TableOf(k)]
      BY GensParts, GensPartsNext
    <3> QED
      BY <1>0, <1>1, <1>2, <1>4, <1>6, <2>0, <3>1
  <2>3. Gens[k].key <= Gens'[k].key
    <3>1. /\ Gens[k].key = IF keyGen[k] = 0 THEN floor ELSE keyGen[k]
          /\ Gens'[k].key = IF keyGen'[k] = 0 THEN floor' ELSE keyGen'[k]
      BY GensParts, GensPartsNext
    <3> QED
      BY <1>0, <1>1, <1>3, <1>4, <1>7, <3>1
  <2> QED
    BY <2>1, <2>2, <2>3 DEF Below
<1> QED
  BY <1>4, <1>5, <1>8, <1>9

LEMMA PutGens ==
  ASSUME TypeOK, TypeOK', GenerationsGrow, NEW i \in Tasks, Put(i)
  PROVE  /\ Advancing
         /\ inv[i].scope = "table" => \A k \in Covers(inv[i]) : Gens'[k].table = inv[i].stamp
         /\ inv[i].scope = "key" => \A k \in Covers(inv[i]) : Gens'[k].key = inv[i].stamp
         /\ inv[i].scope = "all" => \A k \in Keys : Gens'[k] # Gens[k]
         /\ \A t \in Tables : tableGen'[t] <= counter
         /\ \A k \in Keys : keyGen'[k] <= counter
         /\ global' <= counter
<1>0. inv[i].pc = "put" /\ inv[i].pc # "idle"
  BY DEF Put
<1>1. /\ counter \in Nat /\ floor \in Nat /\ global \in Nat /\ floor <= counter
      /\ inv[i].stamp = counter /\ counter # 0 /\ global < counter
  BY <1>0, Bounds DEF TypeOK, GenerationsGrow
<1>2. inv[i].k \in Keys /\ TableOf(inv[i].k) \in Tables
  BY <1>0, InvParts, KeyParts DEF TypeOK
<1>3. \A t \in Tables : tableGen[t] \in Nat /\ tableGen[t] <= counter
  BY Bounds DEF TypeOK, GenerationsGrow
<1>4. \A k \in Keys : keyGen[k] \in Nat /\ keyGen[k] <= counter
  BY Bounds DEF TypeOK, GenerationsGrow
<1>5. floor' = floor /\ counter' = counter
  BY DEF Put
<1>6. CASE inv[i].scope = "table"
  <2>1. /\ tableGen' = [tableGen EXCEPT ![TableOf(inv[i].k)] = counter]
        /\ keyGen' = keyGen /\ global' = global
    BY <1>1, <1>6 DEF Put
  <2>2. \A t \in Tables : tableGen'[t] = IF t = TableOf(inv[i].k) THEN counter ELSE tableGen[t]
    BY <2>1 DEF TypeOK
  <2>3. \A k \in Keys : /\ Gens'[k].global = Gens[k].global /\ Gens'[k].key = Gens[k].key
                        /\ Gens[k].global \in Nat /\ Gens[k].key \in Nat
    BY <1>5, <2>1, GensParts, GensPartsNext, Bounds, ZenonT(60)
  <2>4. \A k \in Keys :
          /\ Gens[k].table = IF tableGen[TableOf(k)] = 0 THEN floor ELSE tableGen[TableOf(k)]
          /\ Gens'[k].table = IF tableGen'[TableOf(k)] = 0 THEN floor ELSE tableGen'[TableOf(k)]
    BY <1>5, GensParts, GensPartsNext
  <2>5. \A k \in Keys : Gens[k].table <= Gens'[k].table
    BY <1>1, <1>3, <2>2, <2>4, KeyParts
  <2>6. \A k \in Keys : TableOf(k) = TableOf(inv[i].k) => Gens'[k].table = counter
    BY <1>1, <2>2, <2>4, KeyParts
  <2>7. Covers(inv[i]) = {k \in Keys : TableOf(k) = TableOf(inv[i].k)}
    BY <1>0, <1>6, CoversTypes
  <2>8. Advancing
    BY <2>3, <2>5 DEF Advancing, Below
  <2>9. \A k \in Covers(inv[i]) : Gens'[k].table = inv[i].stamp
    BY <1>1, <2>6, <2>7
  <2> QED
    BY <1>1, <1>3, <1>4, <1>6, <2>1, <2>2, <2>8, <2>9
<1>7. CASE inv[i].scope = "key"
  <2>1. /\ keyGen' = [keyGen EXCEPT ![inv[i].k] = counter]
        /\ tableGen' = tableGen /\ global' = global
    BY <1>1, <1>7 DEF Put
  <2>2. \A k \in Keys : keyGen'[k] = IF k = inv[i].k THEN counter ELSE keyGen[k]
    BY <2>1 DEF TypeOK
  <2>3. \A k \in Keys : /\ Gens'[k].global = Gens[k].global /\ Gens'[k].table = Gens[k].table
                        /\ Gens[k].global \in Nat /\ Gens[k].table \in Nat
    BY <1>5, <2>1, GensParts, GensPartsNext, Bounds, ZenonT(60)
  <2>4. \A k \in Keys :
          /\ Gens[k].key = IF keyGen[k] = 0 THEN floor ELSE keyGen[k]
          /\ Gens'[k].key = IF keyGen'[k] = 0 THEN floor ELSE keyGen'[k]
    BY <1>5, GensParts, GensPartsNext
  <2>5. \A k \in Keys : Gens[k].key <= Gens'[k].key
    BY <1>1, <1>4, <2>2, <2>4
  <2>6. Gens'[inv[i].k].key = counter
    BY <1>1, <1>2, <2>2, <2>4
  <2>7. Covers(inv[i]) = {inv[i].k}
    BY <1>0, <1>7, CoversTypes
  <2>8. Advancing
    BY <2>3, <2>5 DEF Advancing, Below
  <2>9. \A k \in Covers(inv[i]) : Gens'[k].key = inv[i].stamp
    BY <1>1, <2>6, <2>7
  <2> QED
    BY <1>1, <1>3, <1>4, <1>7, <2>1, <2>2, <2>8, <2>9
<1>8. CASE inv[i].scope = "all"
  <2>1. global' = counter /\ tableGen' = tableGen /\ keyGen' = keyGen
    BY <1>1, <1>8 DEF Put
  <2>2. \A k \in Keys : /\ Gens'[k].table = Gens[k].table /\ Gens'[k].key = Gens[k].key
                        /\ Gens[k].table \in Nat /\ Gens[k].key \in Nat
                        /\ Gens[k].global = global /\ Gens'[k].global = counter
    BY <1>5, <2>1, GensParts, GensPartsNext, Bounds, ZenonT(60)
  <2>3. Advancing
    BY <1>1, <2>2 DEF Advancing, Below
  <2>4. \A k \in Keys : Gens'[k] # Gens[k]
    BY <1>1, <2>2
  <2> QED
    BY <1>1, <1>3, <1>4, <1>8, <2>1, <2>3, <2>4
<1> QED
  BY <1>0, <1>6, <1>7, <1>8, CoversTypes


-----------------------------------------------------------------------------
(* The fence. *)

\* An invalidation that has passed over a key had fenced it.
LEMMA PastIsDue ==
  ASSUME TypeOK, NEW k \in Keys
  PROVE  Past[k] \subseteq Due[k]
<1>1. \A j \in Tasks : inv[j].pc = "evict" /\ k \in Covers(inv[j]) \ inv[j].todo => Fenced(j, k)
  BY DEF Fenced
<1> QED
  BY <1>1 DEF Past, Due

\* What is fetched now is not older than a change that is due.
LEMMA NowIsRecent ==
  ASSUME TypeOK, TimesPast, NEW k \in Keys
  PROVE  NotBefore(now, Due[k])
<1>1. \A j \in Tasks : Fenced(j, k) => inv[j].pc # "idle"
  BY DEF Fenced
<1>2. finished[k] <= now /\ \A j \in Tasks : Fenced(j, k) => inv[j].time <= now
  BY <1>1 DEF TimesPast
<1> QED
  BY <1>2 DEF NotBefore, Due

\* What keeps the fence: entries only go, an entry to be taken out again is
\* still to be taken out, no change becomes due for a load whose snapshot
\* stays in force or a key that such a load has stored, and an invalidation
\* passes over no entry.
LEMMA FenceKept ==
  ASSUME TypeOK, FenceHolds,
         \A k \in Keys : entry'[k] = entry[k] \/ entry'[k] = NoEntry,
         \A k \in Keys : k \in RacedKeys => k \in RacedKeys' \/ entry'[k] = NoEntry,
         \A k \in Keys : entry'[k] = NoEntry \/ Past'[k] \subseteq Past[k],
         \A p \in Live' : \/ LoadSound(p)'
                          \/ /\ p \in Live /\ load'[p] = load[p]
                             /\ Due'[load[p].k] \subseteq Due[load[p].k],
         Claimed' \subseteq Claimed,
         \A k \in Claimed' : Due'[k] \subseteq Due[k]
  PROVE  FenceHolds'
<1>1. \A k \in Keys : k \in RecentKeys /\ Due'[k] \subseteq Due[k] => k \in RecentKeys'
  BY DEF RecentKeys, NotBefore
<1>2. ASSUME NEW p \in Live' PROVE LoadSound(p)'
  <2>1. CASE /\ p \in Live /\ load'[p] = load[p]
             /\ Due'[load[p].k] \subseteq Due[load[p].k]
    <3>1. LoadSound(p) /\ load[p].k \in Keys
      BY <2>1, LoadParts DEF FenceHolds, Live, TypeOK
    <3>2. PICK l : l = load[p]
      OBVIOUS
    <3>3. load'[p] = l /\ l.k \in Keys /\ Due'[l.k] \subseteq Due[l.k]
      BY <2>1, <3>1, <3>2
    <3>4. /\ Fetched(l) => NotBefore(l.e.at, Due[l.k])
          /\ Vouching(l) => \/ l.k \in RecentKeys
                            \/ Mistagged(entry[l.k])
                            \/ Vouched(l) <= entry[l.k].ver
          /\ l.kind # "load" /\ l.pc = "insert" =>
               NotBefore(l.e.at, Due[l.k]) \/ (Mistagged(l.e) /\ l.k \notin Claimed)
      BY <3>1, <3>2 DEF LoadSound
    <3>5. \A t : NotBefore(t, Due[l.k]) => NotBefore(t, Due'[l.k])
      BY <3>3 DEF NotBefore
    <3>6. Vouching(l) => \/ l.k \in RecentKeys'
                         \/ Mistagged(entry'[l.k])
                         \/ Vouched(l) <= entry'[l.k].ver
      <4>1. entry'[l.k] = NoEntry => l.k \in RecentKeys'
        BY <3>3 DEF RecentKeys
      <4> QED
        BY <1>1, <3>3, <3>4, <4>1
    <3> QED
      BY <3>3, <3>4, <3>5, <3>6 DEF LoadSound
  <2> QED
    BY <2>1
<1>3. Claimed' \subseteq RecentKeys'
  <2>1. Claimed \subseteq RecentKeys /\ RecentKeys \subseteq Keys
    BY DEF FenceHolds, RecentKeys
  <2> QED
    BY <1>1, <2>1
<1>4. ASSUME NEW k \in Keys PROVE EntrySound(k)'
  <2>1. EntrySound(k)
    BY DEF FenceHolds
  <2>2. CASE entry'[k] = NoEntry
    BY <2>2 DEF EntrySound
  <2>3. CASE entry'[k] # NoEntry
    <3>1. entry'[k] = entry[k] /\ Past'[k] \subseteq Past[k] /\ (k \in RacedKeys => k \in RacedKeys')
      BY <2>3
    <3>2. NotBefore(entry[k].at, Past[k]) => NotBefore(entry'[k].at, Past'[k])
      BY <3>1 DEF NotBefore
    <3> QED
      BY <2>1, <3>1, <3>2 DEF EntrySound
  <2> QED
    BY <2>2, <2>3
<1> QED
  BY <1>2, <1>3, <1>4 DEF FenceHolds

\* A step of anything but a load (and a load may give up before it stores).
LEMMA FenceOutside ==
  ASSUME TypeOK, TypeOK', GenerationsGrow, FenceHolds, Advancing,
         \A q \in Loads : \/ load'[q] = load[q]
                          \/ load'[q] = IdleLoad /\ load[q].pc # "undo",
         \A k \in Keys : entry'[k] = entry[k] \/ entry'[k] = NoEntry,
         \A k \in Keys : entry'[k] = NoEntry \/ Past'[k] \subseteq Past[k],
         \A k \in Keys : Gens'[k] = Gens[k] => Due'[k] \subseteq Due[k]
  PROVE  FenceHolds' /\ \A p \in Loads : load'[p].pc # "idle" => Below(load'[p].snap, Gens'[load'[p].k])
<1>0. Gens \in [Keys -> Generations] /\ Gens' \in [Keys -> Generations]
  BY GensTyped, GensTypedNext
<1>1. ASSUME NEW p \in Loads, load'[p].pc # "idle"
      PROVE  /\ load'[p] = load[p] /\ load[p].k \in Keys
             /\ load[p].snap \in Generations
             /\ Below(load[p].snap, Gens[load[p].k])
             /\ Below(Gens[load[p].k], Gens'[load[p].k])
             /\ Below(load[p].snap, Gens'[load[p].k])
  <2>1. load'[p] = load[p]
    BY <1>1, IdleParts
  <2>2. load[p].pc # "idle"
    BY <1>1, <2>1
  <2>3. load[p].k \in Keys /\ load[p].snap \in Generations
    BY <2>2, LoadParts DEF TypeOK
  <2>4. Below(load[p].snap, Gens[load[p].k]) /\ Below(Gens[load[p].k], Gens'[load[p].k])
    BY <2>2, <2>3 DEF GenerationsGrow, Advancing
  <2>5. Gens[load[p].k] \in Generations /\ Gens'[load[p].k] \in Generations
    BY <1>0, <2>3
  <2> QED
    BY <2>1, <2>3, <2>4, <2>5, BelowTransitive
<1>2. ASSUME NEW p \in Live'
      PROVE  p \in Live /\ load'[p] = load[p] /\ Due'[load[p].k] \subseteq Due[load[p].k]
  <2>1. p \in Loads /\ load'[p].pc # "idle" /\ load'[p].snap = Gens'[load'[p].k]
    BY DEF Live
  <2>2. load[p].snap = Gens'[load[p].k] /\ load[p].k \in Keys /\ load'[p] = load[p]
    BY <1>1, <2>1
  <2>3. Below(load[p].snap, Gens[load[p].k]) /\ Below(Gens[load[p].k], load[p].snap)
    BY <1>1, <2>1, <2>2
  <2>4. load[p].snap = Gens[load[p].k]
    BY <1>0, <1>1, <2>1, <2>2, <2>3, BelowAntisymmetric
  <2> QED
    BY <2>1, <2>2, <2>4 DEF Live
<1>3. Claimed' \subseteq Claimed /\ \A k \in Claimed' : Due'[k] \subseteq Due[k]
  <2> SUFFICES ASSUME NEW k \in Claimed' PROVE k \in Claimed /\ Due'[k] \subseteq Due[k]
    OBVIOUS
  <2>1. PICK p \in Live' : HasStored(load'[p]) /\ k = load'[p].k
    BY DEF Claimed
  <2>2. p \in Live /\ load'[p] = load[p] /\ Due'[load[p].k] \subseteq Due[load[p].k]
    BY <1>2
  <2> QED
    BY <2>1, <2>2 DEF Claimed
<1>4. RacedKeys \subseteq RacedKeys'
  <2> SUFFICES ASSUME NEW q \in Undoing PROVE q \in Undoing' /\ load'[q].k = load[q].k
    BY DEF RacedKeys
  <2>1. q \in Loads /\ load[q].pc = "undo" /\ load[q].snap # Gens[load[q].k]
    BY DEF Undoing
  <2>2. load'[q] = load[q]
    BY <2>1
  <2>3. load'[q].pc # "idle"
    BY <2>1, <2>2
  <2>4. load[q].snap # Gens'[load[q].k]
    <3> SUFFICES ASSUME load[q].snap = Gens'[load[q].k] PROVE FALSE
      OBVIOUS
    <3>1. Below(load[q].snap, Gens[load[q].k]) /\ Below(Gens[load[q].k], load[q].snap)
      BY <1>1, <2>1, <2>3
    <3>2. load[q].snap \in Generations /\ Gens[load[q].k] \in Generations
      BY <1>0, <1>1, <2>1, <2>3
    <3> QED
      BY <2>1, <3>1, <3>2, BelowAntisymmetric
  <2> QED
    BY <2>1, <2>2, <2>4 DEF Undoing
<1>5. FenceHolds'
  BY <1>2, <1>3, <1>4, FenceKept
<1> QED
  BY <1>1, <1>5


\* A step that leaves the generations and the invalidations alone, or only
\* starts one, makes nothing due.
LEMMA DueSame ==
  ASSUME TypeOK, Gens' = Gens, finished' = finished,
         \A j \in Tasks : \/ inv'[j] = inv[j]
                          \/ inv[j].pc = "idle" /\ inv'[j].pc = "stamp"
  PROVE  Due' = Due /\ Past' = Past
<1>1. ASSUME NEW j \in Tasks, NEW k \in Keys
      PROVE  /\ Fenced(j, k)' <=> Fenced(j, k)
             /\ Fenced(j, k) => inv'[j].time = inv[j].time
  <2>1. CASE inv'[j] = inv[j]
    BY <2>1 DEF Fenced
  <2>2. CASE inv[j].pc = "idle" /\ inv'[j].pc = "stamp"
    BY <2>2 DEF Fenced
  <2> QED
    BY <2>1, <2>2
<1>2. \A k \in Keys : {inv'[i].time : i \in {j \in Tasks : Fenced(j, k)'}}
                    = {inv[i].time : i \in {j \in Tasks : Fenced(j, k)}}
  BY <1>1
<1>3. Due' = Due
  BY <1>2 DEF Due
<1>4. \A k \in Keys, j \in Tasks :
        /\ (inv'[j].pc = "evict" /\ k \in Covers(inv'[j]) \ inv'[j].todo)
           <=> (inv[j].pc = "evict" /\ k \in Covers(inv[j]) \ inv[j].todo)
        /\ inv[j].pc = "evict" => inv'[j].time = inv[j].time
  OBVIOUS
<1>5. \A k \in Keys :
        {inv'[i].time : i \in {j \in Tasks : /\ inv'[j].pc = "evict"
                                             /\ k \in Covers(inv'[j]) \ inv'[j].todo}}
        = {inv[i].time : i \in {j \in Tasks : /\ inv[j].pc = "evict"
                                              /\ k \in Covers(inv[j]) \ inv[j].todo}}
  BY <1>4
<1>6. Past' = Past
  BY <1>5 DEF Past
<1> QED
  BY <1>3, <1>6

\* A step that takes no stamp and puts none.
LEMMA GrowthKept ==
  ASSUME TypeOK, GenerationsGrow, UNCHANGED genVars,
         \A j \in Tasks : inv'[j] = inv[j] \/ inv'[j].pc # "put",
         \A p \in Loads : load'[p].pc # "idle" => Below(load'[p].snap, Gens'[load'[p].k])
  PROVE  GenerationsGrow'
<1>1. \A i \in Tasks : inv'[i].pc = "put" => inv'[i] = inv[i]
  OBVIOUS
<1>2. \A i \in Tasks : inv'[i].pc = "put" =>
        /\ inv'[i].stamp = counter' /\ global' < counter'
        /\ \A j \in Tasks : inv'[j].pc = "put" => i = j
  BY <1>1 DEF GenerationsGrow, genVars
<1>3. /\ global' <= counter' /\ floor' <= counter'
      /\ \A t \in Tables : tableGen'[t] <= counter'
      /\ \A k \in Keys : keyGen'[k] <= counter'
  BY DEF GenerationsGrow, genVars
<1> QED
  BY <1>2, <1>3 DEF GenerationsGrow

\* What the sessions and the catalog do, and a denial.
LEMMA WorldKeeps ==
  ASSUME TypeOK, TypeOK', GenerationsGrow, TimesPast, FenceHolds, UNCHANGED <<genVars, finished>>,
         \/ inv' = inv
         \/ \E i \in Tasks : Started(i, now) \/ Started(i, now'),
         now' = now \/ now' = now + 1,
         \A q \in Loads : \/ load'[q] = load[q]
                          \/ load'[q] = IdleLoad /\ load[q].pc # "undo",
         \A k \in Keys : entry'[k] = entry[k] \/ entry'[k] = NoEntry
  PROVE  GenerationsGrow' /\ TimesPast' /\ FenceHolds'
<1>0. now \in Nat /\ now <= now'
  BY Bounds DEF TypeOK
<1>1. Gens' = Gens
  BY GensSame
<1>2. ASSUME NEW j \in Tasks
      PROVE  \/ inv'[j] = inv[j]
             \/ /\ inv[j].pc = "idle" /\ inv'[j].pc = "stamp"
                /\ inv'[j].time \in {now, now'}
  <2>1. ASSUME NEW i \in Tasks, NEW t, t \in {now, now'}, Started(i, t)
        PROVE  \/ inv'[j] = inv[j]
               \/ /\ inv[j].pc = "idle" /\ inv'[j].pc = "stamp"
                  /\ inv'[j].time \in {now, now'}
    BY <2>1, IdleParts DEF Started, Elsewhere
  <2>2. CASE \E i \in Tasks : Started(i, now) \/ Started(i, now')
    <3>1. PICK i \in Tasks : Started(i, now) \/ Started(i, now')
      BY <2>2
    <3> QED
      BY <2>1, <3>1
  <2> QED
    BY <2>2
<1>3. Due' = Due /\ Past' = Past
  <2>1. \A j \in Tasks : \/ inv'[j] = inv[j]
                         \/ inv[j].pc = "idle" /\ inv'[j].pc = "stamp"
    BY <1>2
  <2> QED
    BY <1>1, <2>1, DueSame
<1>4. Advancing
  BY <1>1, GensTyped, BelowReflexive DEF Advancing
<1>5. /\ FenceHolds'
      /\ \A p \in Loads : load'[p].pc # "idle" => Below(load'[p].snap, Gens'[load'[p].k])
  BY <1>3, <1>4, FenceOutside
<1>6. GenerationsGrow'
  <2>1. \A j \in Tasks : inv'[j] = inv[j] \/ inv'[j].pc # "put"
    BY <1>2
  <2> QED
    BY <1>5, <2>1, GrowthKept
<1>7. TimesPast'
  <2>1. \A k \in Keys : finished[k] \in Nat /\ finished[k] <= now
    BY Bounds DEF TypeOK, TimesPast
  <2>2. \A k \in Keys : finished'[k] <= now'
    BY <1>0, <2>1
  <2>3. ASSUME NEW i \in Tasks, inv'[i].pc # "idle" PROVE inv'[i].time <= now'
    <3>1. CASE inv'[i] = inv[i]
      <4>1. inv[i].time \in Nat /\ inv[i].time <= now
        BY <2>3, <3>1, InvParts, Bounds DEF TypeOK, TimesPast
      <4> QED
        BY <1>0, <3>1, <4>1
    <3>2. CASE inv'[i] # inv[i]
      BY <1>0, <1>2, <3>2
    <3> QED
      BY <3>1, <3>2
  <2> QED
    BY <2>2, <2>3 DEF TimesPast
<1> QED
  BY <1>5, <1>6, <1>7


-----------------------------------------------------------------------------
(* The steps of an invalidation. *)

\* The times that are due only grow by those an invalidation fences.
LEMMA DueGrows ==
  ASSUME NEW k \in Keys,
         finished'[k] \in Due[k],
         \A j \in Tasks : Fenced(j, k)' => Fenced(j, k) /\ inv'[j].time = inv[j].time
  PROVE  Due'[k] \subseteq Due[k]
<1>1. Due'[k] = {finished'[k]} \cup {inv'[i].time : i \in {j \in Tasks : Fenced(j, k)'}}
  BY DEF Due
<1>2. Due[k] = {finished[k]} \cup {inv[i].time : i \in {j \in Tasks : Fenced(j, k)}}
  BY DEF Due
<1> QED
  BY <1>1, <1>2

LEMMA PastGrows ==
  ASSUME NEW k \in Keys,
         finished'[k] \in Past[k],
         \A j \in Tasks :
           inv'[j].pc = "evict" /\ k \in Covers(inv'[j]) \ inv'[j].todo
           => /\ inv[j].pc = "evict" /\ k \in Covers(inv[j]) \ inv[j].todo
              /\ inv'[j].time = inv[j].time
  PROVE  Past'[k] \subseteq Past[k]
<1>1. Past'[k] = {finished'[k]} \cup
                 {inv'[i].time : i \in {j \in Tasks : /\ inv'[j].pc = "evict"
                                                      /\ k \in Covers(inv'[j]) \ inv'[j].todo}}
  BY DEF Past
<1>2. Past[k] = {finished[k]} \cup
                {inv[i].time : i \in {j \in Tasks : /\ inv[j].pc = "evict"
                                                    /\ k \in Covers(inv[j]) \ inv[j].todo}}
  BY DEF Past
<1> QED
  BY <1>1, <1>2

LEMMA Finished ==
  ASSUME NEW k \in Keys
  PROVE  finished[k] \in Due[k] /\ finished[k] \in Past[k]
BY DEF Due, Past

\* The clock stands still while an invalidation moves.
LEMMA TimesTurned ==
  ASSUME TypeOK, TimesPast, now' = now, finished' = finished,
         NEW i \in Tasks, inv[i].pc # "idle", inv'[i].time = inv[i].time, Elsewhere(i)
  PROVE  TimesPast'
BY DEF TimesPast, Elsewhere

LEMMA StampKeeps ==
  ASSUME TypeOK, TypeOK', ~Overlap, GenerationsGrow, TimesPast, FenceHolds,
         NEW i \in Tasks, Stamp(i)
  PROVE  GenerationsGrow' /\ TimesPast' /\ FenceHolds'
<1>0. /\ Turned(i, "put", counter + 1, inv[i].todo) /\ inv[i].pc = "stamp"
      /\ counter' = counter + 1 /\ counter \in Nat /\ global' = global
      /\ entry' = entry /\ load' = load /\ finished' = finished /\ now' = now
  BY InvShapes, Bounds DEF Stamp, TypeOK, catalogVars
<1>1. \A j \in Tasks : inv[j].pc # "put"
  BY DEF Stamp
<1>2. /\ inv'[i].pc = "put" /\ inv'[i].stamp = counter + 1
      /\ inv'[i].time = inv[i].time /\ Elsewhere(i)
  BY <1>0 DEF Turned
<1>3. ASSUME NEW k \in Keys, Gens'[k] = Gens[k] PROVE Due'[k] \subseteq Due[k]
  <2>1. ~Fenced(i, k)'
    <3>1. Gens[k].table # counter + 1 /\ Gens[k].key # counter + 1
      BY StampGens
    <3> QED
      BY <1>2, <1>3, <3>1 DEF Fenced
  <2>2. ASSUME NEW j \in Tasks, Fenced(j, k)'
        PROVE  Fenced(j, k) /\ inv'[j].time = inv[j].time
    <3>1. j # i
      BY <2>1, <2>2
    <3>2. inv'[j] = inv[j]
      BY <1>2, <3>1 DEF Elsewhere
    <3> QED
      BY <1>1, <2>2, <3>2 DEF Fenced
  <2>3. finished'[k] \in Due[k]
    BY <1>0, Finished
  <2> QED
    BY <2>2, <2>3, DueGrows
<1>4. ASSUME NEW k \in Keys PROVE Past'[k] \subseteq Past[k]
  <2>1. ASSUME NEW j \in Tasks, inv'[j].pc = "evict" PROVE inv'[j] = inv[j]
    BY <1>2, <2>1 DEF Elsewhere
  <2>2. finished'[k] \in Past[k]
    BY <1>0, Finished
  <2> QED
    BY <2>1, <2>2, PastGrows
<1>5. Advancing
  BY StampGens
<1>6. /\ FenceHolds'
      /\ \A p \in Loads : load'[p].pc # "idle" => Below(load'[p].snap, Gens'[load'[p].k])
  BY <1>0, <1>3, <1>4, <1>5, FenceOutside
<1>7. \A j \in Tasks : inv'[j].pc = "put" => j = i
  BY <1>1, <1>2 DEF Elsewhere
<1>8. global' < counter' /\ global' <= counter'
  <2>1. global \in Nat
    BY Bounds DEF TypeOK
  <2>2. global <= counter
    BY DEF GenerationsGrow
  <2> QED
    BY <1>0, <2>1, <2>2
<1>9. GenerationsGrow'
  <2>1. \A j \in Tasks : inv'[j].pc = "put" => inv'[j].stamp = counter'
    BY <1>0, <1>2, <1>7
  <2> QED
    BY <1>6, <1>7, <1>8, <2>1, StampGens DEF GenerationsGrow
<1>10. TimesPast'
  BY <1>0, <1>2, TimesTurned
<1> QED
  BY <1>6, <1>9, <1>10

LEMMA PutKeeps ==
  ASSUME TypeOK, TypeOK', GenerationsGrow, TimesPast, FenceHolds,
         NEW i \in Tasks, Put(i)
  PROVE  GenerationsGrow' /\ TimesPast' /\ FenceHolds'
<1>0. /\ Turned(i, "scan", inv[i].stamp, inv[i].todo) /\ inv[i].pc = "put"
      /\ counter' = counter /\ floor' = floor
      /\ entry' = entry /\ load' = load /\ finished' = finished /\ now' = now
  BY InvShapes DEF Put, catalogVars
<1>1. \A j \in Tasks : inv[j].pc = "put" => j = i
  BY <1>0 DEF GenerationsGrow
<1>2. /\ inv'[i].pc = "scan" /\ Covers(inv'[i]) = Covers(inv[i])
      /\ inv'[i].time = inv[i].time /\ Elsewhere(i)
  BY <1>0 DEF Turned
<1>3. ASSUME NEW k \in Keys, Gens'[k] = Gens[k] PROVE Due'[k] \subseteq Due[k]
  <2>1. ASSUME NEW j \in Tasks, Fenced(j, k)'
        PROVE  Fenced(j, k) /\ inv'[j].time = inv[j].time
    <3>1. CASE j # i
      <4>1. inv'[j] = inv[j] /\ inv[j].pc # "put"
        BY <1>1, <1>2, <3>1 DEF Elsewhere
      <4> QED
        BY <2>1, <4>1 DEF Fenced
    <3>2. CASE j = i
      <4>1. k \in Covers(inv[i])
        BY <1>2, <2>1, <3>2 DEF Fenced
      <4>2. inv[i].scope \in {"table", "key", "all"}
        BY <1>0, CoversTypes
      <4>3. inv[i].scope = "table" => Gens[k].table = inv[i].stamp
        BY <1>3, <4>1, PutGens
      <4>4. inv[i].scope = "key" => Gens[k].key = inv[i].stamp
        BY <1>3, <4>1, PutGens
      <4>5. inv[i].scope # "all"
        BY <1>3, PutGens
      <4>6. Fenced(i, k)
        BY <1>0, <4>1, <4>2, <4>3, <4>4, <4>5 DEF Fenced
      <4> QED
        BY <1>2, <3>2, <4>6
    <3> QED
      BY <3>1, <3>2
  <2>2. finished'[k] \in Due[k]
    BY <1>0, Finished
  <2> QED
    BY <2>1, <2>2, DueGrows
<1>4. ASSUME NEW k \in Keys PROVE Past'[k] \subseteq Past[k]
  <2>1. ASSUME NEW j \in Tasks, inv'[j].pc = "evict" PROVE inv'[j] = inv[j]
    BY <1>2, <2>1 DEF Elsewhere
  <2>2. finished'[k] \in Past[k]
    BY <1>0, Finished
  <2> QED
    BY <2>1, <2>2, PastGrows
<1>5. Advancing
  BY PutGens
<1>6. /\ FenceHolds'
      /\ \A p \in Loads : load'[p].pc # "idle" => Below(load'[p].snap, Gens'[load'[p].k])
  BY <1>0, <1>3, <1>4, <1>5, FenceOutside
<1>7. \A j \in Tasks : inv'[j].pc # "put"
  BY <1>1, <1>2 DEF Elsewhere
<1>8. GenerationsGrow'
  <2>1. /\ \A t \in Tables : tableGen'[t] <= counter'
        /\ \A k \in Keys : keyGen'[k] <= counter'
        /\ global' <= counter'
    BY <1>0, PutGens
  <2>2. floor' <= counter'
    BY <1>0 DEF GenerationsGrow
  <2> QED
    BY <1>6, <1>7, <2>1, <2>2 DEF GenerationsGrow
<1>9. TimesPast'
  BY <1>0, <1>2, TimesTurned
<1> QED
  BY <1>6, <1>8, <1>9

\* The eviction: what it has not found is not there, and what it takes out is gone.
LEMMA EvictionKeeps ==
  ASSUME TypeOK, TypeOK', GenerationsGrow, TimesPast, FenceHolds,
         NEW i \in Tasks, Scan(i) \/ Evict(i)
  PROVE  GenerationsGrow' /\ TimesPast' /\ FenceHolds'
<1>0. /\ UNCHANGED genVars /\ load' = load /\ finished' = finished /\ now' = now
      /\ inv[i].pc \in {"scan", "evict"}
  BY DEF Scan, Evict, catalogVars
<1>1. PICK d : /\ Turned(i, "evict", inv[i].stamp, d)
               /\ \A k \in Keys : entry'[k] = entry[k] \/ entry'[k] = NoEntry
               /\ \A k \in Covers(inv[i]) \ d :
                    entry'[k] = NoEntry \/ (inv[i].pc = "evict" /\ k \notin inv[i].todo)
  <2>1. CASE Scan(i)
    <3>1. PICK d : d = {k \in Covers(inv[i]) : entry[k] # NoEntry}
      OBVIOUS
    <3>2. Turned(i, "evict", inv[i].stamp, d)
      BY <2>1, <3>1, InvShapes
    <3>3. \A k \in Covers(inv[i]) \ d : entry'[k] = NoEntry
      BY <2>1, <3>1 DEF Scan
    <3> QED
      BY <2>1, <3>2, <3>3 DEF Scan
  <2>2. CASE Evict(i)
    <3>1. PICK k \in inv[i].todo : /\ entry' = [entry EXCEPT ![k] = NoEntry]
                                   /\ inv' = [inv EXCEPT ![i].todo = @ \ {k}]
      BY <2>2 DEF Evict
    <3>2. k \in Keys /\ inv[i].pc = "evict"
      BY <2>2, <3>1, InvParts DEF Evict, TypeOK
    <3>3. PICK d : d = inv[i].todo \ {k}
      OBVIOUS
    <3>4. Turned(i, "evict", inv[i].stamp, d)
      BY <3>1, <3>2, <3>3, InvShapes
    <3>5. entry'[k] = NoEntry /\ \A l \in Keys : entry'[l] = entry[l] \/ entry'[l] = NoEntry
      BY <3>1, <3>2 DEF TypeOK
    <3> QED
      BY <3>2, <3>3, <3>4, <3>5
  <2> QED
    BY <2>1, <2>2
<1>2. /\ inv'[i].pc = "evict" /\ Covers(inv'[i]) = Covers(inv[i]) /\ inv'[i].todo = d
      /\ inv'[i].time = inv[i].time /\ Elsewhere(i)
  BY <1>1 DEF Turned
<1>3. Gens' = Gens
  BY <1>0, GensSame
<1>4. ASSUME NEW k \in Keys PROVE Due'[k] \subseteq Due[k]
  <2>1. ASSUME NEW j \in Tasks, Fenced(j, k)'
        PROVE  Fenced(j, k) /\ inv'[j].time = inv[j].time
    <3>1. CASE j # i
      <4>1. inv'[j] = inv[j]
        BY <1>2, <3>1 DEF Elsewhere
      <4> QED
        BY <1>3, <2>1, <4>1 DEF Fenced
    <3>2. CASE j = i
      BY <1>0, <1>2, <2>1, <3>2 DEF Fenced
    <3> QED
      BY <3>1, <3>2
  <2>2. finished'[k] \in Due[k]
    BY <1>0, Finished
  <2> QED
    BY <2>1, <2>2, DueGrows
<1>5. ASSUME NEW k \in Keys, entry'[k] # NoEntry PROVE Past'[k] \subseteq Past[k]
  <2>1. ASSUME NEW j \in Tasks, inv'[j].pc = "evict", k \in Covers(inv'[j]) \ inv'[j].todo
        PROVE  /\ inv[j].pc = "evict" /\ k \in Covers(inv[j]) \ inv[j].todo
               /\ inv'[j].time = inv[j].time
    <3>1. CASE j # i
      BY <1>2, <2>1, <3>1 DEF Elsewhere
    <3>2. CASE j = i
      BY <1>1, <1>2, <1>5, <2>1, <3>2
    <3> QED
      BY <3>1, <3>2
  <2>2. finished'[k] \in Past[k]
    BY <1>0, Finished
  <2> QED
    BY <2>1, <2>2, PastGrows
<1>6. Advancing
  BY <1>3, GensTyped, BelowReflexive DEF Advancing
<1>7. /\ FenceHolds'
      /\ \A p \in Loads : load'[p].pc # "idle" => Below(load'[p].snap, Gens'[load'[p].k])
  BY <1>0, <1>1, <1>4, <1>5, <1>6, FenceOutside
<1>8. GenerationsGrow'
  <2>1. \A j \in Tasks : inv'[j] = inv[j] \/ inv'[j].pc # "put"
    BY <1>2 DEF Elsewhere
  <2> QED
    BY <1>0, <1>7, <2>1, GrowthKept
<1>9. TimesPast'
  BY <1>0, <1>2, TimesTurned
<1> QED
  BY <1>7, <1>8, <1>9

LEMMA InvalidatedKeeps ==
  ASSUME TypeOK, TypeOK', GenerationsGrow, TimesPast, FenceHolds,
         NEW i \in Tasks, Invalidated(i)
  PROVE  GenerationsGrow' /\ TimesPast' /\ FenceHolds'
<1>0. /\ UNCHANGED genVars /\ load' = load /\ entry' = entry /\ now' = now
      /\ inv[i].pc = "evict" /\ inv[i].todo = {}
  BY DEF Invalidated, catalogVars
<1>1. inv'[i] = IdleInv /\ inv'[i].pc = "idle" /\ Elsewhere(i)
  BY IdleParts DEF Invalidated, TypeOK, Elsewhere
<1>2. Gens' = Gens
  BY <1>0, GensSame
<1>3. ASSUME NEW k \in Keys
      PROVE  \/ finished'[k] = finished[k]
             \/ finished'[k] = inv[i].time /\ k \in Covers(inv[i])
  BY DEF Invalidated, Later
<1>4. ASSUME NEW k \in Keys PROVE Due'[k] \subseteq Due[k]
  <2>1. ASSUME NEW j \in Tasks, Fenced(j, k)'
        PROVE  Fenced(j, k) /\ inv'[j].time = inv[j].time
    <3>1. j # i
      BY <1>1, <2>1 DEF Fenced
    <3>2. inv'[j] = inv[j]
      BY <1>1, <3>1 DEF Elsewhere
    <3> QED
      BY <1>2, <2>1, <3>2 DEF Fenced
  <2>2. finished'[k] \in Due[k]
    <3>1. k \in Covers(inv[i]) => Fenced(i, k)
      BY <1>0 DEF Fenced
    <3>2. k \in Covers(inv[i]) => inv[i].time \in Due[k]
      BY <3>1 DEF Due
    <3> QED
      BY <1>3, <3>2, Finished
  <2> QED
    BY <2>1, <2>2, DueGrows
<1>5. ASSUME NEW k \in Keys PROVE Past'[k] \subseteq Past[k]
  <2>1. ASSUME NEW j \in Tasks, inv'[j].pc = "evict" PROVE inv'[j] = inv[j]
    BY <1>1, <2>1 DEF Elsewhere
  <2>2. finished'[k] \in Past[k]
    <3>1. k \in Covers(inv[i]) => inv[i].time \in Past[k]
      BY <1>0 DEF Past
    <3> QED
      BY <1>3, <3>1, Finished
  <2> QED
    BY <2>1, <2>2, PastGrows
<1>6. Advancing
  BY <1>2, GensTyped, BelowReflexive DEF Advancing
<1>7. /\ FenceHolds'
      /\ \A p \in Loads : load'[p].pc # "idle" => Below(load'[p].snap, Gens'[load'[p].k])
  BY <1>0, <1>4, <1>5, <1>6, FenceOutside
<1>8. GenerationsGrow'
  <2>1. \A j \in Tasks : inv'[j] = inv[j] \/ inv'[j].pc # "put"
    BY <1>1 DEF Elsewhere
  <2> QED
    BY <1>0, <1>7, <2>1, GrowthKept
<1>9. TimesPast'
  <2>1. inv[i].time <= now
    BY <1>0 DEF TimesPast
  <2>2. \A k \in Keys : finished'[k] <= now'
    BY <1>0, <1>3, <2>1 DEF TimesPast
  <2>3. \A j \in Tasks : inv'[j].pc # "idle" => inv'[j].time <= now'
    BY <1>0, <1>1 DEF TimesPast, Elsewhere
  <2> QED
    BY <2>2, <2>3 DEF TimesPast
<1> QED
  BY <1>7, <1>8, <1>9


-----------------------------------------------------------------------------
(* The steps of a load. *)

\* A step of a load leaves the loads of the others and the generations alone.
LEMMA LoadGrowth ==
  ASSUME TypeOK, GenerationsGrow, UNCHANGED genVars, inv' = inv, NEW p \in Loads, Others(p),
         load'[p].pc # "idle" => Below(load'[p].snap, Gens[load'[p].k])
  PROVE  GenerationsGrow'
<1>1. Gens' = Gens
  BY GensSame
<1>2. \A q \in Loads : load'[q].pc # "idle" => Below(load'[q].snap, Gens'[load'[q].k])
  BY <1>1 DEF GenerationsGrow, Others
<1> QED
  BY <1>2, GrowthKept

\* A step that begins no store leaves the stores apart.
LEMMA ApartKept ==
  ASSUME TypeOK, StoresApart, NEW p \in Loads, Others(p),
         \/ load'[p].pc = "idle"
         \/ ~InReinsert(load'[p]) /\ ~InStore(load'[p])
         \/ /\ load[p].pc # "idle" /\ load'[p].k = load[p].k
            /\ InReinsert(load'[p]) => InReinsert(load[p])
            /\ InStore(load'[p]) => InStore(load[p]) \/ InReinsert(load[p])
  PROVE  StoresApart'
<1> SUFFICES ASSUME NEW a \in Loads, NEW b \in Loads,
                    a # b, load'[a].pc # "idle", load'[b].pc # "idle",
                    load'[a].k = load'[b].k, InReinsert(load'[a])
             PROVE  ~InStore(load'[b]) /\ ~InReinsert(load'[b])
  BY DEF StoresApart
<1>1. CASE a # p /\ b # p
  BY <1>1 DEF StoresApart, Others
<1>2. CASE a = p
  BY <1>2 DEF StoresApart, Others
<1>3. CASE b = p
  BY <1>3 DEF StoresApart, Others
<1> QED
  BY <1>1, <1>2, <1>3

LEMMA ApartChecked ==
  ASSUME TypeOK, StoresApart, ~Overlap, NEW p \in Loads, Check(p),
         load'[p].k = load[p].k, load'[p].kind = load[p].kind, Others(p)
  PROVE  StoresApart'
<1>1. \A q \in Loads \ {p} :
        /\ ~Reinserting(q, load[p].k)
        /\ load[p].kind # "load" => ~Storing(q, load[p].k)
  BY DEF Check, MayCheck
<1> SUFFICES ASSUME NEW a \in Loads, NEW b \in Loads,
                    a # b, load'[a].pc # "idle", load'[b].pc # "idle",
                    load'[a].k = load'[b].k, InReinsert(load'[a])
             PROVE  ~InStore(load'[b]) /\ ~InReinsert(load'[b])
  BY DEF StoresApart
<1>2. CASE a # p /\ b # p
  BY <1>2 DEF StoresApart, Others
<1>3. CASE a = p
  <2>1. load'[b] = load[b] /\ load[b].k = load[p].k /\ load[p].kind # "load"
    BY <1>3 DEF Others, InReinsert
  <2> QED
    BY <1>1, <1>3, <2>1 DEF Reinserting, Storing, InStore, InReinsert
<1>4. CASE b = p
  <2>1. load'[a] = load[a] /\ load[a].k = load[p].k
    BY <1>4 DEF Others
  <2> QED
    BY <1>1, <1>4, <2>1 DEF Reinserting, InReinsert
<1> QED
  BY <1>2, <1>3, <1>4

\* A step of a load that leaves the entries alone and takes none back, and
\* what it has to show.
LEMMA InsideMonotone ==
  ASSUME TypeOK, Gens' = Gens, NEW p \in Loads, Others(p), p \notin Undoing,
         p \in Live' /\ HasStored(load'[p]) =>
           p \in Live /\ HasStored(load[p]) /\ load'[p].k = load[p].k
  PROVE  /\ \A q \in Loads \ {p} : (q \in Live' <=> q \in Live) /\ load'[q] = load[q]
         /\ RacedKeys \subseteq RacedKeys'
         /\ Claimed' \subseteq Claimed
<1>1. \A q \in Loads \ {p} : (q \in Live' <=> q \in Live) /\ load'[q] = load[q]
  BY DEF Live, Others
<1>2. RacedKeys \subseteq RacedKeys'
  <2> SUFFICES ASSUME NEW q \in Undoing PROVE q \in Undoing' /\ load'[q].k = load[q].k
    BY DEF RacedKeys
  <2>1. q \in Loads \ {p}
    BY DEF Undoing
  <2> QED
    BY <1>1, <2>1 DEF Undoing
<1>3. Claimed' \subseteq Claimed
  <2> SUFFICES ASSUME NEW q \in Live', HasStored(load'[q])
               PROVE  load'[q].k \in Claimed
    BY DEF Claimed
  <2>1. q \in Loads
    BY DEF Live
  <2>2. q \in Live /\ HasStored(load[q]) /\ load'[q].k = load[q].k
    BY <1>1, <2>1
  <2> QED
    BY <2>2 DEF Claimed
<1> QED
  BY <1>1, <1>2, <1>3

LEMMA FenceInside ==
  ASSUME TypeOK, FenceHolds, Gens' = Gens, Due' = Due, Past' = Past, entry' = entry,
         NEW p \in Loads, Others(p), p \notin Undoing,
         p \in Live' => LoadSound(p)',
         p \in Live' /\ HasStored(load'[p]) =>
           p \in Live /\ HasStored(load[p]) /\ load'[p].k = load[p].k
  PROVE  FenceHolds'
<1>1. /\ \A q \in Loads \ {p} : (q \in Live' <=> q \in Live) /\ load'[q] = load[q]
      /\ RacedKeys \subseteq RacedKeys'
      /\ Claimed' \subseteq Claimed
  BY InsideMonotone
<1>2. \A q \in Live' : LoadSound(q)' \/ (q \in Live /\ load'[q] = load[q])
  <2> SUFFICES ASSUME NEW q \in Live'
               PROVE  LoadSound(q)' \/ (q \in Live /\ load'[q] = load[q])
    OBVIOUS
  <2>1. q \in Loads
    BY DEF Live
  <2>2. CASE q = p
    BY <2>2
  <2>3. CASE q # p
    BY <1>1, <2>1, <2>3
  <2> QED
    BY <2>2, <2>3
<1> QED
  BY <1>1, <1>2, FenceKept

\* Only one load moves; the fence, the clock and the generations stand.
Quiet == UNCHANGED <<catalogVars, genVars, inv, finished>>

LEMMA QuietSame ==
  ASSUME TypeOK, Quiet
  PROVE  Gens' = Gens /\ Due' = Due /\ Past' = Past /\ now' = now /\ (TimesPast => TimesPast')
<1>1. Gens' = Gens
  BY GensSame DEF Quiet
<1>2. finished' = finished /\ inv' = inv /\ now' = now
  BY DEF Quiet, catalogVars
<1>3. Due' = Due /\ Past' = Past
  BY <1>1, <1>2, DueSame
<1> QED
  BY <1>1, <1>2, <1>3 DEF TimesPast

\* A load returns.
LEMMA EndedKeeps ==
  ASSUME TypeOK, GenerationsGrow, TimesPast, StoresApart, FenceHolds, Quiet, entry' = entry,
         NEW p \in Loads, Ended(p), p \notin Undoing
  PROVE  GenerationsGrow' /\ TimesPast' /\ StoresApart' /\ FenceHolds'
<1>0. load'[p].pc = "idle" /\ Others(p) /\ p \notin Live'
  BY IdleParts DEF Ended, Live
<1>1. Gens' = Gens /\ Due' = Due /\ Past' = Past /\ now' = now /\ TimesPast'
  BY QuietSame
<1>2. FenceHolds'
  BY <1>0, <1>1, FenceInside
<1>3. GenerationsGrow'
  BY <1>0, LoadGrowth DEF Quiet
<1>4. StoresApart'
  BY <1>0, ApartKept
<1> QED
  BY <1>1, <1>2, <1>3, <1>4

\* A load moves on.
LEMMA MovedKeeps ==
  ASSUME TypeOK, GenerationsGrow, TimesPast, FenceHolds, Quiet, entry' = entry,
         NEW p \in Loads, NEW x, NEW d, NEW e, Moved(p, x, d, e),
         load[p].pc # "idle", p \notin Undoing,
         p \in Live /\ HasStored(load'[p]) => HasStored(load[p]),
         p \in Live /\ Fetched(load'[p]) => NotBefore(e.at, Due[load[p].k]),
         p \in Live /\ Vouching(load'[p]) =>
           \/ load[p].k \in RecentKeys
           \/ Mistagged(entry[load[p].k])
           \/ Vouched(load'[p]) <= entry[load[p].k].ver,
         p \in Live /\ d # "load" /\ x = "insert" =>
           \/ NotBefore(e.at, Due[load[p].k])
           \/ Mistagged(e) /\ load[p].k \notin Claimed
  PROVE  GenerationsGrow' /\ TimesPast' /\ FenceHolds'
<1>0. /\ load'[p].pc = x /\ load'[p].kind = d /\ load'[p].e = e
      /\ load'[p].k = load[p].k /\ load'[p].snap = load[p].snap /\ Others(p)
  BY DEF Moved
<1>1. Gens' = Gens /\ Due' = Due /\ Past' = Past /\ now' = now /\ TimesPast'
  BY QuietSame
<1>2. p \in Live' => p \in Live
  BY <1>0, <1>1 DEF Live
<1>3. RacedKeys \subseteq RacedKeys' /\ Claimed' \subseteq Claimed
  BY <1>0, <1>1, <1>2, InsideMonotone
<1>4. RecentKeys \subseteq RecentKeys'
  BY <1>1, <1>3 DEF RecentKeys
<1>5. ASSUME p \in Live' PROVE LoadSound(p)'
  <2>1. PICK l : l = load'[p]
    OBVIOUS
  <2>2. l.k = load[p].k /\ l.e = e /\ l.kind = d /\ l.pc = x /\ p \in Live
    BY <1>0, <1>2, <1>5, <2>1
  <2>3. Fetched(l) => NotBefore(l.e.at, Due'[l.k])
    BY <1>1, <2>1, <2>2
  <2>4. Vouching(l) => \/ l.k \in RecentKeys'
                       \/ Mistagged(entry'[l.k])
                       \/ Vouched(l) <= entry'[l.k].ver
    BY <1>4, <2>1, <2>2
  <2>5. l.kind # "load" /\ l.pc = "insert" =>
          NotBefore(l.e.at, Due'[l.k]) \/ (Mistagged(l.e) /\ l.k \notin Claimed')
    BY <1>1, <1>3, <2>1, <2>2
  <2> QED
    BY <2>1, <2>3, <2>4, <2>5 DEF LoadSound
<1>6. FenceHolds'
  BY <1>0, <1>1, <1>2, <1>5, FenceInside
<1>7. GenerationsGrow'
  <2>1. Below(load'[p].snap, Gens[load'[p].k])
    BY <1>0 DEF GenerationsGrow
  <2> QED
    BY <1>0, <2>1, LoadGrowth DEF Quiet
<1> QED
  BY <1>1, <1>6, <1>7

\* The steps before the store.
LEMMA PlainKeeps ==
  ASSUME TypeOK, GenerationsGrow, TimesPast, StoresApart, FenceHolds, Quiet, entry' = entry,
         NEW p \in Loads, load[p].pc \notin {"idle", "undo"}, NEW x, NEW e,
         Moved(p, x, "load", e), x \in {"authorize", "load"}
  PROVE  GenerationsGrow' /\ TimesPast' /\ StoresApart' /\ FenceHolds'
<1>0. load'[p].pc = x /\ load'[p].kind = "load" /\ Others(p) /\ p \notin Undoing
  BY DEF Moved, Undoing
<1>1. ~HasStored(load'[p]) /\ ~Fetched(load'[p]) /\ ~Vouching(load'[p])
  BY <1>0 DEF HasStored, Fetched, Vouching
<1>2. StoresApart'
  BY <1>0, ApartKept DEF InReinsert, InStore
<1> QED
  BY <1>0, <1>1, <1>2, MovedKeeps

LEMMA LookupKeeps ==
  ASSUME TypeOK, Stages, GenerationsGrow, TimesPast, StoresApart, FenceHolds, NEW p \in Loads,
         ServeFresh(p) \/ FindStale(p) \/ Miss(p) \/ Authorize(p) \/ LoadFails(p)
  PROVE  GenerationsGrow' /\ TimesPast' /\ StoresApart' /\ FenceHolds'
<1>0. /\ Quiet /\ entry' = entry /\ load[p].pc \in {"lookup", "authorize", "load"}
      /\ load[p].kind = "load" /\ p \notin Undoing
  BY DEF ServeFresh, FindStale, Miss, Authorize, LoadFails, Quiet, Stages, Staged, Undoing
<1>1. CASE Ended(p)
  BY <1>0, <1>1, EndedKeeps
<1>2. CASE ServeFresh(p) \/ Miss(p)
  <2>1. \/ Ended(p) \/ Moved(p, "authorize", "load", load[p].e)
        \/ Moved(p, "load", "load", load[p].e)
    BY <1>0, <1>2, LoadShapes
  <2> QED
    BY <1>0, <1>1, <2>1, PlainKeeps
<1>3. CASE FindStale(p)
  <2>1. PICK e \in Entries : /\ Moved(p, "revalidate", load[p].kind, e)
                             /\ e.etag = entry[load[p].k].etag
    BY <1>3, FetchShapes
  <2>2. /\ load'[p].pc = "revalidate" /\ load'[p].kind = "load" /\ load'[p].e = e /\ Others(p)
    BY <1>0, <2>1 DEF Moved
  <2>3. /\ ~HasStored(load'[p]) /\ ~Fetched(load'[p])
        /\ Vouched(load'[p]) = entry[load[p].k].etag
    BY <2>1, <2>2 DEF HasStored, Fetched, Vouched
  <2>4. Mistagged(entry[load[p].k]) \/ Vouched(load'[p]) <= entry[load[p].k].ver
    BY <1>3, <2>3 DEF Mistagged, FindStale
  <2>5. StoresApart'
    BY <2>2, ApartKept DEF InReinsert, InStore
  <2> QED
    BY <1>0, <2>1, <2>3, <2>4, <2>5, MovedKeeps
<1>4. CASE Authorize(p) \/ LoadFails(p)
  BY <1>1, <1>4, LoadShapes
<1> QED
  BY <1>2, <1>3, <1>4

LEMMA FetchKeeps ==
  ASSUME TypeOK, Stages, GenerationsGrow, TimesPast, StoresApart, FenceHolds, NEW p \in Loads,
         NotModified(p) \/ Modified(p) \/ RevalidateFails(p) \/ Load(p) \/ Head(p)
  PROVE  GenerationsGrow' /\ TimesPast' /\ StoresApart' /\ FenceHolds'
<1>0. /\ Quiet /\ entry' = entry /\ load[p].pc \in {"revalidate", "load", "head"}
      /\ load[p].kind = "load" /\ p \notin Undoing
  BY DEF NotModified, Modified, RevalidateFails, Load, Head, Quiet, Stages, Staged, Undoing
<1>1. load[p].k \in Keys
  BY <1>0, LoadParts DEF TypeOK
<1>2. NotBefore(now, Due[load[p].k])
  BY <1>1, NowIsRecent
<1>3. CASE NotModified(p)
  <2>1. PICK e \in Entries : /\ Moved(p, "check", "touch", e)
                             /\ e.at = now /\ e.ver = load[p].e.etag
    BY <1>3, FetchShapes
  <2>2. /\ load'[p].pc = "check" /\ load'[p].kind = "touch" /\ load'[p].e = e /\ Others(p)
    BY <2>1 DEF Moved
  <2>3. ~HasStored(load'[p]) /\ Vouched(load'[p]) = load[p].e.etag
    BY <2>1, <2>2 DEF HasStored, Vouched
  <2>4. p \in Live => \/ load[p].k \in RecentKeys
                      \/ Mistagged(entry[load[p].k])
                      \/ Vouched(load'[p]) <= entry[load[p].k].ver
    <3>1. load[p].pc = "revalidate"
      BY <1>3 DEF NotModified
    <3> QED
      BY <2>3, <3>1 DEF FenceHolds, LoadSound, Vouching, Vouched
  <2>5. StoresApart'
    BY <2>2, ApartKept DEF InReinsert, InStore
  <2> QED
    BY <1>0, <1>2, <2>1, <2>3, <2>4, <2>5, MovedKeeps
<1>4. CASE Modified(p) \/ RevalidateFails(p)
  <2>1. PICK e \in Entries : Moved(p, "load", "load", e)
    BY <1>0, <1>4, FetchShapes
  <2> QED
    BY <1>0, <2>1, PlainKeeps
<1>5. CASE Load(p)
  <2>1. PICK e \in Entries : Moved(p, "check", "load", e) /\ e.at = now
    BY <1>0, <1>5, FetchShapes
  <2>2. /\ load'[p].pc = "check" /\ load'[p].kind = "load" /\ load'[p].e = e /\ Others(p)
    BY <2>1 DEF Moved
  <2>3. ~HasStored(load'[p]) /\ ~Vouching(load'[p])
    BY <2>2 DEF HasStored, Vouching
  <2>4. StoresApart'
    BY <2>2, ApartKept DEF InReinsert, InStore
  <2> QED
    BY <1>0, <1>2, <2>1, <2>3, <2>4, MovedKeeps
<1>6. CASE Head(p)
  <2>1. PICK e \in Entries : Moved(p, "check", "etag", e)
    BY <1>6, FetchShapes
  <2>2. /\ load'[p].pc = "check" /\ load'[p].kind = "etag" /\ load'[p].e = e /\ Others(p)
    BY <2>1 DEF Moved
  <2>3. HasStored(load[p]) /\ ~Fetched(load'[p]) /\ ~Vouching(load'[p])
    BY <1>0, <1>6, <2>2 DEF HasStored, Fetched, Vouching, Head
  <2>4. StoresApart'
    BY <2>2, ApartKept DEF InReinsert, InStore
  <2> QED
    BY <1>0, <2>1, <2>3, <2>4, MovedKeeps
<1> QED
  BY <1>3, <1>4, <1>5, <1>6

LEMMA CheckKeeps ==
  ASSUME TypeOK, ~Overlap, GenerationsGrow, TimesPast, StoresApart, FenceHolds,
         NEW p \in Loads, Check(p)
  PROVE  GenerationsGrow' /\ TimesPast' /\ StoresApart' /\ FenceHolds'
<1>0. Quiet /\ entry' = entry /\ load[p].pc = "check" /\ p \notin Undoing
  BY DEF Check, Quiet, Undoing
<1>1. CASE Ended(p)
  BY <1>0, <1>1, EndedKeeps
<1>2. CASE ~Ended(p)
  <2>1. PICK x : /\ x = IF load[p].kind = "load" THEN "insert" ELSE "get"
                 /\ Moved(p, x, load[p].kind, load[p].e)
    BY <1>2, LoadShapes
  <2>2. /\ load'[p].pc = x /\ load'[p].kind = load[p].kind /\ load'[p].e = load[p].e
        /\ load'[p].k = load[p].k /\ Others(p)
    BY <2>1 DEF Moved
  <2>3. load[p].kind \in StoreKinds
    BY <1>0, LoadParts DEF TypeOK
  <2>4. /\ HasStored(load'[p]) => HasStored(load[p])
        /\ Fetched(load'[p]) => Fetched(load[p])
        /\ Vouching(load'[p]) => Vouching(load[p])
        /\ Vouched(load'[p]) = Vouched(load[p])
    BY <1>0, <2>1, <2>2, <2>3 DEF HasStored, Fetched, Vouching, Vouched, StoreKinds
  <2>5. p \in Live => LoadSound(p)
    BY DEF FenceHolds
  <2>6. StoresApart'
    BY <2>2, ApartChecked
  <2>7. ~(load[p].kind # "load" /\ x = "insert")
    BY <2>1
  <2>8. p \in Live /\ Fetched(load'[p]) => NotBefore(load[p].e.at, Due[load[p].k])
    BY <2>4, <2>5 DEF LoadSound
  <2>9. p \in Live /\ Vouching(load'[p]) =>
           \/ load[p].k \in RecentKeys
           \/ Mistagged(entry[load[p].k])
           \/ Vouched(load'[p]) <= entry[load[p].k].ver
    BY <2>4, <2>5 DEF LoadSound
  <2> QED
    BY <1>0, <2>1, <2>4, <2>6, <2>7, <2>8, <2>9, MovedKeeps
<1> QED
  BY <1>1, <1>2

LEMMA GetKeeps ==
  ASSUME TypeOK, Stages, GenerationsGrow, TimesPast, StoresApart, FenceHolds,
         NEW p \in Loads, Get(p)
  PROVE  GenerationsGrow' /\ TimesPast' /\ StoresApart' /\ FenceHolds'
<1>0. /\ Quiet /\ entry' = entry /\ load[p].pc = "get" /\ p \notin Undoing
      /\ load[p].kind # "load" /\ InReinsert(load[p])
  BY DEF Get, Quiet, Undoing, Stages, Staged, InReinsert
<1>1. CASE Ended(p)
  BY <1>0, <1>1, EndedKeeps
<1>2. CASE ~Ended(p)
  <2> DEFINE k == load[p].k
  <2>1. PICK e \in Entries :
              /\ entry[k] # NoEntry
              /\ Moved(p, "insert", load[p].kind, e)
              /\ \/ load[p].kind = "etag" /\ e.at = entry[k].at
                 \/ /\ load[p].kind = "touch"
                    /\ \/ entry[k].ver < load[p].e.ver /\ e = entry[k]
                       \/ /\ ~(entry[k].ver < load[p].e.ver)
                          /\ e.at = Later(entry[k].at, load[p].e.at)
    BY <1>2, GetShape
  <2>2. k \in Keys /\ load[p].e \in Entries /\ entry[k] \in Entries
    BY <1>0, <2>1, LoadParts DEF TypeOK
  <2>3. /\ load'[p].pc = "insert" /\ load'[p].kind = load[p].kind /\ load'[p].e = e
        /\ load'[p].k = load[p].k /\ Others(p)
    BY <2>1 DEF Moved
  <2>4. k \notin RacedKeys
    <3> SUFFICES ASSUME NEW q \in Undoing, load[q].k = k PROVE FALSE
      BY DEF RacedKeys
    <3>1. q \in Loads /\ load[q].pc = "undo" /\ q # p
      BY <1>0 DEF Undoing
    <3> QED
      BY <1>0, <3>1 DEF StoresApart, InStore
  <2>5. k \in RecentKeys => NotBefore(entry[k].at, Due[k])
    BY <2>1, <2>4 DEF RecentKeys
  <2>6. ASSUME p \in Live
        PROVE  NotBefore(e.at, Due[k]) \/ (Mistagged(e) /\ k \notin Claimed)
    <3>1. LoadSound(p) /\ Claimed \subseteq RecentKeys
      BY <2>6 DEF FenceHolds
    <3>2. CASE load[p].kind = "etag"
      <4>1. k \in Claimed
        BY <1>0, <2>6, <3>2 DEF Claimed, HasStored
      <4> QED
        BY <2>1, <2>5, <3>1, <3>2, <4>1
    <3>3. CASE load[p].kind = "touch" /\ entry[k].ver < load[p].e.ver
      <4>0. e = entry[k]
        BY <2>1, <3>3
      <4>1. k \in RecentKeys \/ Mistagged(entry[k]) \/ load[p].e.ver <= entry[k].ver
        BY <1>0, <3>1, <3>3 DEF LoadSound, Vouching, Vouched
      <4>2. ~(load[p].e.ver <= entry[k].ver)
        <5>1. load[p].e.ver \in Nat /\ entry[k].ver \in Nat
          BY <2>2, EntryParts, Bounds
        <5> QED
          BY <3>3, <5>1
      <4> QED
        BY <2>5, <3>1, <4>0, <4>1, <4>2
    <3>4. CASE load[p].kind = "touch" /\ ~(entry[k].ver < load[p].e.ver)
      <4>1. NotBefore(load[p].e.at, Due[k])
        BY <1>0, <3>1, <3>4 DEF LoadSound, Fetched
      <4>2. e.at = Later(entry[k].at, load[p].e.at)
        BY <2>1, <3>4
      <4>3. entry[k].at \in Nat /\ load[p].e.at \in Nat
        BY <2>2, EntryParts, Bounds
      <4>4. \A t \in Due[k] : t \in Nat
        <5>1. finished[k] \in Nat /\ \A j \in Tasks : Fenced(j, k) => inv[j].time \in Nat
          <6>1. \A j \in Tasks : Fenced(j, k) => inv[j].pc # "idle"
            BY DEF Fenced
          <6>2. \A j \in Tasks : Fenced(j, k) => inv[j].time \in Times
            BY <6>1, InvParts DEF TypeOK
          <6> QED
            BY <2>2, <6>2, Bounds DEF TypeOK
        <5> QED
          BY <2>2, <5>1 DEF Due
      <4> QED
        BY <4>1, <4>2, <4>3, <4>4 DEF NotBefore, Later
    <3> QED
      BY <2>1, <3>2, <3>3, <3>4
  <2>7. ~HasStored(load'[p]) /\ ~Fetched(load'[p]) /\ ~Vouching(load'[p])
    BY <1>0, <2>3 DEF HasStored, Fetched, Vouching
  <2>8. StoresApart'
    BY <1>0, <2>3, ApartKept
  <2> QED
    BY <1>0, <2>1, <2>6, <2>7, <2>8, MovedKeeps
<1> QED
  BY <1>1, <1>2


\* The insert: of a load that a bump overtook, which will take it out again,
\* or of something not older than a change that is due.
LEMMA InsertKeeps ==
  ASSUME TypeOK, GenerationsGrow, TimesPast, StoresApart, FenceHolds, NEW p \in Loads, Insert(p)
  PROVE  GenerationsGrow' /\ TimesPast' /\ StoresApart' /\ FenceHolds'
<1> DEFINE k == load[p].k
           new == load[p].e
<1>0. Quiet /\ load[p].pc = "insert" /\ InStore(load[p])
  BY DEF Insert, Quiet, InStore
<1>1. k \in Keys /\ new \in Entries /\ load[p].kind \in StoreKinds
  BY <1>0, LoadParts DEF TypeOK
<1>2. /\ entry'[k] = new
      /\ \A j \in Keys \ {k} : entry'[j] = entry[j]
  BY InsertShape
<1>3. PICK e \in Entries : Moved(p, "undo", load[p].kind, e)
  BY InsertShape
<1>4. /\ load'[p].pc = "undo" /\ load'[p].kind = load[p].kind
      /\ load'[p].k = k /\ load'[p].snap = load[p].snap /\ Others(p)
  BY <1>3 DEF Moved
<1>5. Gens' = Gens /\ Due' = Due /\ Past' = Past /\ now' = now /\ TimesPast'
  BY <1>0, QuietSame
<1>6. Live' = Live
  BY <1>0, <1>4, <1>5 DEF Live, Others
<1>7. /\ RacedKeys \subseteq RacedKeys'
      /\ p \notin Live => k \in RacedKeys'
  <2>1. Undoing \subseteq Undoing' /\ (p \notin Live => p \in Undoing')
    BY <1>0, <1>4, <1>5 DEF Undoing, Live, Others
  <2>2. \A q \in Undoing : load'[q].k = load[q].k
    BY <1>4 DEF Undoing, Others
  <2> QED
    BY <1>4, <2>1, <2>2 DEF RacedKeys
<1>8. \/ k \in RacedKeys'
      \/ NotBefore(new.at, Due[k])
      \/ Mistagged(new) /\ k \notin Claimed /\ load[p].kind # "load"
  <2>1. CASE p \in Live
    <3>1. LoadSound(p)
      BY <2>1 DEF FenceHolds
    <3> QED
      BY <1>0, <3>1 DEF LoadSound, Fetched
  <2> QED
    BY <1>7, <2>1
<1>9. Claimed' \subseteq Claimed \cup {k}
  <2> SUFFICES ASSUME NEW q \in Live', HasStored(load'[q])
               PROVE  load'[q].k \in Claimed \cup {k}
    BY DEF Claimed
  <2>1. q \in Loads /\ q \in Live
    BY <1>6 DEF Live
  <2>2. CASE q = p
    BY <1>4, <2>2
  <2>3. CASE q # p
    <3>1. load'[q] = load[q]
      BY <1>4, <2>1, <2>3 DEF Others
    <3> QED
      BY <2>1, <3>1 DEF Claimed
  <2> QED
    BY <2>2, <2>3
<1>10. load[p].kind # "load" /\ k \notin Claimed => k \notin Claimed'
  <2> SUFFICES ASSUME load[p].kind # "load",
                      NEW q \in Live', HasStored(load'[q]), load'[q].k = k
               PROVE  k \in Claimed
    BY DEF Claimed
  <2>1. q \in Loads /\ q \in Live
    BY <1>6 DEF Live
  <2>2. q # p
    BY <1>4 DEF HasStored
  <2>3. load'[q] = load[q]
    BY <1>4, <2>1, <2>2 DEF Others
  <2> QED
    BY <2>1, <2>3 DEF Claimed
<1>11. \A j \in Keys \ {k} : j \in RecentKeys => j \in RecentKeys'
  BY <1>2, <1>5, <1>7 DEF RecentKeys
<1>12. k \in RecentKeys' \/ (Mistagged(new) /\ k \notin Claimed /\ load[p].kind # "load")
  BY <1>1, <1>2, <1>5, <1>8 DEF RecentKeys
<1>13. ASSUME NEW q \in Live' PROVE LoadSound(q)'
  <2>1. q \in Loads /\ q \in Live
    BY <1>6 DEF Live
  <2>2. CASE q = p
    <3>1. ~Fetched(load'[p]) /\ ~Vouching(load'[p])
      BY <1>4 DEF Fetched, Vouching
    <3> QED
      BY <1>4, <2>2, <3>1 DEF LoadSound
  <2>3. CASE q # p
    <3>1. PICK l : l = load[q]
      OBVIOUS
    <3>2. load'[q] = l
      BY <1>4, <2>1, <2>3, <3>1 DEF Others
    <3>3. l.pc # "idle" /\ l.k \in Keys
      BY <2>1, <3>1, LoadParts DEF Live, TypeOK
    <3>4. /\ Fetched(l) => NotBefore(l.e.at, Due[l.k])
          /\ Vouching(l) => \/ l.k \in RecentKeys
                            \/ Mistagged(entry[l.k])
                            \/ Vouched(l) <= entry[l.k].ver
          /\ l.kind # "load" /\ l.pc = "insert" =>
               NotBefore(l.e.at, Due[l.k]) \/ (Mistagged(l.e) /\ l.k \notin Claimed)
      BY <2>1, <3>1 DEF FenceHolds, LoadSound
    <3>5. Vouching(l) => \/ l.k \in RecentKeys'
                         \/ Mistagged(entry'[l.k])
                         \/ Vouched(l) <= entry'[l.k].ver
      <4>1. CASE l.k = k
        BY <1>2, <1>12, <4>1
      <4>2. CASE l.k # k
        BY <1>2, <1>11, <3>3, <3>4, <4>2
      <4> QED
        BY <4>1, <4>2
    <3>6. l.kind # "load" /\ l.pc = "insert" => l.k # k
      <4>1. l.kind # "load" /\ l.pc = "insert" => InReinsert(l)
        BY DEF InReinsert
      <4> QED
        BY <1>0, <2>1, <2>3, <3>1, <3>3, <4>1 DEF StoresApart
    <3>7. l.kind # "load" /\ l.pc = "insert" =>
            NotBefore(l.e.at, Due'[l.k]) \/ (Mistagged(l.e) /\ l.k \notin Claimed')
      BY <1>5, <1>9, <3>4, <3>6
    <3> QED
      BY <1>5, <3>2, <3>4, <3>5, <3>7 DEF LoadSound
  <2> QED
    BY <2>2, <2>3
<1>14. Claimed' \subseteq RecentKeys'
  <2> SUFFICES ASSUME NEW j \in Claimed' PROVE j \in RecentKeys'
    OBVIOUS
  <2>1. CASE j = k
    BY <1>10, <1>12, <2>1
  <2>2. CASE j # k
    <3>1. j \in Claimed
      BY <1>9, <2>2
    <3>2. j \in RecentKeys /\ j \in Keys
      BY <3>1 DEF FenceHolds, RecentKeys
    <3> QED
      BY <1>11, <2>2, <3>2
  <2> QED
    BY <2>1, <2>2
<1>15. ASSUME NEW j \in Keys PROVE EntrySound(j)'
  <2>1. CASE j = k
    <3>1. NotBefore(new.at, Due[k]) => NotBefore(entry'[k].at, Past'[k])
      BY <1>1, <1>2, <1>5, PastIsDue DEF NotBefore
    <3> QED
      BY <1>2, <1>8, <2>1, <3>1 DEF EntrySound
  <2>2. CASE j # k
    <3>1. EntrySound(j)
      BY DEF FenceHolds
    <3> QED
      BY <1>2, <1>5, <1>7, <2>2, <3>1 DEF EntrySound
  <2> QED
    BY <2>1, <2>2
<1>16. FenceHolds'
  BY <1>13, <1>14, <1>15 DEF FenceHolds
<1>17. GenerationsGrow'
  <2>1. Below(load'[p].snap, Gens[load'[p].k])
    BY <1>0, <1>4 DEF GenerationsGrow
  <2> QED
    BY <1>0, <1>4, <2>1, LoadGrowth DEF Quiet
<1>18. StoresApart'
  <2>1. InReinsert(load'[p]) => InReinsert(load[p])
    BY <1>0, <1>4 DEF InReinsert
  <2> QED
    BY <1>0, <1>4, <2>1, ApartKept
<1> QED
  BY <1>5, <1>16, <1>17, <1>18

LEMMA UndoKeeps ==
  ASSUME TypeOK, GenerationsGrow, TimesPast, StoresApart, FenceHolds, NEW p \in Loads, Undo(p)
  PROVE  GenerationsGrow' /\ TimesPast' /\ StoresApart' /\ FenceHolds'
<1> DEFINE k == load[p].k
<1>0. Quiet /\ load[p].pc = "undo"
  BY DEF Undo, Quiet
<1>1. k \in Keys /\ Gens[k] = Generation(k)
  BY <1>0, LoadParts, GenerationTypes DEF TypeOK
<1>2. CASE GenerationChanged(p)
  <2>1. /\ entry'[k] = NoEntry /\ \A j \in Keys : entry'[j] = entry[j] \/ entry'[j] = NoEntry
    BY <1>1, <1>2 DEF Undo, TypeOK
  <2>2. Ended(p)
    BY <1>2, Ending DEF Undo
  <2>3. load'[p].pc = "idle" /\ Others(p)
    BY <2>2, IdleParts DEF Ended
  <2>4. Gens' = Gens /\ Due' = Due /\ Past' = Past /\ now' = now /\ TimesPast'
    BY <1>0, QuietSame
  <2>5. ASSUME NEW q \in Live' PROVE q \in Live /\ load'[q] = load[q]
    BY <2>3, <2>4 DEF Live, Others
  <2>6. Claimed' \subseteq Claimed
    BY <2>5 DEF Claimed
  <2>7. ASSUME NEW j \in RacedKeys PROVE j \in RacedKeys' \/ entry'[j] = NoEntry
    <3>1. PICK q \in Undoing : j = load[q].k
      BY DEF RacedKeys
    <3>2. CASE q = p
      BY <2>1, <3>1, <3>2
    <3>3. CASE q # p
      <4>1. q \in Undoing' /\ load'[q].k = j
        BY <2>3, <2>4, <3>1, <3>3 DEF Undoing, Others
      <4> QED
        BY <4>1 DEF RacedKeys
    <3> QED
      BY <3>2, <3>3
  <2>8. FenceHolds'
    BY <2>1, <2>4, <2>5, <2>6, <2>7, FenceKept
  <2>9. GenerationsGrow'
    BY <1>0, <2>3, LoadGrowth DEF Quiet
  <2>10. StoresApart'
    BY <2>3, ApartKept
  <2> QED
    BY <2>4, <2>8, <2>9, <2>10
<1>3. CASE ~GenerationChanged(p)
  <2>1. entry' = entry /\ p \notin Undoing
    BY <1>1, <1>3 DEF Undo, GenerationChanged, Undoing
  <2>2. CASE Ended(p)
    BY <1>0, <2>1, <2>2, EndedKeeps
  <2>3. CASE ~Ended(p)
    <3>1. Moved(p, "head", load[p].kind, load[p].e)
      BY <2>3, LoadShapes
    <3>2. /\ load'[p].pc = "head" /\ load'[p].kind = load[p].kind
          /\ load'[p].k = k /\ Others(p)
      BY <3>1 DEF Moved
    <3>3. /\ HasStored(load'[p]) => HasStored(load[p])
          /\ ~Fetched(load'[p]) /\ ~Vouching(load'[p])
      BY <1>0, <3>2 DEF HasStored, Fetched, Vouching
    <3>4. StoresApart'
      BY <3>2, ApartKept DEF InReinsert, InStore
    <3> QED
      BY <1>0, <2>1, <3>1, <3>3, <3>4, MovedKeeps
  <2> QED
    BY <2>2, <2>3
<1> QED
  BY <1>2, <1>3

LEMMA BeginKeeps ==
  ASSUME TypeOK, GenerationsGrow, TimesPast, StoresApart, FenceHolds,
         NEW p \in Loads, NEW k \in Keys, Begin(p, k)
  PROVE  GenerationsGrow' /\ TimesPast' /\ StoresApart' /\ FenceHolds'
<1>0. Quiet /\ entry' = entry /\ load[p] = IdleLoad /\ load[p].pc = "idle" /\ p \notin Undoing
  BY IdleParts DEF Begin, Quiet, Undoing
<1>1. /\ load'[p].pc = "lookup" /\ load'[p].kind = "load"
      /\ load'[p].k = k /\ load'[p].snap = Gens[k] /\ Others(p)
  BY BeginShape
<1>2. Gens' = Gens /\ Due' = Due /\ Past' = Past /\ now' = now /\ TimesPast'
  BY <1>0, QuietSame
<1>3. ~HasStored(load'[p]) /\ ~Fetched(load'[p]) /\ ~Vouching(load'[p])
  BY <1>1 DEF HasStored, Fetched, Vouching
<1>4. LoadSound(p)'
  BY <1>1, <1>3 DEF LoadSound
<1>5. FenceHolds'
  BY <1>0, <1>1, <1>2, <1>3, <1>4, FenceInside
<1>6. GenerationsGrow'
  <2>1. Below(load'[p].snap, Gens[load'[p].k])
    BY <1>1, GensTyped, BelowReflexive
  <2> QED
    BY <1>0, <1>1, <2>1, LoadGrowth DEF Quiet
<1>7. StoresApart'
  BY <1>1, ApartKept DEF InReinsert, InStore
<1> QED
  BY <1>2, <1>5, <1>6, <1>7

LEMMA DenyKeeps ==
  ASSUME TypeOK, TypeOK', OneTask, GenerationsGrow, TimesPast, StoresApart, FenceHolds,
         NEW p \in Loads, Deny(p)
  PROVE  GenerationsGrow' /\ TimesPast' /\ StoresApart' /\ FenceHolds'
<1>1. Ended(p)
  BY LoadShapes
<1>2. load'[p] = IdleLoad /\ load'[p].pc = "idle" /\ Others(p)
  BY <1>1, IdleParts DEF Ended
<1>3. /\ load[p].pc = "authorize" /\ load[p].k \in Keys /\ p \in Tasks /\ inv[p] = IdleInv
      /\ now' = now + 1 /\ now' \in Times /\ entry' = entry
      /\ UNCHANGED <<genVars, finished>>
  BY LoadParts, Bounds DEF Deny, TypeOK, OneTask
<1>4. Started(p, now')
  <2>1. PICK t \in Times : t = now'
    BY <1>3
  <2> QED
    BY <1>3, <2>1, Starting DEF Deny, Scopes
<1>5. \A q \in Loads : \/ load'[q] = load[q]
                       \/ load'[q] = IdleLoad /\ load[q].pc # "undo"
  BY <1>2, <1>3 DEF Others
<1>6. GenerationsGrow' /\ TimesPast' /\ FenceHolds'
  BY <1>3, <1>4, <1>5, WorldKeeps
<1>7. StoresApart'
  BY <1>2, ApartKept
<1> QED
  BY <1>6, <1>7

LEMMA OneTaskKept ==
  ASSUME TypeOK, Stages, OneTask, Next
  PROVE  OneTask'
<1>1. ASSUME NEW p \in Loads, NEW k \in Keys, Begin(p, k) PROVE OneTask'
  <2>1. Others(p)
    BY <1>1, BeginShape
  <2> QED
    BY <1>1, <2>1 DEF Begin, OneTask, Others
<1>2. ASSUME NEW p \in Loads, LoadStep(p) PROVE OneTask'
  <2>1. CASE Deny(p)
    <3>1. load'[p].pc = "idle" /\ Others(p)
      BY <2>1, LoadShapes, IdleParts DEF Ended
    <3>2. \A q \in Loads \ {p} : inv'[q] = inv[q]
      BY <2>1, Bounds DEF Deny, TypeOK
    <3> QED
      BY <3>1, <3>2 DEF OneTask, Others
  <2>2. CASE ~Deny(p)
    <3>1. inv' = inv /\ load[p].pc # "idle"
      BY <1>2, <2>2 DEF LoadStep, ServeFresh, FindStale, Miss, Authorize, NotModified,
         Modified, RevalidateFails, Load, LoadFails, Head, Check, Get, Insert, Undo
    <3>2. \A q \in Loads \ {p} : load'[q] = load[q]
      BY <1>2 DEF LoadStep, ServeFresh, FindStale, Miss, Authorize, Deny, NotModified,
         Modified, RevalidateFails, Load, LoadFails, Head, Check, Get, Insert, Undo,
         Go, Return, TypeOK
    <3> QED
      BY <3>1, <3>2 DEF OneTask
  <2> QED
    BY <2>1, <2>2
<1>3. ASSUME load' = load, NEW i \in Tasks, Invalidation(i) PROVE OneTask'
  <2>1. inv[i].pc # "idle"
    BY <1>3 DEF Invalidation, Stamp, Put, Scan, Evict, Invalidated
  <2>2. \A j \in Tasks \ {i} : inv'[j] = inv[j]
    BY <1>3 DEF Invalidation, Stamp, Put, Scan, Evict, Invalidated, TypeOK
  <2>3. inv[i] # IdleInv
    BY <2>1, IdleParts
  <2> QED
    BY <1>3, <2>2, <2>3, Bounds DEF OneTask
<1>4. ASSUME load' = load, NEW k \in Keys, Environment(k) PROVE OneTask'
  BY <1>4 DEF Environment, ExternalCommit, Drop, OneTask
<1>5. ASSUME load' = load, NEW k \in Keys, NEW w \in Writers,
             Commit(w, k) \/ CommitElsewhere(w, k) \/ Refresh(w, k)
      PROVE  OneTask'
  <2>1. \A p \in Loads : p \in Tasks \ {w}
    BY Bounds
  <2>2. Elsewhere(w)
    BY <1>5, WorldShapes DEF Started
  <2> QED
    BY <1>5, <2>1, <2>2 DEF OneTask, Elsewhere
<1> QED
  BY <1>1, <1>2, <1>3, <1>4, <1>5, OnlyLoadSteps

-----------------------------------------------------------------------------
(* The fence holds. *)

LEMMA FenceInit == Init => OneTask /\ GenerationsGrow /\ TimesPast /\ StoresApart /\ FenceHolds
<1> SUFFICES ASSUME Init
             PROVE  OneTask /\ GenerationsGrow /\ TimesPast /\ StoresApart /\ FenceHolds
  OBVIOUS
<1>1. /\ \A p \in Loads : load[p].pc = "idle"
      /\ \A i \in Tasks : inv[i] = IdleInv /\ inv[i].pc = "idle"
      /\ \A k \in Keys : entry[k] = NoEntry /\ finished[k] = 0
  BY IdleParts DEF Init
<1>2. OneTask /\ StoresApart
  BY <1>1 DEF OneTask, StoresApart
<1>3. TimesPast
  BY <1>1 DEF TimesPast, Init
<1>4. GenerationsGrow
  BY <1>1, KeyParts DEF GenerationsGrow, Init
<1>5. Live = {} /\ Claimed = {}
  BY <1>1 DEF Live, Claimed
<1>6. FenceHolds
  BY <1>1, <1>5 DEF FenceHolds, EntrySound
<1> QED
  BY <1>2, <1>3, <1>4, <1>6

LEMMA FenceNext ==
  ASSUME ~Overlap
  PROVE  CacheInv /\ [Next]_vars => CacheInv'
<1> SUFFICES ASSUME CacheInv, [Next]_vars PROVE CacheInv'
  OBVIOUS
<1>1. TypeOK' /\ Stages'
  BY CacheTypeNext DEF CacheInv
<1>2. CASE UNCHANGED vars
  <2>1. Quiet /\ entry' = entry /\ load' = load
    BY <1>2 DEF vars, Quiet, catalogVars, genVars
  <2>2. Gens' = Gens /\ Due' = Due /\ Past' = Past /\ now' = now /\ TimesPast'
    BY <2>1, QuietSame DEF CacheInv
  <2>3. OneTask' /\ StoresApart'
    BY <2>1 DEF CacheInv, OneTask, StoresApart, Quiet
  <2>4. GenerationsGrow'
    <3>1. \A p \in Loads : load'[p].pc # "idle" => Below(load'[p].snap, Gens'[load'[p].k])
      BY <2>1, <2>2 DEF CacheInv, GenerationsGrow
    <3> QED
      BY <2>1, <3>1, GrowthKept DEF CacheInv, Quiet
  <2>5. FenceHolds'
    <3>1. Live' = Live /\ RacedKeys' = RacedKeys
      BY <2>1, <2>2 DEF Live, Undoing, RacedKeys
    <3>2. Claimed' = Claimed
      BY <2>1, <3>1 DEF Claimed
    <3>3. \A p \in Live : load'[p] = load[p]
      BY <2>1
    <3> QED
      BY <2>1, <2>2, <3>1, <3>2, <3>3, FenceKept DEF CacheInv
  <2> QED
    BY <1>1, <2>2, <2>3, <2>4, <2>5 DEF CacheInv
<1>3. CASE Next
  <2>1. OneTask'
    BY <1>3, OneTaskKept DEF CacheInv
  <2>2. ASSUME NEW p \in Loads, NEW k \in Keys, Begin(p, k)
        PROVE  GenerationsGrow' /\ TimesPast' /\ StoresApart' /\ FenceHolds'
    BY <2>2, BeginKeeps DEF CacheInv
  <2>3. ASSUME NEW p \in Loads, LoadStep(p)
        PROVE  GenerationsGrow' /\ TimesPast' /\ StoresApart' /\ FenceHolds'
    BY <1>1, <2>3, LookupKeeps, FetchKeeps, CheckKeeps, GetKeeps, InsertKeeps, UndoKeeps,
       DenyKeeps DEF CacheInv, LoadStep
  <2>4. load' = load => StoresApart'
    BY DEF CacheInv, StoresApart
  <2>5. ASSUME load' = load, NEW i \in Tasks, Invalidation(i)
        PROVE  GenerationsGrow' /\ TimesPast' /\ StoresApart' /\ FenceHolds'
    BY <1>1, <2>4, <2>5, StampKeeps, PutKeeps, EvictionKeeps, InvalidatedKeeps
       DEF CacheInv, Invalidation
  <2>6. ASSUME load' = load, NEW k \in Keys, NEW w \in Writers,
               Commit(w, k) \/ CommitElsewhere(w, k) \/ Refresh(w, k)
        PROVE  GenerationsGrow' /\ TimesPast' /\ StoresApart' /\ FenceHolds'
    <3>1. w \in Tasks
      BY Bounds
    <3>2. UNCHANGED <<genVars, finished>> /\ entry' = entry /\ (now' = now \/ now' = now + 1)
      BY <2>6 DEF Commit, CommitElsewhere, Refresh, catalogVars
    <3>3. \E i \in Tasks : Started(i, now) \/ Started(i, now')
      <4>1. Commit(w, k) \/ CommitElsewhere(w, k) => now' = now + 1
        BY DEF Commit, CommitElsewhere
      <4> QED
        BY <2>6, <3>1, <4>1, WorldShapes DEF CacheInv
    <3> QED
      BY <1>1, <2>4, <2>6, <3>2, <3>3, WorldKeeps DEF CacheInv
  <2>7. ASSUME load' = load, NEW k \in Keys, Environment(k)
        PROVE  GenerationsGrow' /\ TimesPast' /\ StoresApart' /\ FenceHolds'
    <3>1. /\ UNCHANGED <<genVars, finished>> /\ inv' = inv /\ (now' = now \/ now' = now + 1)
          /\ \A j \in Keys : entry'[j] = entry[j] \/ entry'[j] = NoEntry
      BY <2>7 DEF Environment, ExternalCommit, Drop, catalogVars, CacheInv, TypeOK
    <3> QED
      BY <1>1, <2>4, <2>7, <3>1, WorldKeeps DEF CacheInv
  <2>8. GenerationsGrow' /\ TimesPast' /\ StoresApart' /\ FenceHolds'
    BY <1>3, <2>2, <2>3, <2>5, <2>6, <2>7, OnlyLoadSteps
  <2> QED
    BY <1>1, <2>1, <2>8 DEF CacheInv
<1> QED
  BY <1>2, <1>3

LEMMA FenceSuffices == CacheInv => NoLastingStaleness
<1> SUFFICES ASSUME CacheInv, NEW k \in Keys, Outdated(k),
                    entry[k].etag = NoTime \/ entry[k].etag <= entry[k].ver
             PROVE  \E p \in Loads : Raced(p, k)
  BY DEF NoLastingStaleness
<1>1. EntrySound(k) /\ entry[k] # NoEntry /\ entry[k].at < finished[k]
  BY DEF CacheInv, FenceHolds, Outdated
<1>2. ~Mistagged(entry[k])
  BY DEF Mistagged
<1>3. ~NotBefore(entry[k].at, Past[k])
  <2>1. entry[k].at \in Nat /\ finished[k] \in Nat
    <3>1. entry[k] \in Entries /\ finished[k] \in Times
      BY <1>1 DEF CacheInv, TypeOK
    <3> QED
      BY <3>1, EntryParts, Bounds
  <2>2. finished[k] \in Past[k]
    BY Finished
  <2> QED
    BY <1>1, <2>1, <2>2 DEF NotBefore
<1>4. PICK p \in Undoing : load[p].k = k
  BY <1>1, <1>2, <1>3 DEF EntrySound, RacedKeys
<1>5. Gens[k] = Generation(k)
  BY GenerationTypes DEF CacheInv
<1> QED
  BY <1>4, <1>5 DEF Undoing, Raced, GenerationChanged

\* The fence does what it is for, with any number of sessions, loads and
\* invalidations, full maps included: after a commit, a refresh or a denial has
\* finished its invalidation no older entry outlives the post-check of the load
\* that stored it.  Two bumps do not overlap, nor does a re-insert with another
\* store of its key (the model's Overlap).
THEOREM NoStalenessLasts ==
  ASSUME ~Overlap
  PROVE  Spec => []NoLastingStaleness
<1>1. Init => CacheInv
  BY CacheTypeInit, FenceInit DEF CacheInv
<1>2. CacheInv /\ [Next]_vars => CacheInv'
  BY FenceNext
<1>3. CacheInv => NoLastingStaleness
  BY FenceSuffices
<1> QED
  BY <1>1, <1>2, <1>3, PTL DEF Spec
=============================================================================
