---------------------------- MODULE MetadataCache ----------------------------
(***************************************************************************)
(* The table metadata cache every session of a coordinator shares, and the *)
(* lock-free fence that keeps a load from storing what a commit, a denial  *)
(* or a refresh has just evicted: an invalidation bumps a generation and   *)
(* then evicts; a store compares its snapshot of the generations before    *)
(* and after it writes and takes its entry out again when they changed.    *)
(*                                                                         *)
(* A load is a task p of Loads.  One step per access to the shared state:  *)
(*   begin -> lookup -> (served) | authorize | revalidate | load           *)
(*   store: check [-> get] -> insert -> undo [-> head, the ETag task]      *)
(* An invalidation is the task of a writer, of an admin refresh, or of the *)
(* load whose authorization was refused:                                   *)
(*   stamp -> put -> scan -> evict                                         *)
(*                                                                         *)
(* Time is the number of commits and denials the catalog has answered, so  *)
(* a copy of a table is as old as the time it was fetched at.              *)
(***************************************************************************)
EXTENDS Naturals, FiniteSets

CONSTANTS
  Tokens,      \* token fingerprints
  Tables,
  Loads,       \* load_table calls that may run at once
  Writers,     \* sessions that commit, and the admin refresh
  MaxKeys,     \* GENERATION_MAP_MAX_KEYS
  MaxTime,     \* bound: commits and denials
  MaxStamps,   \* bound: invalidations
  Overlap      \* whether two bumps, or a re-insert and another store of its
               \* key, may run inside each other

ASSUME CacheConstants ==
  /\ MaxKeys \in Nat \ {0}
  /\ MaxTime \in Nat
  /\ MaxStamps \in Nat
  /\ Overlap \in BOOLEAN
  /\ Loads \cap Writers = {}

Keys == Tokens \X Tables
TableOf(k) == k[2]
Times == 0..MaxTime
Stamps == 0..MaxStamps
Tasks == Loads \cup Writers

VARIABLES
  now,        \* commits and denials the catalog has answered
  changed,    \* catalog: when each table was last committed; its ETag
  entry,      \* TableMetadataCache.inner
  counter,    \* generation_counter
  global,     \* global_generation
  tableGen,   \* table_generations; 0 is an absent key
  keyGen,     \* key_generations; 0 is an absent key
  floor,      \* prune_floor
  load,       \* the load tasks
  inv,        \* the invalidations in flight
  finished    \* history: the time each key's last finished invalidation answered

vars == <<now, changed, entry, counter, global, tableGen,
          keyGen, floor, load, inv, finished>>
catalogVars == <<now, changed>>
genVars == <<counter, global, tableGen, keyGen, floor>>

NoTime == MaxTime + 1
NoEntry == [ver |-> NoTime]

\* CachedTableEntry: the version it holds, when that was known to be current
\* and its ETag (NoTime: none).  Whether the soft TTL has passed is left open.
Entries == [ver : Times, at : Times, etag : Times \cup {NoTime}]

\* CacheGeneration
Generations == [global : Stamps, table : Stamps, key : Stamps]

IdleLoad == [pc |-> "idle"]
LoadSteps == {"lookup", "authorize", "revalidate", "load", "check",
              "get", "insert", "undo", "head"}
\* What a store does: put a loaded table, re-insert the entry after a 304
\* (revalidate), or re-insert it with an ETag (update_etag).
StoreKinds == {"load", "touch", "etag"}
LoadTasks ==
  [pc : LoadSteps, k : Keys, snap : Generations, kind : StoreKinds, e : Entries]

IdleInv == [pc |-> "idle"]
Scopes == {"table", "key", "all"}
InvTasks ==
  [pc : {"stamp", "put", "scan", "evict"}, scope : Scopes, k : Keys,
   time : Times, stamp : Stamps, todo : SUBSET Keys]

\* The types of all the state.
TypeOK ==
  /\ now \in Times
  /\ changed \in [Tables -> Times]
  /\ entry \in [Keys -> Entries \cup {NoEntry}]
  /\ counter \in Stamps
  /\ global \in Stamps
  /\ tableGen \in [Tables -> Stamps]
  /\ keyGen \in [Keys -> Stamps]
  /\ floor \in Stamps
  /\ load \in [Loads -> LoadTasks \cup {IdleLoad}]
  /\ inv \in [Tasks -> InvTasks \cup {IdleInv}]
  /\ finished \in [Keys -> Times]

Blank == [ver |-> 0, at |-> 0, etag |-> NoTime]

Init ==
  /\ now = 0
  /\ changed = [t \in Tables |-> 0]
  /\ entry = [k \in Keys |-> NoEntry]
  /\ counter = 0
  /\ global = 0
  /\ tableGen = [t \in Tables |-> 0]
  /\ keyGen = [k \in Keys |-> 0]
  /\ floor = 0
  /\ load = [p \in Loads |-> IdleLoad]
  /\ inv = [i \in Tasks |-> IdleInv]
  /\ finished = [k \in Keys |-> 0]

-----------------------------------------------------------------------------
(* Generations. *)

\* lookup_generation: an absent key reads the prune floor.
OrFloor(g) == IF g = 0 THEN floor ELSE g

\* generation: the three counters that can evict k.
Generation(k) ==
  [global |-> global, table |-> OrFloor(tableGen[TableOf(k)]), key |-> OrFloor(keyGen[k])]

GenerationChanged(p) == Generation(load[p].k) # load[p].snap

\* The keys an invalidation is about.
Covers(i) ==
  CASE i.scope = "table" -> {k \in Keys : TableOf(k) = TableOf(i.k)}
    [] i.scope = "key" -> {i.k}
    [] i.scope = "all" -> Keys

Invalidating(scope, k, time) ==
  [pc |-> "stamp", scope |-> scope, k |-> k, time |-> time, stamp |-> 0, todo |-> {}]

Size(map) == Cardinality({x \in DOMAIN map : map[x] # 0})
Cleared(map) == [x \in DOMAIN map |-> 0]

\* bump_generation up to the insert: the stamp, and the prune of a full map,
\* which raises the floor before it clears.  invalidate_all only takes a stamp.
Stamp(i) ==
  /\ inv[i].pc = "stamp"
  /\ counter < MaxStamps
  /\ Overlap \/ \A j \in Tasks : inv[j].pc # "put"
  /\ counter' = counter + 1
  /\ inv' = [inv EXCEPT ![i].pc = "put", ![i].stamp = counter + 1]
  /\ LET fullTable == inv[i].scope = "table" /\ Size(tableGen) >= MaxKeys
         fullKey == inv[i].scope = "key" /\ Size(keyGen) >= MaxKeys
     IN /\ floor' = IF fullTable \/ fullKey THEN counter + 1 ELSE floor
        /\ tableGen' = IF fullTable THEN Cleared(tableGen) ELSE tableGen
        /\ keyGen' = IF fullKey THEN Cleared(keyGen) ELSE keyGen
  /\ UNCHANGED <<catalogVars, entry, global, load, finished>>

\* The insert of the stamp: from here on older snapshots are refused.
Put(i) ==
  /\ inv[i].pc = "put"
  /\ inv' = [inv EXCEPT ![i].pc = "scan"]
  /\ CASE inv[i].scope = "table" ->
            /\ tableGen' = [tableGen EXCEPT ![TableOf(inv[i].k)] = inv[i].stamp]
            /\ UNCHANGED <<keyGen, global>>
       [] inv[i].scope = "key" ->
            /\ keyGen' = [keyGen EXCEPT ![inv[i].k] = inv[i].stamp]
            /\ UNCHANGED <<tableGen, global>>
       [] inv[i].scope = "all" ->
            /\ global' = inv[i].stamp
            /\ UNCHANGED <<tableGen, keyGen>>
  /\ UNCHANGED <<catalogVars, entry, counter, floor, load, finished>>

\* select_keys_for_suffix: the entries there are now; what is stored later is
\* the fence's business.
Scan(i) ==
  /\ inv[i].pc = "scan"
  /\ inv' = [inv EXCEPT ![i].pc = "evict",
                        ![i].todo = {k \in Covers(inv[i]) : entry[k] # NoEntry}]
  /\ UNCHANGED <<catalogVars, entry, genVars, load, finished>>

Evict(i) ==
  /\ inv[i].pc = "evict"
  /\ \E k \in inv[i].todo :
       /\ entry' = [entry EXCEPT ![k] = NoEntry]
       /\ inv' = [inv EXCEPT ![i].todo = @ \ {k}]
  /\ UNCHANGED <<catalogVars, genVars, load, finished>>

Later(a, b) == IF a < b THEN b ELSE a

\* The end of an invalidation.
Invalidated(i) ==
  /\ inv[i].pc = "evict"
  /\ inv[i].todo = {}
  /\ inv' = [inv EXCEPT ![i] = IdleInv]
  /\ finished' = [k \in Keys |-> IF k \in Covers(inv[i])
                                 THEN Later(finished[k], inv[i].time)
                                 ELSE finished[k]]
  /\ UNCHANGED <<catalogVars, entry, genVars, load>>

-----------------------------------------------------------------------------
(* What the sessions and the catalog do. *)

\* A commit of this coordinator: the catalog applies it, then the session
\* invalidates the table for every token.
Commit(w, k) ==
  /\ inv[w] = IdleInv
  /\ now < MaxTime
  /\ now' = now + 1
  /\ changed' = [changed EXCEPT ![TableOf(k)] = now + 1]
  /\ inv' = [inv EXCEPT ![w] = Invalidating("table", k, now + 1)]
  /\ UNCHANGED <<entry, genVars, load, finished>>

\* A commit the catalog refused is invalidated like one that it applied; a
\* commit to a transaction's branch leaves main alone and evicts the writer's
\* own entry.
CommitElsewhere(w, k) ==
  /\ inv[w] = IdleInv
  /\ now < MaxTime
  /\ now' = now + 1
  /\ \E scope \in {"table", "key"} :
       inv' = [inv EXCEPT ![w] = Invalidating(scope, k, now + 1)]
  /\ UNCHANGED <<changed, entry, genVars, load, finished>>

\* POST /api/v1/catalogs/refresh
Refresh(w, k) ==
  /\ inv[w] = IdleInv
  /\ inv' = [inv EXCEPT ![w] = Invalidating("all", k, now)]
  /\ UNCHANGED <<catalogVars, entry, genVars, load, finished>>

\* Another engine or coordinator commits: nobody here is told.
ExternalCommit(t) ==
  /\ now < MaxTime
  /\ now' = now + 1
  /\ changed' = [changed EXCEPT ![t] = now + 1]
  /\ UNCHANGED <<entry, genVars, load, inv, finished>>

\* Capacity, the hard TTL, or usable_entry on vended credentials near expiry.
Drop(k) ==
  /\ entry[k] # NoEntry
  /\ entry' = [entry EXCEPT ![k] = NoEntry]
  /\ UNCHANGED <<catalogVars, genVars, load, inv, finished>>

-----------------------------------------------------------------------------
(* load_table_inner. *)

Go(p, step) == load' = [load EXCEPT ![p].pc = step]
Return(p) == load' = [load EXCEPT ![p] = IdleLoad]

\* The snapshot of the generations, before any fetch.
Begin(p, k) ==
  /\ load[p] = IdleLoad
  /\ inv[p] = IdleInv
  /\ load' = [load EXCEPT ![p] =
       [pc |-> "lookup", k |-> k, snap |-> Generation(k), kind |-> "load", e |-> Blank]]
  /\ UNCHANGED <<catalogVars, entry, genVars, inv, finished>>

\* get_fresh: a hit inside the soft TTL is returned at once when the key was
\* authorized inside the recheck window (which is left open), and after a new
\* check otherwise.
ServeFresh(p) ==
  /\ load[p].pc = "lookup"
  /\ entry[load[p].k] # NoEntry
  /\ Return(p) \/ Go(p, "authorize")
  /\ UNCHANGED <<catalogVars, entry, genVars, inv, finished>>

\* get_stale with an ETag.
FindStale(p) ==
  /\ load[p].pc = "lookup"
  /\ entry[load[p].k] # NoEntry
  /\ entry[load[p].k].etag # NoTime
  /\ load' = [load EXCEPT ![p].pc = "revalidate",
                          ![p].e = [Blank EXCEPT !.etag = entry[load[p].k].etag]]
  /\ UNCHANGED <<catalogVars, entry, genVars, inv, finished>>

Miss(p) ==
  /\ load[p].pc = "lookup"
  /\ \/ entry[load[p].k] = NoEntry
     \/ entry[load[p].k] # NoEntry /\ entry[load[p].k].etag = NoTime
  /\ Go(p, "load")
  /\ UNCHANGED <<catalogVars, entry, genVars, inv, finished>>

\* authorize_table_access: HEAD loadTable.  It succeeds or fails without a
\* verdict; in both cases the load returns and the cache is left alone.
Authorize(p) ==
  /\ load[p].pc = "authorize"
  /\ Return(p)
  /\ UNCHANGED <<catalogVars, entry, genVars, inv, finished>>

\* A denial (401, 403, 404): the token lost the table since it was cached.  It
\* invalidates the key; the load returns the error when that is done.
Deny(p) ==
  /\ load[p].pc = "authorize"
  /\ now < MaxTime
  /\ now' = now + 1
  /\ Return(p)
  /\ inv' = [inv EXCEPT ![p] = Invalidating("key", load[p].k, now + 1)]
  /\ UNCHANGED <<changed, entry, genVars, finished>>

\* The conditional GET.  304: the entry is current as of now and the caller
\* gets it, whatever revalidate then finds.  Changed: the answer's ETag is
\* kept for the reload.  Refused or failed: the normal load decides.
NotModified(p) ==
  /\ load[p].pc = "revalidate"
  /\ changed[TableOf(load[p].k)] = load[p].e.etag
  /\ load' = [load EXCEPT ![p].pc = "check", ![p].kind = "touch",
                          ![p].e = [Blank EXCEPT !.at = now, !.ver = changed[TableOf(load[p].k)]]]
  /\ UNCHANGED <<catalogVars, entry, genVars, inv, finished>>

Modified(p) ==
  /\ load[p].pc = "revalidate"
  /\ changed[TableOf(load[p].k)] # load[p].e.etag
  /\ load' = [load EXCEPT ![p].pc = "load",
                          ![p].e = [Blank EXCEPT !.etag = changed[TableOf(load[p].k)]]]
  /\ UNCHANGED <<catalogVars, entry, genVars, inv, finished>>

RevalidateFails(p) ==
  /\ load[p].pc = "revalidate"
  /\ load' = [load EXCEPT ![p].pc = "load", ![p].e = Blank]
  /\ UNCHANGED <<catalogVars, entry, genVars, inv, finished>>

\* The full load of the table.
Load(p) ==
  /\ load[p].pc = "load"
  /\ load' = [load EXCEPT ![p].pc = "check",
                          ![p].e.ver = changed[TableOf(load[p].k)],
                          ![p].e.at = now]
  /\ UNCHANGED <<catalogVars, entry, genVars, inv, finished>>

LoadFails(p) ==
  /\ load[p].pc = "load"
  /\ Return(p)
  /\ UNCHANGED <<catalogVars, entry, genVars, inv, finished>>

\* The HEAD of the background task: the ETag of what the table is by now,
\* none when it fails.
Head(p) ==
  /\ load[p].pc = "head"
  /\ \E tag \in {changed[TableOf(load[p].k)], NoTime} :
       load' = [load EXCEPT ![p].pc = "check", ![p].kind = "etag", ![p].e.etag = tag]
  /\ UNCHANGED <<catalogVars, entry, genVars, inv, finished>>

-----------------------------------------------------------------------------
(* insert_if_generation, revalidate and update_etag. *)

Storing(q, k) == load[q].pc \in {"insert", "undo"} /\ load[q].k = k
Reinserting(q, k) ==
  load[q].pc \in {"get", "insert", "undo"} /\ load[q].k = k /\ load[q].kind # "load"

MayCheck(p) ==
  \/ Overlap
  \/ \A q \in Loads \ {p} :
       /\ ~Reinserting(q, load[p].k)
       /\ load[p].kind # "load" => ~Storing(q, load[p].k)

\* The check before: a changed generation ends the store.
Check(p) ==
  /\ load[p].pc = "check"
  /\ MayCheck(p)
  /\ IF GenerationChanged(p) THEN Return(p)
     ELSE Go(p, IF load[p].kind = "load" THEN "insert" ELSE "get")
  /\ UNCHANGED <<catalogVars, entry, genVars, inv, finished>>

\* revalidate and update_etag read the entry they are about to put back.
Get(p) ==
  /\ load[p].pc = "get"
  /\ LET old == entry[load[p].k] IN
     IF old = NoEntry THEN Return(p)
     ELSE load' = [load EXCEPT ![p].pc = "insert",
            ![p].e = CASE load[p].kind = "etag" -> [old EXCEPT !.etag = load[p].e.etag]
                       [] load[p].kind = "touch" ->
                            IF old.ver < load[p].e.ver THEN old
                            ELSE [old EXCEPT !.at = Later(old.at, load[p].e.at)]]
  /\ UNCHANGED <<catalogVars, entry, genVars, inv, finished>>

Insert(p) ==
  /\ load[p].pc = "insert"
  /\ entry' = [entry EXCEPT ![load[p].k] = load[p].e]
  /\ load' = [load EXCEPT ![p].pc = "undo",
                          ![p].e = [Blank EXCEPT !.etag = load[p].e.etag]]
  /\ UNCHANGED <<catalogVars, genVars, inv, finished>>

\* A slip: no check after the insert.
UndoNothing(p) ==
  /\ load[p].pc = "undo"
  /\ IF load[p].kind = "load" /\ load[p].e.etag = NoTime
     THEN Go(p, "head") ELSE Return(p)
  /\ UNCHANGED <<catalogVars, entry, genVars, inv, finished>>

\* undo_if_raced: the check after.  A cold load that stays cached spawns the
\* task that fetches its ETag.
Undo(p) ==
  /\ load[p].pc = "undo"
  /\ IF GenerationChanged(p)
     THEN /\ entry' = [entry EXCEPT ![load[p].k] = NoEntry]
          /\ Return(p)
     ELSE /\ UNCHANGED entry
          /\ IF load[p].kind = "load" /\ load[p].e.etag = NoTime
             THEN Go(p, "head") ELSE Return(p)
  /\ UNCHANGED <<catalogVars, genVars, inv, finished>>

-----------------------------------------------------------------------------

Invalidation(i) == Stamp(i) \/ Put(i) \/ Scan(i) \/ Evict(i) \/ Invalidated(i)

LoadStep(p) ==
  \/ ServeFresh(p) \/ FindStale(p) \/ Miss(p)
  \/ Authorize(p) \/ Deny(p)
  \/ NotModified(p) \/ Modified(p) \/ RevalidateFails(p)
  \/ Load(p) \/ LoadFails(p) \/ Head(p)
  \/ Check(p) \/ Get(p) \/ Insert(p) \/ Undo(p)

Environment(k) ==
  ExternalCommit(TableOf(k)) \/ Drop(k)

Next ==
  \/ \E w \in Writers, k \in Keys : Commit(w, k) \/ CommitElsewhere(w, k) \/ Refresh(w, k)
  \/ \E k \in Keys : Environment(k)
  \/ \E p \in Loads, k \in Keys : Begin(p, k)
  \/ \E p \in Loads : LoadStep(p)
  \/ \E i \in Tasks : Invalidation(i)

Spec == Init /\ [][Next]_vars

-----------------------------------------------------------------------------

\* An entry known to be current only before a change whose invalidation is
\* over.
Outdated(k) == entry[k] # NoEntry /\ entry[k].at < finished[k]

Raced(p, k) == load[p].pc = "undo" /\ load[p].k = k /\ GenerationChanged(p)

\* What the fence is for: once a commit, a refresh or a denial has finished
\* its invalidation, an entry from before it is only there between the insert
\* and the post-check of the load that stored it.  The ETag of an entry must
\* not be newer than its table, or a 304 vouches for the wrong version.
NoLastingStaleness ==
  \A k \in Keys :
    Outdated(k) /\ (entry[k].etag = NoTime \/ entry[k].etag <= entry[k].ver)
      => \E p \in Loads : Raced(p, k)
=============================================================================
