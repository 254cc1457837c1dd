----------------------------- MODULE AuditExport -----------------------------
(***************************************************************************)
(* The audit log of a coordinator and its export.  One writer thread       *)
(* stamps every record with a sequence number and the hash of its          *)
(* predecessor, and writes it to the native log and to the export spool    *)
(* through two buffers; the shipper reads the spool, sends batches to a    *)
(* collector, and keeps in a small file the highest number it has shipped. *)
(* After a restart the chain goes on from the native log and the shipper   *)
(* from the cursor file.                                                   *)
(*                                                                         *)
(* Writer:   idle -> batch -> spool -> rotate [-> note -> notespool] -> .. *)
(* Shipper:  idle [-> read] -> export -> truncate -> write -> idle         *)
(*                                                                         *)
(* A record is its id, which stands for its hash.  Files are counted in    *)
(* lines, not bytes.                                                       *)
(***************************************************************************)
EXTENDS Naturals, Sequences, FiniteSets

CONSTANTS
  MaxRecords,   \* bound: records stamped
  MaxFile,      \* max_file_bytes
  MaxFiles,     \* max_files: rotated generations to keep
  SpoolCap,     \* max_spool_bytes
  CompactAt,    \* compact_at_bytes
  BatchMax,     \* batch_max
  StartAts,     \* values of start_at to consider
  MaxFaults     \* bound: crashes, lost answers, failed cursor writes

ASSUME AuditConstants ==
  /\ MaxRecords \in Nat
  /\ {MaxFile, MaxFiles, SpoolCap, CompactAt, BatchMax} \subseteq Nat \ {0}
  /\ StartAts \subseteq {"beginning", "now"}
  /\ MaxFaults \in Nat

Ids == 1..MaxRecords
Seqs == 0..MaxRecords
NoSeq == MaxRecords + 1
Genesis == 0
Broken == MaxRecords + 1

Record == [id : Ids, seq : Seqs, prev : Seqs \cup {Broken}]
\* A line that does not parse: half a record and the one written after it.
Garbage == [id |-> 0, seq |-> 0, prev |-> 0]
Line == Record \cup {Garbage}

VARIABLES
  native,     \* the native log: rotated files, oldest first, then the active one
  nativeTorn, \* the active file ends in half a line
  nbuf,       \* the writer's buffer for it
  chain,      \* HashChain: next_seq, prev_hash
  wpc,        \* where the writer is; "down" when the process is not running
  spool,      \* the export spool
  spoolTorn,  \* it ends in half a line
  sbuf,       \* the writer's buffer for it
  offset,     \* committed_offset
  cursor,     \* SeqCursor.last; NoSeq when nothing was shipped
  disk,       \* the cursor file; NoSeq when it is missing or empty
  ship,       \* the shipper: where it is, its batch and where that ends
  startAt,    \* start_at
  received,   \* the records the collector has
  stamped,    \* how many records were stamped
  spooled,    \* history: records that were a line of the spool
  dropped,    \* spool_dropped_records_total
  skipped,    \* history: records passed over by a start at Now
  whole,      \* history: records stamped before the chain could not go on as it was
  faults      \* faults left

writerVars == <<native, nativeTorn, nbuf, chain, wpc>>
spoolVars == <<spool, spoolTorn, sbuf>>
cursorVars == <<offset, cursor, disk>>
historyVars == <<spooled, dropped, skipped, whole>>
vars == <<writerVars, spoolVars, cursorVars, ship, startAt, received, stamped,
          historyVars, faults>>

IdleShip == [pc |-> "idle", batch |-> {}, end |-> 0, last |-> 0]

Numbers == 0..MaxRecords

\* The types of all the state.
TypeOK ==
  /\ native \in Seq(Seq(Line)) /\ native # <<>>
  /\ nativeTorn \in BOOLEAN
  /\ nbuf \in Seq(Record)
  /\ chain \in [seq : Seqs, prev : Seqs \cup {Broken}]
  /\ wpc \in {"down", "idle", "batch", "spool", "rotate", "note", "notespool"}
  /\ spool \in Seq(Line)
  /\ spoolTorn \in BOOLEAN
  /\ sbuf \in Seq(Record)
  /\ offset \in 0..Len(spool)
  /\ cursor \in Seqs \cup {NoSeq}
  /\ disk \in Seqs \cup {NoSeq}
  /\ ship.pc \in {"idle", "read", "export", "truncate", "write"}
  /\ ship.batch \subseteq Ids /\ ship.end \in 0..Len(spool) /\ ship.last \in Seqs
  /\ startAt \in StartAts
  /\ received \subseteq Ids
  /\ stamped \in Numbers
  /\ spooled \subseteq Ids /\ dropped \subseteq Ids /\ skipped \subseteq Ids
  /\ whole \in Numbers \cup {NoSeq}
  /\ faults \in 0..MaxFaults

Init ==
  /\ native = << <<>> >>
  /\ nativeTorn = FALSE
  /\ nbuf = <<>>
  /\ chain = [seq |-> 0, prev |-> Genesis]
  /\ wpc = "idle"
  /\ spool = <<>>
  /\ spoolTorn = FALSE
  /\ sbuf = <<>>
  /\ offset = 0
  /\ cursor = NoSeq
  /\ disk = NoSeq
  /\ ship = IdleShip
  /\ startAt \in StartAts
  /\ received = {}
  /\ stamped = 0
  /\ spooled = {}
  /\ dropped = {}
  /\ skipped = {}
  /\ whole = NoSeq
  /\ faults = MaxFaults

-----------------------------------------------------------------------------
(* Files. *)

Active == native[Len(native)]
InFile(file) == {file[i].id : i \in DOMAIN file} \ {0}
InNative == UNION {InFile(native[i]) : i \in DOMAIN native}

\* Lines appended to a file that may end in half a line: the first one is
\* glued to it.
Appended(file, torn, lines) ==
  IF torn /\ lines # <<>> THEN file \o <<Garbage>> \o Tail(lines) ELSE file \o lines

WithActive(file) == [native EXCEPT ![Len(native)] = file]

-----------------------------------------------------------------------------
(* The writer thread. *)

\* HashChain::stamp, and the record into both buffers (write_event).
Stamp(c) ==
  LET record == [id |-> stamped + 1, seq |-> c.seq, prev |-> c.prev]
  IN /\ stamped < MaxRecords
     /\ stamped' = stamped + 1
     /\ chain' = [seq |-> c.seq + 1, prev |-> record.id]
     /\ nbuf' = Append(nbuf, record)
     /\ sbuf' = Append(sbuf, record)

\* A message is received; more are taken into the same batch.
Write ==
  /\ wpc \in {"idle", "batch"}
  /\ Stamp(chain)
  /\ wpc' = "batch"
  /\ UNCHANGED <<native, nativeTorn, spool, spoolTorn, cursorVars, ship, startAt,
                 received, historyVars, faults>>

\* flush_sinks: the native log first, then the spool.
FlushNative ==
  /\ wpc \in {"batch", "note"}
  /\ native' = WithActive(Appended(Active, nativeTorn, nbuf))
  /\ nativeTorn' = FALSE
  /\ nbuf' = <<>>
  /\ wpc' = IF wpc = "batch" THEN "spool" ELSE "notespool"
  /\ UNCHANGED <<chain, spoolVars, cursorVars, ship, startAt, received, stamped,
                 historyVars, faults>>

\* The spool's buffer to the file, and what became a line of it.
FlushedSpool == Appended(spool, spoolTorn, sbuf)

FlushSpool ==
  /\ wpc \in {"spool", "notespool"}
  /\ spool' = FlushedSpool
  /\ spooled' = spooled \cup InFile(FlushedSpool)
  /\ spoolTorn' = (spoolTorn /\ sbuf = <<>>)
  /\ sbuf' = <<>>
  /\ wpc' = IF wpc = "spool" THEN "rotate" ELSE "idle"
  /\ UNCHANGED <<native, nativeTorn, nbuf, chain, cursorVars, ship, startAt,
                 received, stamped, dropped, skipped, whole, faults>>

\* maybe_rotate and prune_for_free_space, which deletes `extra` more of the
\* oldest generations but never the newest; a note of what was deleted is
\* stamped into the chain.
Rotate(extra) ==
  /\ wpc = "rotate"
  /\ LET full == Len(Active) >= MaxFile
         files == IF full THEN Append(native, <<>>) ELSE native
         rotated == Len(files) - 1
         excess == IF full /\ rotated > MaxFiles THEN rotated - MaxFiles ELSE 0
         gone == excess + extra
     IN /\ extra > 0 => gone < rotated
        /\ native' = SubSeq(files, gone + 1, Len(files))
        /\ IF gone > 0 THEN Stamp(chain) /\ wpc' = "note"
           ELSE wpc' = "idle" /\ UNCHANGED <<nbuf, sbuf, chain, stamped>>
  /\ UNCHANGED <<nativeTorn, spool, spoolTorn, cursorVars, ship, startAt,
                 received, historyVars, faults>>

-----------------------------------------------------------------------------
(* The shipper: ship_once. *)

\* A slip: nothing shipped is taken for record 0 shipped.
CoveredByZero(last, seq) == seq <= (IF last = NoSeq THEN 0 ELSE last)

\* SeqCursor::covers
CoveredBy(last, seq) == last # NoSeq /\ seq <= last

Unshipped(i) == spool[i] # Garbage /\ ~CoveredBy(cursor, spool[i].seq)
\* A slip: lines that are covered or do not parse end the pass.
FreshHead == {i \in (offset + 1)..Len(spool) : \A j \in (offset + 1)..i : Unshipped(j)}

\* The lines of the spool a pass from the committed offset would ship.
Fresh == {i \in (offset + 1)..Len(spool) : Unshipped(i)}

Running == wpc # "down"

\* enforce_cap, plan_trim and trim_head: shipped lines go first, then the
\* oldest others down to half the cap; trim_head flushes the writer's buffer.
Trim ==
  /\ Running
  /\ ship.pc = "idle"
  /\ Len(spool) > SpoolCap
  /\ LET len == Len(spool)
         cut == IF len - offset > SpoolCap THEN len - SpoolCap \div 2 ELSE offset
     IN /\ spool' = SubSeq(FlushedSpool, cut + 1, Len(FlushedSpool))
        /\ offset' = IF offset > cut THEN offset - cut ELSE 0
        /\ dropped' = dropped \cup {spool[i].id : i \in {j \in Fresh : j <= cut}}
  /\ spooled' = spooled \cup InFile(FlushedSpool)
  /\ spoolTorn' = (spoolTorn /\ sbuf = <<>>)
  /\ sbuf' = <<>>
  /\ ship' = [ship EXCEPT !.pc = "read"]
  /\ UNCHANGED <<writerVars, cursor, disk, startAt, received, stamped, skipped,
                 whole, faults>>

MayRead == ship.pc = "read" \/ (ship.pc = "idle" /\ Len(spool) <= SpoolCap)

\* The highest of some numbers.
Highest(last, seqs) == last \in seqs /\ \A seq \in seqs : seq <= last

\* Read whole lines until the batch is full, or to the end; lines that are
\* covered or do not parse are passed over.
Read ==
  /\ Running
  /\ MayRead
  /\ Fresh # {}
  /\ \E end \in 1..Len(spool) :
       LET lines == {i \in Fresh : i <= end}
       IN /\ \/ Cardinality(lines) = BatchMax /\ end \in lines
             \/ Cardinality(lines) < BatchMax /\ end = Len(spool)
          /\ \E last \in Seqs :
               /\ Highest(last, {spool[i].seq : i \in lines})
               /\ ship' = [pc |-> "export", batch |-> {spool[i].id : i \in lines},
                           end |-> end, last |-> last]
  /\ UNCHANGED <<writerVars, spoolVars, cursorVars, startAt, received, stamped,
                 historyVars, faults>>

\* A pass that finds nothing empties a spool that is shipped to its end
\* (maybe_compact, compact_if_drained).
ReadNothing ==
  /\ Running
  /\ MayRead
  /\ Fresh = {}
  /\ ship' = IdleShip
  /\ IF Len(spool) >= CompactAt /\ offset = Len(spool) /\ ~spoolTorn
     THEN spool' = <<>> /\ offset' = 0
     ELSE UNCHANGED <<spool, offset>>
  /\ UNCHANGED <<writerVars, spoolTorn, sbuf, cursor, disk, startAt, received,
                 stamped, historyVars, faults>>

\* export_batch: accepted, refused, or accepted with the answer lost.
ExportOk ==
  /\ ship.pc = "export"
  /\ received' = received \cup ship.batch
  /\ ship' = [ship EXCEPT !.pc = "truncate"]
  /\ UNCHANGED <<writerVars, spoolVars, cursorVars, startAt, stamped, historyVars, faults>>

ExportFails ==
  /\ ship.pc = "export"
  /\ ship' = IdleShip
  /\ UNCHANGED <<writerVars, spoolVars, cursorVars, startAt, received, stamped,
                 historyVars, faults>>

ExportUnanswered ==
  /\ ship.pc = "export"
  /\ faults > 0
  /\ faults' = faults - 1
  /\ received' = received \cup ship.batch
  /\ ship' = IdleShip
  /\ UNCHANGED <<writerVars, spoolVars, cursorVars, startAt, stamped, historyVars>>

\* SeqCursor::advance_to: the file is truncated, then written and synced.
Truncate ==
  /\ ship.pc = "truncate"
  /\ disk' = NoSeq
  /\ ship' = [ship EXCEPT !.pc = "write"]
  /\ UNCHANGED <<writerVars, spoolVars, offset, cursor, startAt, received, stamped,
                 historyVars, faults>>

Advance ==
  /\ ship.pc = "write"
  /\ disk' = ship.last
  /\ cursor' = ship.last
  /\ offset' = ship.end
  /\ ship' = IdleShip
  /\ UNCHANGED <<writerVars, spoolVars, startAt, received, stamped, historyVars, faults>>

\* The cursor file cannot be written: the offset moves on all the same.
AdvanceFails ==
  /\ ship.pc \in {"truncate", "write"}
  /\ faults > 0
  /\ faults' = faults - 1
  /\ offset' = ship.end
  /\ ship' = IdleShip
  /\ UNCHANGED <<writerVars, spoolVars, cursor, disk, startAt, received, stamped,
                 historyVars>>

-----------------------------------------------------------------------------
(* Crash and restart. *)

\* Whether the numbers may start again, or be given twice: a crash left half
\* a line or the spool ahead of the log, or a restart did not find the end of
\* the log.  The records stamped before the first time are the whole ones.
ragged == whole # NoSeq
Breaks == whole' = IF ragged THEN whole ELSE stamped

\* The process stops.  `kept` and `half` say what of each buffer had already
\* been spilled to its file: some whole lines and perhaps half of one more.
Crash(nKept, nHalf, sKept, sHalf) ==
  /\ Running
  /\ faults > 0
  /\ faults' = faults - 1
  /\ nKept \in 0..Len(nbuf) /\ (nHalf => nKept < Len(nbuf))
  /\ sKept \in 0..Len(sbuf) /\ (sHalf => sKept < Len(sbuf))
  /\ LET nLines == SubSeq(nbuf, 1, nKept)
         sLines == SubSeq(sbuf, 1, sKept)
     IN /\ native' = WithActive(Appended(Active, nativeTorn, nLines))
        /\ nativeTorn' = (nHalf \/ (nativeTorn /\ nLines = <<>>))
        /\ spool' = Appended(spool, spoolTorn, sLines)
        /\ spoolTorn' = (sHalf \/ (spoolTorn /\ sLines = <<>>))
        /\ spooled' = spooled \cup InFile(spool')
        /\ IF nHalf \/ sHalf \/ spooled' \cap (InFile(nbuf) \ InFile(nLines)) # {}
           THEN Breaks ELSE UNCHANGED whole
  /\ wpc' = "down"
  /\ nbuf' = <<>>
  /\ sbuf' = <<>>
  /\ chain' = [seq |-> 0, prev |-> Genesis]
  /\ offset' = 0
  /\ cursor' = NoSeq
  /\ ship' = IdleShip
  /\ UNCHANGED <<disk, startAt, received, stamped, dropped, skipped>>

\* A slip: only the active file is looked at.
TipActive == IF Active # <<>> THEN Active[Len(Active)] ELSE [id |-> Genesis]

\* resume_chain_from_path: the last line of the active file, or of the newest
\* rotated one when the active file is empty.
Tip ==
  IF Active # <<>> THEN Active[Len(Active)]
  ELSE IF Len(native) > 1 THEN native[Len(native) - 1][Len(native[Len(native) - 1])]
  ELSE [id |-> Genesis]

TornTip == nativeTorn \/ Tip = Garbage

\* OtlpLogShipper::new: the cursor is what the file says; with start_at Now
\* and no cursor the spool is passed over.
ResumeShipper ==
  LET seqs == {spool[i].seq : i \in {j \in DOMAIN spool : spool[j] # Garbage}}
  IN IF startAt = "now" /\ disk = NoSeq
     THEN /\ offset' = Len(spool)
          /\ IF seqs = {} THEN cursor' = NoSeq ELSE cursor' \in Seqs /\ Highest(cursor', seqs)
          /\ disk' = cursor'
          /\ skipped' = skipped \cup InFile(spool)
     ELSE offset' = 0 /\ cursor' = disk /\ UNCHANGED <<disk, skipped>>

Restart ==
  /\ wpc = "down"
  /\ ~TornTip
  /\ chain' = IF Tip.id = Genesis THEN [seq |-> 0, prev |-> Genesis]
              ELSE [seq |-> Tip.seq + 1, prev |-> Tip.id]
  /\ wpc' = "idle"
  /\ ResumeShipper
  /\ UNCHANGED <<native, nativeTorn, nbuf, spoolVars, ship, startAt, received, stamped,
                 spooled, dropped, whole, faults>>

\* The last line does not parse, or read_last_nonempty_line does not get it:
\* it is longer than the 64 KiB that are read, they start inside a character,
\* or the file cannot be read.  A new segment whose first record says so, left
\* in the buffers until the next message.
RestartBroken ==
  /\ wpc = "down"
  /\ Breaks
  /\ Stamp([seq |-> 0, prev |-> Broken])
  /\ wpc' = "idle"
  /\ ResumeShipper
  /\ UNCHANGED <<native, nativeTorn, spool, spoolTorn, ship, startAt, received,
                 spooled, dropped, faults>>

-----------------------------------------------------------------------------

Writer ==
  \/ Write \/ FlushNative \/ FlushSpool
  \/ \E extra \in 0..MaxRecords : Rotate(extra)

Shipper ==
  \/ Trim \/ Read \/ ReadNothing
  \/ ExportOk \/ ExportFails \/ ExportUnanswered
  \/ Truncate \/ Advance \/ AdvanceFails

Next ==
  \/ Writer
  \/ Shipper
  \/ Restart
  \/ RestartBroken
  \/ \E nKept, sKept \in Numbers, nHalf, sHalf \in BOOLEAN :
       Crash(nKept, nHalf, sKept, sHalf)

Spec == Init /\ [][Next]_vars

\* The threads run; the collector is not down forever; the process is
\* restarted.
Fairness ==
  /\ WF_vars(FlushNative) /\ WF_vars(FlushSpool)
  /\ WF_vars(Shipper)
  /\ SF_vars(ExportOk)
  /\ WF_vars(Restart \/ RestartBroken)

FairSpec == Spec /\ Fairness

-----------------------------------------------------------------------------

\* Two neighbouring lines of the log, in one file or across a rotation.
Follows(a, b) == b.prev = Broken \/ (b.seq = a.seq + 1 /\ b.prev = a.id)

\* verify_audit_bytes and link_rotated_reports accept the log wherever no
\* line was torn: records follow their predecessor or open a BROKEN segment,
\* over restarts, rotations and deleted generations.
ChainVerifies ==
  /\ \A f \in DOMAIN native : \A i \in 2..Len(native[f]) :
       LET a == native[f][i - 1]  b == native[f][i]
       IN Garbage \notin {a, b} => Follows(a, b)
  /\ \A f \in DOMAIN native : f > 1 /\ native[f] # <<>> =>
       LET a == native[f - 1][Len(native[f - 1])]  b == native[f][1]
       IN Garbage \notin {a, b} => Follows(a, b)

\* What the next pass, or the first one after a restart, will still find.
Pending ==
  {spool[i].id : i \in {j \in DOMAIN spool : j > offset /\
     ~CoveredBy(IF Running THEN cursor ELSE disk, spool[j].seq)}}

\* No gap: a record that reached the spool is still to be shipped, with the
\* collector, counted as dropped by the cap, or from before a start at Now;
\* over crashes, lost answers, trims and a half-written cursor.  Records
\* stamped after a break are numbered below the cursor, which passes over
\* them; those stamped before it are not lost to it.
NothingLost ==
  {id \in spooled : id <= whole} \subseteq Pending \cup received \cup dropped \cup skipped

\* The bound on the records keeps the process from opening another segment.
OutOfRecords == ~Running /\ TornTip /\ stamped = MaxRecords

\* What was in the spool before a break is shipped in the end, or counted.
SpoolDrains ==
  \A id \in Ids : id \in spooled ~>
    id \in received \cup dropped \cup skipped \/ id > whole \/ OutOfRecords
=============================================================================
