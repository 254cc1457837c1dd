---------------------------- MODULE LineageSpool ----------------------------
(***************************************************************************)
(* Delivery of lineage events.  One emitter task takes events from a       *)
(* bounded channel and sends each to the collector; an event the collector *)
(* does not take is appended to a spool file, and a replay task moves that *)
(* file aside as a segment and sends the segments, oldest first.  A spool  *)
(* at its cap deletes its oldest segments, under a lock the replay task    *)
(* only holds while it lists them: a segment it has drained goes without   *)
(* the lock, while the spool is measured or segments are deleted.          *)
(*                                                                         *)
(* Emitter:  idle -> send -> lock -> measure [-> evict -> remove ..]       *)
(*                -> append -> ..                                          *)
(* Replay:   idle -> open -> send .. -> remove -> open ..                  *)
(***************************************************************************)
EXTENDS Naturals, Sequences, FiniteSets, FiniteSetsExt, SequencesExt

CONSTANTS
  MaxEvents,   \* bound: events
  Size,        \* the length of an event's line
  MaxBytes,    \* max_bytes
  QueueMax,    \* capacity of the channel
  Poison,      \* events the collector refuses for good (4xx)
  MaxFaults    \* bound: lost answers, failures of the disk and crashes

ASSUME SpoolConstants ==
  /\ MaxEvents \in Nat
  /\ Size \in [1..MaxEvents -> Nat \ {0}]
  /\ {MaxBytes, QueueMax} \subseteq Nat \ {0}
  /\ Poison \subseteq 1..MaxEvents
  /\ MaxFaults \in Nat

\* Events, numbered in the order in which the queries hand them over.
Events == 1..MaxEvents
Nothing == 0                 \* no event; a line that does not parse
Unreadable == MaxEvents + 1  \* a line that is no text: cut inside a character
Lines == Events \cup {Nothing, Unreadable}
Names == Nat \ {0}
\* What a file ends in: a whole line, half a line, a character cut in two.
Halves == {"none", "line", "char"}

VARIABLES
  offered,    \* events the queries handed to the observer
  queue,      \* the channel
  emit,       \* the emitter: where it is, its event, the segments it has listed
  total,      \* what append_to_spool takes the spool's size for
  live,       \* spool.jsonl
  half,       \* what it ends in
  segments,   \* the rotated segments in the directory, by name
  names,      \* segment names given out
  replay,     \* the replay task: where it is, the segments and lines to go
  delivered,  \* events the collector has
  dropped,    \* events counted: as dropped by the channel or the cap, as sink errors
  gone,       \* history: lost and counted nowhere
  misread,    \* history: the last append took the spool for smaller than it was
  faults      \* faults left

vars == <<offered, queue, emit, total, live, half, segments, names, replay, delivered,
          dropped, gone, misread, faults>>
spoolVars == <<live, half, segments, names>>

IdleEmit == [pc |-> "idle", ev |-> Nothing, left |-> {}, file |-> 0, lines |-> <<>>]
IdleReplay == [pc |-> "idle", files |-> {}, file |-> 0, lines |-> <<>>]

Emitters ==
  [pc : {"down", "idle", "send", "lock", "measure", "evict", "remove", "append"},
   ev : Lines, left : SUBSET Names, file : Names \cup {0}, lines : Seq(Lines)]
Replays ==
  [pc : {"idle", "open", "send", "remove"}, files : SUBSET Names,
   file : Names \cup {0}, lines : Seq(Lines)]

\* The types of all the state.
TypeOK ==
  /\ offered \subseteq Events
  /\ queue \in Seq(Events) /\ Len(queue) <= QueueMax
  /\ emit \in Emitters
  /\ total \in Nat
  /\ live \in Seq(Lines)
  /\ half \in Halves
  /\ DOMAIN segments \subseteq Names /\ segments \in [DOMAIN segments -> Seq(Lines)]
  /\ names \in Nat
  /\ replay \in Replays
  /\ delivered \subseteq Events /\ dropped \subseteq Events /\ gone \subseteq Events
  /\ misread \in BOOLEAN
  /\ faults \in 0..MaxFaults

Init ==
  /\ offered = {}
  /\ queue = <<>>
  /\ emit = IdleEmit
  /\ total = 0
  /\ live = <<>>
  /\ half = "none"
  /\ segments = [n \in {} |-> <<>>]
  /\ names = 0
  /\ replay = IdleReplay
  /\ delivered = {}
  /\ dropped = {}
  /\ gone = {}
  /\ misread = FALSE
  /\ faults = MaxFaults

-----------------------------------------------------------------------------
(* Files. *)

EventsOf(lines) == ToSet(lines) \cap Events
Length(lines) == MapThenSumSet(LAMBDA e : Size[e], EventsOf(lines))
Spooled == EventsOf(live) \cup UNION {EventsOf(segments[n]) : n \in DOMAIN segments}
TotalBytes == MapThenSumSet(LAMBDA e : Size[e], Spooled)

LinesOf(n) == IF n \in DOMAIN segments THEN segments[n] ELSE <<>>
Without(n) == [m \in DOMAIN segments \ {n} |-> segments[m]]

\* rotated_segments sorts by name, and names sort by age.
Oldest(n, files) == n \in files /\ \A m \in files : n <= m

\* read_to_string: the whole file is text, or there is nothing to be had.
Readable(lines) == Unreadable \notin ToSet(lines)
Damaged == half = "char" \/ ~Readable(live) \/ \E n \in DOMAIN segments : ~Readable(segments[n])

\* The line that half a line becomes, alone or with what is written after it.
Torn == IF half = "char" THEN Unreadable ELSE Nothing

\* rotate_live, when there is something to rotate; half a line goes with it.
Rotates == live # <<>> \/ half # "none"
Rotated ==
  [n \in DOMAIN segments \cup {names + 1} |->
     IF n = names + 1 THEN IF half = "none" THEN live ELSE Append(live, Torn)
                      ELSE segments[n]]

RotateLive ==
  /\ segments' = IF Rotates THEN Rotated ELSE segments
  /\ names' = IF Rotates THEN names + 1 ELSE names
  /\ live' = <<>>
  /\ half' = "none"

\* What an interrupted write may leave at the end of the file.
Interrupted == {h \in Halves : half = "none" \/ h = half \/ h = "char"}

Locked == emit.pc \in {"measure", "evict", "remove", "append"}

-----------------------------------------------------------------------------
(* The queries and the emitter. *)

\* Observer::try_send: a full channel drops the event.
Offer(e) ==
  /\ emit.pc # "down"
  /\ e = Cardinality(offered) + 1
  /\ offered' = offered \cup {e}
  /\ IF Len(queue) < QueueMax
     THEN queue' = Append(queue, e) /\ UNCHANGED dropped
     ELSE dropped' = dropped \cup {e} /\ UNCHANGED queue
  /\ UNCHANGED <<emit, total, spoolVars, replay, delivered, gone, misread, faults>>

Take ==
  /\ emit.pc = "idle"
  /\ queue # <<>>
  /\ emit' = [IdleEmit EXCEPT !.pc = "send", !.ev = Head(queue)]
  /\ queue' = Tail(queue)
  /\ UNCHANGED <<offered, total, spoolVars, replay, delivered, dropped, gone, misread, faults>>

\* SpoolSink::send: the collector takes the event.
Send ==
  /\ emit.pc = "send"
  /\ emit.ev \notin Poison
  /\ delivered' = delivered \cup {emit.ev}
  /\ emit' = IdleEmit
  /\ UNCHANGED <<offered, queue, total, spoolVars, replay, dropped, gone, misread, faults>>

\* It does not, after the retries of HttpSink.
SendFails ==
  /\ emit.pc = "send"
  /\ emit' = [emit EXCEPT !.pc = "lock"]
  /\ UNCHANGED <<offered, queue, total, spoolVars, replay, delivered, dropped, gone, misread, faults>>

\* It does and the answer is lost.
SendUnanswered ==
  /\ emit.pc = "send"
  /\ emit.ev \notin Poison
  /\ faults > 0
  /\ faults' = faults - 1
  /\ delivered' = delivered \cup {emit.ev}
  /\ emit' = [emit EXCEPT !.pc = "lock"]
  /\ UNCHANGED <<offered, queue, total, spoolVars, replay, dropped, gone, misread>>

\* append_to_spool takes the lock, and total_spool_bytes lists the directory.
Measure ==
  /\ emit.pc = "lock"
  /\ total' = TotalBytes
  /\ emit' = [emit EXCEPT !.pc = "measure", !.left = DOMAIN segments]
  /\ UNCHANGED <<offered, queue, spoolVars, replay, delivered, dropped, gone, misread, faults>>

\* Then it reads the lengths.  A segment the replay task has drained since is
\* an error, and the size of the spool is taken for 0.
Measured == {total} \cup (IF emit.left \subseteq DOMAIN segments THEN {} ELSE {0})

\* The event fits, never will, or does not.
Fits ==
  /\ emit.pc = "measure"
  /\ \E t \in Measured :
       /\ t + Size[emit.ev] <= MaxBytes
       /\ misread' = (t < TotalBytes)
  /\ total' = 0
  /\ emit' = [emit EXCEPT !.pc = "append", !.left = {}]
  /\ UNCHANGED <<offered, queue, spoolVars, replay, delivered, dropped, gone, faults>>

NeverFits ==
  /\ emit.pc = "measure"
  /\ Size[emit.ev] > MaxBytes
  /\ dropped' = dropped \cup {emit.ev}
  /\ total' = 0
  /\ emit' = IdleEmit
  /\ UNCHANGED <<offered, queue, spoolVars, replay, delivered, gone, misread, faults>>

\* A size taken for 0 cannot get here.
AtCap == total + Size[emit.ev] > MaxBytes /\ Size[emit.ev] <= MaxBytes

Full ==
  /\ emit.pc = "measure"
  /\ AtCap
  /\ RotateLive
  /\ emit' = [emit EXCEPT !.pc = "evict", !.left = DOMAIN segments']
  /\ UNCHANGED <<offered, queue, total, replay, delivered, dropped, gone, misread, faults>>

\* A slip: the line to be appended is forgotten.
EnoughWithout == total <= MaxBytes \/ emit.left = {}

Enough == total + Size[emit.ev] <= MaxBytes \/ emit.left = {}

\* The loop over the segments: read the next one.
Evict ==
  /\ emit.pc = "evict"
  /\ ~Enough
  /\ \E n \in emit.left :
       /\ Oldest(n, emit.left)
       /\ emit' = [emit EXCEPT !.pc = "remove", !.left = @ \ {n}, !.file = n,
                               !.lines = LinesOf(n)]
  /\ UNCHANGED <<offered, queue, total, spoolVars, replay, delivered, dropped, gone, misread, faults>>

Less(a, b) == IF a > b THEN a - b ELSE 0

\* The length is read after the lines: the replay task may have drained the
\* segment in between.
Subtracted ==
  {Less(total, Length(emit.lines))} \cup (IF emit.file \in DOMAIN segments THEN {} ELSE {total})

\* A slip: the events of the deleted segment are not counted.
DeleteUncounted ==
  /\ emit.pc = "remove"
  /\ total' \in Subtracted
  /\ segments' = Without(emit.file)
  /\ emit' = [emit EXCEPT !.pc = "evict", !.file = 0, !.lines = <<>>]
  /\ UNCHANGED <<offered, queue, live, half, names, replay, delivered, dropped, gone, misread, faults>>

\* Delete it and count its lines; one the replay task has drained meanwhile
\* is not counted, and one that is no text is deleted without being counted.
Delete ==
  /\ emit.pc = "remove"
  /\ total' \in Subtracted
  /\ segments' = Without(emit.file)
  /\ LET lost == IF emit.file \in DOMAIN segments THEN EventsOf(emit.lines) ELSE {} IN
       IF Readable(emit.lines)
       THEN dropped' = dropped \cup lost /\ UNCHANGED gone
       ELSE gone' = gone \cup lost /\ UNCHANGED dropped
  /\ emit' = [emit EXCEPT !.pc = "evict", !.file = 0, !.lines = <<>>]
  /\ UNCHANGED <<offered, queue, live, half, names, replay, delivered, misread, faults>>

Evicted ==
  /\ emit.pc = "evict"
  /\ Enough
  /\ total' = 0
  /\ misread' = FALSE
  /\ emit' = [emit EXCEPT !.pc = "append", !.left = {}]
  /\ UNCHANGED <<offered, queue, spoolVars, replay, delivered, dropped, gone, faults>>

\* The line, after half a line that was left before: neither parses.
Append_(e) ==
  /\ live' = Append(live, IF half = "none" THEN e ELSE Torn)
  /\ half' = "none"
  /\ gone' = IF half = "none" THEN gone ELSE gone \cup {e}

AppendLine ==
  /\ emit.pc = "append"
  /\ Append_(emit.ev)
  /\ emit' = IdleEmit
  /\ UNCHANGED <<offered, queue, total, segments, names, replay, delivered, dropped, misread,
                 faults>>

\* The disk refuses: a rename, a listing, a delete or the write, which may
\* have got through half the line.  MultiSink counts and drops the event.
AppendFails ==
  /\ faults > 0
  /\ faults' = faults - 1
  /\ \/ emit.pc = "measure" /\ AtCap /\ (UNCHANGED spoolVars \/ RotateLive)
     \/ emit.pc = "remove" /\ UNCHANGED spoolVars
     \/ emit.pc = "append" /\ half' \in Interrupted /\ UNCHANGED <<live, segments, names>>
  /\ dropped' = dropped \cup {emit.ev}
  /\ total' = 0
  /\ emit' = IdleEmit
  /\ UNCHANGED <<offered, queue, replay, delivered, gone, misread>>

-----------------------------------------------------------------------------
(* The replay task: drain_once. *)

\* Rotate and list, under the lock.
List ==
  /\ replay.pc = "idle"
  /\ emit.pc # "down"
  /\ ~Locked
  /\ Rotates \/ DOMAIN segments # {}
  /\ RotateLive
  /\ replay' = [IdleReplay EXCEPT !.pc = "open", !.files = DOMAIN segments']
  /\ UNCHANGED <<offered, queue, emit, total, delivered, dropped, gone, misread, faults>>

\* Read the next segment; one the cap has deleted since is passed over.
Open ==
  /\ replay.pc = "open"
  /\ \/ replay.files = {} /\ replay' = IdleReplay
     \/ \E n \in replay.files :
          /\ Oldest(n, replay.files)
          /\ Readable(LinesOf(n))
          /\ replay' = IF n \in DOMAIN segments
                       THEN [pc |-> "send", files |-> replay.files \ {n}, file |-> n,
                             lines |-> segments[n]]
                       ELSE [replay EXCEPT !.files = @ \ {n}]
  /\ UNCHANGED <<offered, queue, emit, total, spoolVars, delivered, dropped, gone, misread, faults>>

\* One that is no text ends the pass, and every later one.
ReadFails ==
  /\ replay.pc = "open"
  /\ \E n \in replay.files : Oldest(n, replay.files) /\ ~Readable(LinesOf(n))
  /\ replay' = IdleReplay
  /\ UNCHANGED <<offered, queue, emit, total, spoolVars, delivered, dropped, gone, misread, faults>>

AfterLine ==
  [replay EXCEPT !.pc = IF Len(replay.lines) = 1 THEN "remove" ELSE "send",
                 !.lines = Tail(@)]

\* A slip: a line that does not parse ends the pass.
SkipNothing ==
  /\ replay.pc = "send"
  /\ Head(replay.lines) = Nothing
  /\ replay' = IdleReplay
  /\ UNCHANGED <<offered, queue, emit, total, spoolVars, delivered, dropped, gone, misread, faults>>

\* A line that does not parse is skipped.
Skip ==
  /\ replay.pc = "send"
  /\ Head(replay.lines) = Nothing
  /\ replay' = AfterLine
  /\ UNCHANGED <<offered, queue, emit, total, spoolVars, delivered, dropped, gone, misread, faults>>

Resend ==
  /\ replay.pc = "send"
  /\ Head(replay.lines) \in Events \ Poison
  /\ delivered' = delivered \cup {Head(replay.lines)}
  /\ replay' = AfterLine
  /\ UNCHANGED <<offered, queue, emit, total, spoolVars, dropped, gone, misread, faults>>

\* A slip: the newer segments are tried all the same.
ResendFailsOn ==
  /\ replay.pc = "send"
  /\ Head(replay.lines) \in Events
  /\ replay' = [replay EXCEPT !.pc = "open", !.lines = <<>>]
  /\ UNCHANGED <<offered, queue, emit, total, spoolVars, delivered, dropped, gone, misread, faults>>

\* The first failure ends the pass: this segment and the newer ones stay.
ResendFails ==
  /\ replay.pc = "send"
  /\ Head(replay.lines) \in Events
  /\ replay' = IdleReplay
  /\ UNCHANGED <<offered, queue, emit, total, spoolVars, delivered, dropped, gone, misread, faults>>

ResendUnanswered ==
  /\ replay.pc = "send"
  /\ Head(replay.lines) \in Events \ Poison
  /\ faults > 0
  /\ faults' = faults - 1
  /\ delivered' = delivered \cup {Head(replay.lines)}
  /\ replay' = IdleReplay
  /\ UNCHANGED <<offered, queue, emit, total, spoolVars, dropped, gone, misread>>

\* All of it was sent: the segment goes, without the lock.
Drained ==
  /\ replay.pc = "remove"
  /\ segments' = Without(replay.file)
  /\ replay' = [replay EXCEPT !.pc = "open", !.file = 0]
  /\ UNCHANGED <<offered, queue, emit, total, live, half, names, delivered, dropped, gone, misread, faults>>

-----------------------------------------------------------------------------

\* The process stops; an append that was running may leave half a line.
Crash ==
  /\ emit.pc # "down"
  /\ faults > 0
  /\ faults' = faults - 1
  /\ gone' = gone \cup ToSet(queue) \cup ({emit.ev} \ {Nothing})
  /\ queue' = <<>>
  /\ emit' = [IdleEmit EXCEPT !.pc = "down"]
  /\ total' = 0
  /\ replay' = IdleReplay
  /\ half' \in IF emit.pc = "append" THEN Interrupted ELSE {half}
  /\ UNCHANGED <<offered, live, segments, names, delivered, dropped, misread>>

Restart ==
  /\ emit.pc = "down"
  /\ emit' = IdleEmit
  /\ UNCHANGED <<offered, queue, total, spoolVars, replay, delivered, dropped, gone, misread, faults>>

Emitter ==
  \/ Take \/ Send \/ SendFails \/ SendUnanswered
  \/ Measure \/ Fits \/ NeverFits \/ Full \/ Evict \/ Delete \/ Evicted
  \/ AppendLine \/ AppendFails

Replay ==
  \/ List \/ Open \/ ReadFails \/ Skip \/ Resend \/ ResendFails \/ ResendUnanswered \/ Drained

Next ==
  \/ \E e \in Events : Offer(e)
  \/ Emitter
  \/ Replay
  \/ Crash
  \/ Restart

Spec == Init /\ [][Next]_vars

\* Both tasks run, the process is restarted, and the collector takes an event
\* it is sent again and again.
Fairness ==
  /\ WF_vars(Emitter)
  /\ WF_vars(Replay)
  /\ \A e \in Events : SF_vars(Resend /\ Head(replay.lines) = e)
  /\ WF_vars(Restart)

FairSpec == Spec /\ Fairness

-----------------------------------------------------------------------------

\* Every event is somewhere: with the collector, in the spool, in the memory
\* of the process, counted, or lost in one of three ways nothing counts: with
\* a crash, glued to half a line, or in a file the cap deleted unread.
Accounted ==
  offered \subseteq delivered \cup Spooled \cup dropped \cup gone
                    \cup ToSet(queue) \cup {emit.ev}

\* The disk is bounded while the replay task and the cap delete segments of
\* one listing at the same time: only an append that lost a segment while it
\* measured the spool takes it past the cap, and the next append that
\* measures it brings it back.
WithinCap == misread \/ TotalBytes <= MaxBytes

\* The replay keeps the order of the spool: when it sends an event, those
\* that were spooled before it are with the collector or dropped.
Earlier ==
  UNION {EventsOf(segments[n]) : n \in {m \in DOMAIN segments : m < replay.file}}
ReplayInOrder ==
  replay.pc = "send" => Earlier \subseteq delivered

\* Whatever is spooled leaves the spool, half lines and all, unless an event
\* the collector will never take or a file that is no text is in it.
SpoolDrains ==
  \A e \in Events : e \in Spooled ~> e \notin Spooled \/ Poison \cap Spooled # {} \/ Damaged
=============================================================================
