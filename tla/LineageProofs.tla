---------------------------- MODULE LineageProofs ----------------------------
(***************************************************************************)
(* What holds of LineageSpool for every number of events, every capacity,  *)
(* every size of the events and every number of faults: no event goes      *)
(* missing uncounted, the replay keeps the order of the segments, the      *)
(* spool stays within its cap, and every state is well typed.              *)
(***************************************************************************)
EXTENDS LineageSpool, FiniteSetTheorems, WellFoundedInduction, TLAPS

-----------------------------------------------------------------------------
(* The inductive invariant. *)

\* The part of the types that the arguments below need.
Shapes ==
  /\ offered \subseteq Events
  /\ queue \in Seq(Events)
  /\ emit \in Emitters
  /\ live \in Seq(Lines)
  /\ half \in Halves
  /\ DOMAIN segments \subseteq Names
  /\ segments \in [DOMAIN segments -> Seq(Lines)]
  /\ names \in Nat
  /\ replay \in Replays

\* An emitter at rest has no event.
AtRest == emit.pc \in {"idle", "down"} => emit.ev = Nothing

\* Only names that were given out are used, so a new segment is newer than
\* every other and takes the place of none.
NamesGiven ==
  /\ \A n \in DOMAIN segments : n <= names
  /\ \A n \in emit.left \cup replay.files : n <= names
  /\ emit.file <= names /\ replay.file <= names

\* A segment is never empty: rotate_live moves no empty file.
NoneEmpty == \A n \in DOMAIN segments : segments[n] # <<>>

\* The lines the cap has read are those of the segment it is about to delete.
ReadWhole ==
  emit.pc = "remove" /\ emit.file \in DOMAIN segments => emit.lines = segments[emit.file]

\* What the replay task has behind it in a segment is with the collector.
SentBehind ==
  /\ replay.pc = "send" => replay.lines # <<>>
  /\ replay.pc = "remove" => replay.lines = <<>>
  /\ replay.pc \in {"send", "remove"} /\ replay.file \in DOMAIN segments
       => EventsOf(segments[replay.file]) \subseteq delivered \cup EventsOf(replay.lines)

\* The replay task has the oldest segments on its list, its own before them.
OldestFirst ==
  /\ replay.pc = "open" => replay.file = 0
  /\ replay.pc # "idle" =>
       \A n \in DOMAIN segments : \A m \in replay.files \cup {replay.file} :
         n \notin replay.files \cup {replay.file} => m < n
  /\ replay.pc \in {"send", "remove"} =>
       replay.file # 0 /\ \A n \in replay.files : replay.file < n

LineageInv ==
  /\ Shapes
  /\ AtRest
  /\ NamesGiven
  /\ NoneEmpty
  /\ ReadWhole
  /\ SentBehind
  /\ OldestFirst
  /\ Accounted

-----------------------------------------------------------------------------
(* Lines. *)

\* An appended line is there in addition to the others.
LEMMA AppendedLine ==
  ASSUME NEW S, NEW s \in Seq(S), NEW e \in S
  PROVE  ToSet(Append(s, e)) = ToSet(s) \cup {e}
  <1>1. /\ DOMAIN s = 1..Len(s)
        /\ DOMAIN Append(s, e) = 1..(Len(s) + 1)
        /\ Len(s) \in Nat
        /\ \A i \in 1..Len(s) : Append(s, e)[i] = s[i]
        /\ Append(s, e)[Len(s) + 1] = e
    OBVIOUS
  <1>2. ToSet(Append(s, e)) \subseteq ToSet(s) \cup {e}
    BY <1>1 DEF ToSet
  <1>3. ToSet(s) \subseteq ToSet(Append(s, e))
    BY <1>1 DEF ToSet
  <1>4. e \in ToSet(Append(s, e))
    BY <1>1 DEF ToSet
  <1>5. QED
    BY <1>2, <1>3, <1>4

\* A file is its first line and the others.
LEMMA FirstLine ==
  ASSUME NEW S, NEW s \in Seq(S), s # <<>>
  PROVE  /\ ToSet(s) = {Head(s)} \cup ToSet(Tail(s))
         /\ Head(s) \in S
         /\ Tail(s) \in Seq(S)
         /\ Len(s) = 1 <=> Tail(s) = <<>>
  <1>1. /\ DOMAIN s = 1..Len(s)
        /\ Len(s) \in Nat \ {0}
        /\ Head(s) = s[1]
        /\ Tail(s) \in Seq(S)
        /\ Len(Tail(s)) = Len(s) - 1
        /\ DOMAIN Tail(s) = 1..(Len(s) - 1)
        /\ \A i \in 1..(Len(s) - 1) : Tail(s)[i] = s[i + 1]
    OBVIOUS
  <1>2. Head(s) \in ToSet(s) /\ Head(s) \in S
    BY <1>1 DEF ToSet
  <1>3. ToSet(Tail(s)) \subseteq ToSet(s)
    <2>1. SUFFICES ASSUME NEW i \in 1..(Len(s) - 1)
                   PROVE  Tail(s)[i] \in ToSet(s)
      BY <1>1 DEF ToSet
    <2>2. i + 1 \in DOMAIN s /\ Tail(s)[i] = s[i + 1]
      BY <1>1
    <2>3. QED
      BY <2>2 DEF ToSet
  <1>4. ToSet(s) \subseteq {Head(s)} \cup ToSet(Tail(s))
    <2>1. SUFFICES ASSUME NEW i \in DOMAIN s, i # 1
                   PROVE  s[i] \in ToSet(Tail(s))
      BY <1>1 DEF ToSet
    <2>2. i - 1 \in 1..(Len(s) - 1) /\ (i - 1) + 1 = i
      BY <1>1, <2>1
    <2>3. i - 1 \in DOMAIN Tail(s) /\ Tail(s)[i - 1] = s[i]
      BY <1>1, <2>2
    <2>4. QED
      BY <2>3 DEF ToSet
  <1>5. Len(s) = 1 <=> Tail(s) = <<>>
    <2>1. \A t \in Seq(S) : Len(t) = 0 <=> t = <<>>
      OBVIOUS
    <2>2. Len(Tail(s)) = 0 <=> Tail(s) = <<>>
      BY <1>1, <2>1
    <2>3. Len(s) = 1 <=> Len(Tail(s)) = 0
      BY <1>1
    <2>4. QED
      BY ONLY <2>2, <2>3
  <1>6. QED
    BY <1>1, <1>2, <1>3, <1>4, <1>5

\* Half a line is a line, and no event.
LEMMA TornLine ==
  Torn \in Lines /\ Torn \notin Events /\ Nothing \in Lines /\ Nothing \notin Events
  <1>1. Nothing \in Lines /\ Nothing \notin Events
    BY DEF Lines, Nothing, Events
  <1>2. Unreadable \in Lines /\ Unreadable \notin Events
    BY SpoolConstants DEF Lines, Unreadable, Events
  <1>3. Torn \in {Nothing, Unreadable}
    BY DEF Torn
  <1>4. QED
    BY <1>1, <1>2, <1>3

\* What an interrupted write leaves is one of the ends of a file.
LEMMA InterruptedEnds == Interrupted \subseteq Halves
  BY DEF Interrupted

\* An empty file has no line.
LEMMA NoLine == ToSet(<<>>) = {}
  BY DEF ToSet

-----------------------------------------------------------------------------
(* The directory. *)

\* rotate_live adds at most one segment, newer than the others and not empty,
\* and loses no line.
LEMMA RotateAdds ==
  ASSUME Shapes, NamesGiven, NoneEmpty, RotateLive
  PROVE  /\ DOMAIN segments \subseteq DOMAIN segments'
         /\ DOMAIN segments' \subseteq DOMAIN segments \cup {names + 1}
         /\ \A n \in DOMAIN segments : segments'[n] = segments[n]
         /\ names' \in Nat /\ names <= names'
         /\ \A n \in DOMAIN segments' : n <= names'
         /\ DOMAIN segments' \subseteq Names
         /\ segments' \in [DOMAIN segments' -> Seq(Lines)]
         /\ \A n \in DOMAIN segments' : segments'[n] # <<>>
         /\ live' = <<>> /\ half' \in Halves
         /\ Spooled \subseteq Spooled'
  <1> "none" \in Halves
    BY DEF Halves
  <1>1. CASE ~Rotates
    <2>1. segments' = segments /\ names' = names /\ live' = <<>> /\ live = <<>>
          /\ half' = "none"
      BY <1>1 DEF RotateLive, Rotates
    <2>2. Spooled' = Spooled
      BY <2>1 DEF Spooled
    <2>3. names <= names
      BY DEF Shapes
    <2>4. QED
      BY <2>1, <2>2, <2>3 DEF Shapes, NamesGiven, NoneEmpty
  <1>2. CASE Rotates
    <2> DEFINE file == IF half = "none" THEN live ELSE Append(live, Torn)
    <2>1. segments' = Rotated /\ names' = names + 1 /\ live' = <<>> /\ half' = "none"
      BY <1>2 DEF RotateLive
    <2>2. Torn \in Lines /\ Torn \notin Events
      BY TornLine
    <2>3. file \in Seq(Lines) /\ file # <<>>
      <3>1. live \in Seq(Lines)
        BY DEF Shapes
      <3>2. CASE half = "none"
        BY <1>2, <3>1, <3>2 DEF Rotates
      <3>3. CASE half # "none"
        <4>1. Append(live, Torn) \in Seq(Lines) /\ Len(Append(live, Torn)) # 0
          BY <2>2, <3>1
        <4>2. file = Append(live, Torn)
          BY <3>3
        <4>3. Len(<<>>) = 0
          OBVIOUS
        <4>4. QED
          BY <4>1, <4>2, <4>3
      <3>4. QED
        BY <3>2, <3>3
    <2>4. EventsOf(live) \subseteq EventsOf(file)
      BY <2>2, AppendedLine DEF Shapes, EventsOf
    <2> HIDE DEF file
    <2>5. /\ DOMAIN segments' = DOMAIN segments \cup {names + 1}
          /\ segments'[names + 1] = file
          /\ names + 1 \notin DOMAIN segments
          /\ \A n \in DOMAIN segments : segments'[n] = segments[n]
      <3>1. names + 1 \notin DOMAIN segments
        BY DEF Shapes, NamesGiven, Names
      <3>2. QED
        BY <2>1, <3>1 DEF Rotated, file
    <2>6. segments' \in [DOMAIN segments' -> Seq(Lines)]
      <3>1. segments' = [n \in DOMAIN segments' |-> segments'[n]]
        BY <2>1 DEF Rotated
      <3>2. \A n \in DOMAIN segments' : segments'[n] \in Seq(Lines)
        BY <2>3, <2>5 DEF Shapes
      <3>3. QED
        BY <3>1, <3>2
    <2>7. Spooled \subseteq Spooled'
      <3>1. SUFFICES ASSUME NEW e \in Spooled
                     PROVE  \E n \in DOMAIN segments' : e \in EventsOf(segments'[n])
        BY DEF Spooled
      <3>2. CASE e \in EventsOf(live)
        BY <3>2, <2>4, <2>5
      <3>3. CASE \E n \in DOMAIN segments : e \in EventsOf(segments[n])
        BY <3>3, <2>5
      <3>4. QED
        BY <3>2, <3>3 DEF Spooled
    <2>8. names' \in Nat /\ names <= names' /\ names + 1 \in Names
      BY <2>1 DEF Shapes, Names
    <2>9. \A n \in DOMAIN segments' : n <= names'
      <3>1. \A n \in DOMAIN segments : n <= names + 1
        BY DEF Shapes, NamesGiven, Names
      <3>2. QED
        BY <2>1, <2>5, <2>8, <3>1 DEF Shapes
    <2>10. \A n \in DOMAIN segments' : segments'[n] # <<>>
      BY <2>3, <2>5 DEF NoneEmpty
    <2>11. DOMAIN segments' \subseteq Names
      BY <2>5, <2>8 DEF Shapes
    <2>12. QED
      BY <2>1, <2>5, <2>6, <2>7, <2>8, <2>9, <2>10, <2>11
  <1>3. QED
    BY <1>1, <1>2

\* Removing a file leaves the others as they are.
LEMMA RemovesOne ==
  ASSUME Shapes, NEW f, segments' = Without(f)
  PROVE  /\ DOMAIN segments' = DOMAIN segments \ {f}
         /\ \A n \in DOMAIN segments' : segments'[n] = segments[n]
         /\ segments' \in [DOMAIN segments' -> Seq(Lines)]
  <1>1. DOMAIN segments' = DOMAIN segments \ {f}
    BY DEF Without
  <1>2. \A n \in DOMAIN segments' : segments'[n] = segments[n]
    BY <1>1 DEF Without
  <1>3. segments' = [n \in DOMAIN segments' |-> segments'[n]]
    BY DEF Without
  <1>4. \A n \in DOMAIN segments' : segments'[n] \in Seq(Lines)
    BY <1>1, <1>2 DEF Shapes
  <1>5. QED
    BY <1>1, <1>2, <1>3, <1>4

\* What leaves the spool with a file are the events of that file.
LEMMA LeavesWithFile ==
  ASSUME Shapes, NEW f, segments' = Without(f), live' = live
  PROVE  Spooled \subseteq Spooled' \cup (IF f \in DOMAIN segments THEN EventsOf(segments[f]) ELSE {})
  <1>1. /\ DOMAIN segments' = DOMAIN segments \ {f}
        /\ \A n \in DOMAIN segments' : segments'[n] = segments[n]
    BY RemovesOne
  <1>2. SUFFICES ASSUME NEW n \in DOMAIN segments, n # f, NEW e \in EventsOf(segments[n])
                 PROVE  e \in Spooled'
    BY DEF Spooled
  <1>3. n \in DOMAIN segments' /\ e \in EventsOf(segments'[n])
    BY <1>1, <1>2
  <1>4. QED
    BY <1>3 DEF Spooled

-----------------------------------------------------------------------------
(* The queries and the emitter. *)

\* A step that leaves the directory and the replay task alone.
LEMMA QuietStep ==
  ASSUME LineageInv, UNCHANGED <<segments, names, replay, live>>, half' \in Halves,
         delivered \subseteq delivered',
         offered' \subseteq Events, queue' \in Seq(Events), emit' \in Emitters,
         AtRest', ReadWhole', Accounted',
         emit'.left \subseteq emit.left \cup DOMAIN segments, emit'.file \in emit.left \cup {0, emit.file}
  PROVE  LineageInv'
  <1>1. Shapes'
    BY DEF LineageInv, Shapes
  <1>2. NamesGiven'
    <2>1. 0 <= names
      BY DEF LineageInv, Shapes
    <2>2. QED
      BY <2>1 DEF LineageInv, NamesGiven
  <1>3. NoneEmpty'
    BY DEF LineageInv, NoneEmpty
  <1>4. SentBehind'
    BY DEF LineageInv, SentBehind
  <1>5. OldestFirst'
    BY DEF LineageInv, OldestFirst
  <1>6. QED
    BY <1>1, <1>2, <1>3, <1>4, <1>5 DEF LineageInv

\* The types of the resting states.
LEMMA RestTypes ==
  /\ IdleEmit \in Emitters
  /\ [IdleEmit EXCEPT !.pc = "down"] \in Emitters
  /\ IdleReplay \in Replays
  <1>1. <<>> \in Seq(Lines) /\ Nothing \in Lines
    BY DEF Lines
  <1>2. IdleReplay \in Replays
    BY <1>1 DEF IdleReplay, Replays
  <1>3. IdleEmit \in Emitters
    BY <1>1 DEF IdleEmit, Emitters
  <1>4. [IdleEmit EXCEPT !.pc = "down"] \in Emitters
    BY <1>3 DEF Emitters
  <1>5. QED
    BY <1>2, <1>3, <1>4

LEMMA OfferKeeps ==
  ASSUME LineageInv, NEW e \in Events, Offer(e)
  PROVE  LineageInv'
  <1>1. UNCHANGED <<segments, names, replay, live, half, emit, delivered, gone>>
    BY DEF Offer, spoolVars
  <1>2. offered' = offered \cup {e}
    BY DEF Offer
  <1>3. /\ queue' \in Seq(Events)
        /\ ToSet(queue) \subseteq ToSet(queue') /\ dropped \subseteq dropped'
        /\ e \in ToSet(queue') \cup dropped'
    <2>1. queue \in Seq(Events)
      BY DEF LineageInv, Shapes
    <2>2. Append(queue, e) \in Seq(Events) /\ ToSet(Append(queue, e)) = ToSet(queue) \cup {e}
      BY <2>1, AppendedLine
    <2>3. CASE Len(queue) < QueueMax
      BY <2>2, <2>3 DEF Offer
    <2>4. CASE ~(Len(queue) < QueueMax)
      BY <2>1, <2>4 DEF Offer
    <2>5. QED
      BY <2>3, <2>4
  <1>4. Spooled' = Spooled
    BY <1>1 DEF Spooled
  <1>5. Accounted'
    BY <1>1, <1>2, <1>3, <1>4 DEF LineageInv, Accounted
  <1>6. AtRest' /\ ReadWhole'
    BY <1>1 DEF LineageInv, AtRest, ReadWhole
  <1>7. QED
    BY <1>1, <1>2, <1>3, <1>5, <1>6, QuietStep DEF LineageInv, Shapes

LEMMA TakeKeeps ==
  ASSUME LineageInv, Take
  PROVE  LineageInv'
  <1>1. UNCHANGED <<segments, names, replay, live, half, offered, delivered, dropped, gone>>
    BY DEF Take, spoolVars
  <1>2. queue \in Seq(Events) /\ queue # <<>>
    BY DEF Take, LineageInv, Shapes
  <1>3. /\ ToSet(queue) = {Head(queue)} \cup ToSet(queue')
        /\ Head(queue) \in Events /\ queue' \in Seq(Events)
    BY <1>2, FirstLine DEF Take
  <1>4. /\ emit'.pc = "send" /\ emit'.ev = Head(queue) /\ emit'.left = {} /\ emit'.file = 0
        /\ emit' \in Emitters
    BY <1>3, RestTypes DEF Take, IdleEmit, Emitters, Lines
  <1>5. emit.ev = Nothing /\ Nothing \notin Events
    BY DEF Take, LineageInv, AtRest, Nothing, Events
  <1>6. Spooled' = Spooled
    BY <1>1 DEF Spooled
  <1>7. Accounted'
    BY <1>1, <1>3, <1>4, <1>5, <1>6 DEF LineageInv, Accounted, Shapes
  <1>8. AtRest' /\ ReadWhole'
    BY <1>4 DEF AtRest, ReadWhole
  <1>9. QED
    BY <1>1, <1>3, <1>4, <1>7, <1>8, QuietStep DEF LineageInv, Shapes

\* The event of the emitter is delivered or dropped, and it rests.
LEMMA DoneKeeps ==
  ASSUME LineageInv, UNCHANGED <<segments, names, replay, live, offered, queue, gone>>,
         half' \in Halves, delivered \subseteq delivered', dropped \subseteq dropped',
         emit.ev \in delivered' \cup dropped', emit' = IdleEmit
  PROVE  LineageInv'
  <1>1. emit'.pc = "idle" /\ emit'.ev = Nothing /\ emit'.left = {} /\ emit'.file = 0
    BY DEF IdleEmit
  <1>2. Spooled' = Spooled
    BY DEF Spooled
  <1>3. Accounted'
    BY <1>1, <1>2 DEF LineageInv, Accounted
  <1>4. AtRest' /\ ReadWhole'
    BY <1>1 DEF AtRest, ReadWhole
  <1>5. QED
    BY <1>1, <1>3, <1>4, RestTypes, QuietStep DEF LineageInv, Shapes

\* The emitter goes on with its event, and has read no other segment.
LEMMA GoesOnKeeps ==
  ASSUME LineageInv, UNCHANGED <<segments, names, replay, live, half, offered, queue, dropped, gone>>,
         delivered \subseteq delivered', emit' \in Emitters, emit'.ev = emit.ev,
         emit.pc \notin {"idle", "down"}, emit'.pc \notin {"idle", "down", "remove"},
         emit'.left \subseteq emit.left \cup DOMAIN segments, emit'.file = emit.file
  PROVE  LineageInv'
  <1>1. Spooled' = Spooled
    BY DEF Spooled
  <1>2. Accounted'
    BY <1>1 DEF LineageInv, Accounted
  <1>3. AtRest' /\ ReadWhole'
    BY DEF AtRest, ReadWhole
  <1>4. QED
    BY <1>2, <1>3, QuietStep DEF LineageInv, Shapes

LEMMA SendingKeeps ==
  ASSUME LineageInv,
         Send \/ SendFails \/ SendUnanswered \/ Measure \/ Fits \/ NeverFits \/ Evicted
  PROVE  LineageInv'
  <1> USE DEF spoolVars
  <1>1. emit \in Emitters /\ half \in Halves
    BY DEF LineageInv, Shapes
  <1>2. CASE Send
    BY <1>1, <1>2, DoneKeeps DEF Send
  <1>3. CASE NeverFits
    BY <1>1, <1>3, DoneKeeps DEF NeverFits
  <1>4. CASE SendFails
    <2>1. /\ emit' \in Emitters /\ emit'.ev = emit.ev /\ emit'.pc = "lock"
          /\ emit'.left = emit.left /\ emit'.file = emit.file
      BY <1>1, <1>4 DEF SendFails, Emitters
    <2>2. QED
      BY <1>4, <2>1, GoesOnKeeps DEF SendFails
  <1>5. CASE SendUnanswered
    <2>1. /\ emit' \in Emitters /\ emit'.ev = emit.ev /\ emit'.pc = "lock"
          /\ emit'.left = emit.left /\ emit'.file = emit.file
      BY <1>1, <1>5 DEF SendUnanswered, Emitters
    <2>2. QED
      BY <1>5, <2>1, GoesOnKeeps DEF SendUnanswered
  <1>6. CASE Fits
    <2>1. /\ emit' \in Emitters /\ emit'.ev = emit.ev /\ emit'.pc = "append"
          /\ emit'.left = {} /\ emit'.file = emit.file
      BY <1>1, <1>6 DEF Fits, Emitters
    <2>2. QED
      BY <1>6, <2>1, GoesOnKeeps DEF Fits
  <1>7. CASE Evicted
    <2>1. /\ emit' \in Emitters /\ emit'.ev = emit.ev /\ emit'.pc = "append"
          /\ emit'.left = {} /\ emit'.file = emit.file
      BY <1>1, <1>7 DEF Evicted, Emitters
    <2>2. QED
      BY <1>7, <2>1, GoesOnKeeps DEF Evicted
  <1>8. CASE Measure
    <2>1. DOMAIN segments \subseteq Names
      BY DEF LineageInv, Shapes
    <2>2. emit' = [emit EXCEPT !.pc = "measure", !.left = DOMAIN segments]
      BY <1>8 DEF Measure
    <2>3. /\ emit' \in Emitters /\ emit'.ev = emit.ev /\ emit'.pc = "measure"
          /\ emit'.left = DOMAIN segments /\ emit'.file = emit.file
      BY <1>1, <2>1, <2>2 DEF Emitters
    <2>4. QED
      BY <1>8, <2>3, GoesOnKeeps DEF Measure
  <1>9. QED
    BY <1>2, <1>3, <1>4, <1>5, <1>6, <1>7, <1>8

\* The cap reads the oldest segment on its list.
LEMMA EvictKeeps ==
  ASSUME LineageInv, Evict
  PROVE  LineageInv'
  <1>1. UNCHANGED <<segments, names, replay, live, half, offered, queue, delivered, dropped, gone>>
    BY DEF Evict, spoolVars
  <1>2. PICK n \in emit.left :
          emit' = [emit EXCEPT !.pc = "remove", !.left = @ \ {n}, !.file = n, !.lines = LinesOf(n)]
    BY DEF Evict
  <1>3. emit \in Emitters /\ n \in Names
    BY DEF LineageInv, Shapes, Emitters
  <1>4. LinesOf(n) \in Seq(Lines)
    BY DEF LinesOf, LineageInv, Shapes
  <1>5. /\ emit' \in Emitters /\ emit'.ev = emit.ev /\ emit'.pc = "remove"
        /\ emit'.left = emit.left \ {n} /\ emit'.file = n /\ emit'.lines = LinesOf(n)
    BY <1>2, <1>3, <1>4 DEF Emitters
  <1>6. Spooled' = Spooled
    BY <1>1 DEF Spooled
  <1>7. Accounted'
    BY <1>1, <1>5, <1>6 DEF LineageInv, Accounted
  <1>8. AtRest' /\ ReadWhole'
    BY <1>1, <1>5 DEF AtRest, ReadWhole, LinesOf
  <1>9. QED
    BY <1>1, <1>5, <1>7, <1>8, QuietStep DEF LineageInv, Shapes

\* The line is in the file, or glued to half a line and counted as gone.
LEMMA AppendLineKeeps ==
  ASSUME LineageInv, AppendLine
  PROVE  LineageInv'
  <1>1. UNCHANGED <<segments, names, replay, offered, queue, delivered, dropped>>
    BY DEF AppendLine
  <1>2. /\ emit'.pc = "idle" /\ emit'.ev = Nothing /\ emit'.left = {} /\ emit'.file = 0
        /\ emit' \in Emitters
    BY RestTypes DEF AppendLine, IdleEmit
  <1>3. emit.ev \in Lines /\ Nothing \in Lines /\ Nothing \notin Events
    BY DEF LineageInv, Shapes, Emitters, Lines, Events, Nothing
  <1>4. /\ live' \in Seq(Lines) /\ half' \in Halves
        /\ EventsOf(live) \subseteq EventsOf(live')
        /\ emit.ev \in Events => emit.ev \in EventsOf(live') \cup gone'
        /\ gone \subseteq gone'
    <2>1. /\ live \in Seq(Lines)
          /\ live' = Append(live, IF half = "none" THEN emit.ev ELSE Torn) /\ half' = "none"
          /\ gone' = IF half = "none" THEN gone ELSE gone \cup {emit.ev}
      BY DEF AppendLine, Append_, LineageInv, Shapes
    <2>2. (IF half = "none" THEN emit.ev ELSE Torn) \in Lines
      BY <1>3, TornLine
    <2>3. /\ ToSet(live') = ToSet(live) \cup {IF half = "none" THEN emit.ev ELSE Torn}
          /\ live' \in Seq(Lines)
      BY <2>1, <2>2, AppendedLine
    <2>4. "none" \in Halves
      BY DEF Halves
    <2>5. CASE half # "none"
      BY <2>1, <2>3, <2>4, <2>5 DEF EventsOf
    <2>6. CASE half = "none"
      BY <2>1, <2>3, <2>4, <2>6 DEF EventsOf
    <2>7. QED
      BY <2>5, <2>6
  <1>5. Spooled \subseteq Spooled' /\ EventsOf(live') \subseteq Spooled'
    BY <1>1, <1>4 DEF Spooled
  <1>6. Accounted'
    BY <1>1, <1>2, <1>3, <1>4, <1>5 DEF LineageInv, Accounted, Shapes
  <1>7. Shapes'
    BY <1>1, <1>2, <1>4 DEF LineageInv, Shapes
  <1>8. AtRest' /\ ReadWhole'
    BY <1>2 DEF AtRest, ReadWhole
  <1>9. NamesGiven'
    <2>1. 0 <= names
      BY DEF LineageInv, Shapes
    <2>2. QED
      BY <1>1, <1>2, <2>1 DEF LineageInv, NamesGiven
  <1>10. NoneEmpty' /\ SentBehind' /\ OldestFirst'
    BY <1>1 DEF LineageInv, NoneEmpty, SentBehind, OldestFirst
  <1>11. QED
    BY <1>6, <1>7, <1>8, <1>9, <1>10 DEF LineageInv

\* The names that were given out stay so when one more is given.
LEMMA OlderStay ==
  ASSUME Shapes, NamesGiven, names' \in Nat, names <= names', replay' = replay,
         \A n \in DOMAIN segments' : n <= names',
         DOMAIN segments' \subseteq Names,
         emit'.left \subseteq emit.left \cup DOMAIN segments', emit'.file \in {0, emit.file}
  PROVE  NamesGiven'
  <1>1. \A n \in Nat : n <= names => n <= names'
    BY DEF Shapes
  <1>2. /\ emit.left \cup replay.files \subseteq Nat
        /\ emit.file \in Nat /\ replay.file \in Nat /\ 0 <= names'
    BY DEF Shapes, Emitters, Replays, Names
  <1>3. QED
    BY <1>1, <1>2 DEF NamesGiven

\* A new segment is newer than all the replay task has on its list.
LEMMA ReplayUndisturbed ==
  ASSUME Shapes, NamesGiven, SentBehind, OldestFirst, UNCHANGED <<replay, delivered>>,
         DOMAIN segments \subseteq DOMAIN segments',
         DOMAIN segments' \subseteq DOMAIN segments \cup {names + 1},
         \A n \in DOMAIN segments : segments'[n] = segments[n]
  PROVE  SentBehind' /\ OldestFirst'
  <1>1. \A m \in replay.files \cup {replay.file} : m < names + 1
    <2>1. /\ replay.files \cup {replay.file} \subseteq Nat
          /\ \A m \in replay.files \cup {replay.file} : m <= names
      BY DEF Shapes, NamesGiven, Replays, Names
    <2>2. \A m \in Nat : m <= names => m < names + 1
      BY DEF Shapes
    <2>3. QED
      BY <2>1, <2>2
  <1>2. replay.file # names + 1
    <2>1. replay.file \in Nat /\ replay.file < names + 1
      BY <1>1 DEF Shapes, Replays, Names
    <2>2. QED
      BY <2>1 DEF Shapes
  <1>3. replay.file \in DOMAIN segments' => replay.file \in DOMAIN segments
    BY <1>2
  <1>4. SentBehind'
    BY <1>3 DEF SentBehind
  <1>5. OldestFirst'
    BY <1>1 DEF OldestFirst
  <1>6. QED
    BY <1>4, <1>5

\* The cap rotates the live file, and goes on or gives up.
LEMMA RotatesKeeps ==
  ASSUME LineageInv, RotateLive, UNCHANGED <<replay, offered, queue, delivered, gone>>,
         dropped \subseteq dropped', emit.ev \in dropped' \cup {emit'.ev},
         emit' \in Emitters, AtRest', emit'.pc # "remove",
         emit'.left \subseteq emit.left \cup DOMAIN segments', emit'.file \in {0, emit.file}
  PROVE  LineageInv'
  <1>1. Shapes /\ NamesGiven /\ NoneEmpty
    BY DEF LineageInv
  <1>2. /\ DOMAIN segments \subseteq DOMAIN segments'
        /\ DOMAIN segments' \subseteq DOMAIN segments \cup {names + 1}
        /\ \A n \in DOMAIN segments : segments'[n] = segments[n]
        /\ names' \in Nat /\ names <= names'
        /\ \A n \in DOMAIN segments' : n <= names'
        /\ DOMAIN segments' \subseteq Names
        /\ segments' \in [DOMAIN segments' -> Seq(Lines)]
        /\ \A n \in DOMAIN segments' : segments'[n] # <<>>
        /\ live' = <<>> /\ half' \in Halves
        /\ Spooled \subseteq Spooled'
    BY <1>1, RotateAdds
  <1>3. Shapes'
    BY <1>1, <1>2 DEF Shapes
  <1>4. ReadWhole'
    BY DEF ReadWhole
  <1>5. NamesGiven' /\ NoneEmpty'
    BY <1>1, <1>2, OlderStay DEF NoneEmpty
  <1>6. SentBehind' /\ OldestFirst'
    BY <1>1, <1>2, ReplayUndisturbed DEF LineageInv
  <1>7. Accounted'
    BY <1>2 DEF LineageInv, Accounted
  <1>8. QED
    BY <1>3, <1>4, <1>5, <1>6, <1>7 DEF LineageInv

LEMMA FullKeeps ==
  ASSUME LineageInv, Full
  PROVE  LineageInv'
  <1>1. emit \in Emitters /\ Shapes /\ NamesGiven /\ NoneEmpty
    BY DEF LineageInv, Shapes
  <1>2. DOMAIN segments' \subseteq Names
    BY <1>1, RotateAdds DEF Full
  <1>3. emit' = [emit EXCEPT !.pc = "evict", !.left = DOMAIN segments']
    BY DEF Full
  <1>4. /\ emit' \in Emitters /\ emit'.pc = "evict" /\ emit'.ev = emit.ev
        /\ emit'.left = DOMAIN segments' /\ emit'.file = emit.file
    BY <1>1, <1>2, <1>3 DEF Emitters
  <1>5. AtRest'
    BY <1>4 DEF AtRest
  <1>6. QED
    BY <1>4, <1>5, RotatesKeeps DEF Full

\* The disk refuses: the event is counted, and the emitter rests.
LEMMA AppendFailsKeeps ==
  ASSUME LineageInv, AppendFails
  PROVE  LineageInv'
  <1>1. /\ emit' = IdleEmit /\ dropped' = dropped \cup {emit.ev}
        /\ UNCHANGED <<offered, queue, replay, delivered, gone>>
    BY DEF AppendFails
  <1>2. half \in Halves
    BY DEF LineageInv, Shapes
  <1>3. CASE UNCHANGED spoolVars
    BY <1>1, <1>2, <1>3, DoneKeeps DEF spoolVars
  <1>4. CASE half' \in Interrupted /\ UNCHANGED <<live, segments, names>>
    BY <1>1, <1>4, InterruptedEnds, DoneKeeps
  <1>5. CASE RotateLive
    <2>1. /\ emit' \in Emitters /\ emit'.pc = "idle" /\ emit'.ev = Nothing
          /\ emit'.left = {} /\ emit'.file = 0
      BY <1>1, RestTypes DEF IdleEmit
    <2>2. AtRest'
      BY <2>1 DEF AtRest
    <2>3. QED
      BY <1>1, <1>5, <2>1, <2>2, RotatesKeeps
  <1>6. QED
    BY <1>3, <1>4, <1>5 DEF AppendFails

\* The cap deletes the segment it has read, and counts its events if it is text.
LEMMA DeleteKeeps ==
  ASSUME LineageInv, Delete
  PROVE  LineageInv'
  <1>1. /\ segments' = Without(emit.file)
        /\ UNCHANGED <<replay, names, live, half, offered, queue, delivered>>
    BY DEF Delete
  <1>2. Shapes /\ emit \in Emitters
    BY DEF LineageInv, Shapes
  <1>3. /\ DOMAIN segments' = DOMAIN segments \ {emit.file}
        /\ \A n \in DOMAIN segments' : segments'[n] = segments[n]
        /\ segments' \in [DOMAIN segments' -> Seq(Lines)]
    BY <1>1, <1>2, RemovesOne
  <1>4. /\ emit' \in Emitters /\ emit'.pc = "evict" /\ emit'.ev = emit.ev
        /\ emit'.left = emit.left /\ emit'.file = 0
    <2>1. emit' = [emit EXCEPT !.pc = "evict", !.file = 0, !.lines = <<>>]
      BY DEF Delete
    <2>2. <<>> \in Seq(Lines)
      OBVIOUS
    <2>3. QED
      BY <1>2, <2>1, <2>2 DEF Emitters
  <1>5. /\ dropped \subseteq dropped' /\ gone \subseteq gone'
        /\ emit.file \in DOMAIN segments =>
             EventsOf(segments[emit.file]) \subseteq dropped' \cup gone'
    <2>1. emit.file \in DOMAIN segments => emit.lines = segments[emit.file]
      BY DEF Delete, LineageInv, ReadWhole
    <2>2. CASE Readable(emit.lines)
      BY <2>1, <2>2 DEF Delete
    <2>3. CASE ~Readable(emit.lines)
      BY <2>1, <2>3 DEF Delete
    <2>4. QED
      BY <2>2, <2>3
  <1>6. Spooled \subseteq Spooled' \cup dropped' \cup gone'
    BY <1>1, <1>2, <1>5, LeavesWithFile
  <1>7. Accounted'
    BY <1>1, <1>4, <1>5, <1>6 DEF LineageInv, Accounted
  <1>8. Shapes'
    BY <1>1, <1>2, <1>3, <1>4 DEF Shapes
  <1>9. AtRest' /\ ReadWhole'
    BY <1>4 DEF AtRest, ReadWhole
  <1>10. NamesGiven' /\ NoneEmpty'
    <2>1. 0 <= names
      BY DEF LineageInv, Shapes
    <2>2. QED
      BY <1>1, <1>3, <1>4, <2>1 DEF LineageInv, NamesGiven, NoneEmpty
  <1>11. SentBehind' /\ OldestFirst'
    BY <1>1, <1>3 DEF LineageInv, SentBehind, OldestFirst
  <1>12. QED
    BY <1>7, <1>8, <1>9, <1>10, <1>11 DEF LineageInv

-----------------------------------------------------------------------------
(* The replay task. *)

\* A step of the replay task that leaves the spool and the emitter alone.
LEMMA ReplayQuiet ==
  ASSUME LineageInv, UNCHANGED <<segments, names, emit, live, half, offered, queue, dropped, gone>>,
         delivered \subseteq delivered', replay' \in Replays,
         replay'.files \subseteq replay.files,
         replay'.file \in replay.files \cup {0, replay.file},
         SentBehind', OldestFirst'
  PROVE  LineageInv'
  <1>1. Shapes'
    BY DEF LineageInv, Shapes
  <1>2. NamesGiven'
    <2>1. 0 <= names
      BY DEF LineageInv, Shapes
    <2>2. QED
      BY <2>1 DEF LineageInv, NamesGiven
  <1>3. AtRest' /\ NoneEmpty' /\ ReadWhole'
    BY DEF LineageInv, AtRest, NoneEmpty, ReadWhole
  <1>4. Spooled' = Spooled
    BY DEF Spooled
  <1>5. Accounted'
    BY <1>4 DEF LineageInv, Accounted
  <1>6. QED
    BY <1>1, <1>2, <1>3, <1>5 DEF LineageInv

\* The pass ends.
LEMMA PassEnds ==
  ASSUME LineageInv, UNCHANGED <<segments, names, emit, live, half, offered, queue, dropped, gone>>,
         delivered \subseteq delivered', replay' = IdleReplay
  PROVE  LineageInv'
  <1>1. replay'.pc = "idle" /\ replay'.files = {} /\ replay'.file = 0
    BY DEF IdleReplay
  <1>2. SentBehind' /\ OldestFirst'
    BY <1>1 DEF SentBehind, OldestFirst
  <1>3. QED
    BY <1>1, <1>2, RestTypes, ReplayQuiet

\* The first line of what is left is behind the task.
LEMMA LineKeeps ==
  ASSUME LineageInv, UNCHANGED <<segments, names, emit, live, half, offered, queue, dropped, gone>>,
         delivered \subseteq delivered', replay.pc = "send", replay' = AfterLine,
         Head(replay.lines) \in delivered' \cup {Nothing}, Nothing \notin Events
  PROVE  LineageInv'
  <1>1. replay \in Replays /\ replay.lines \in Seq(Lines) /\ replay.lines # <<>>
    BY DEF LineageInv, Shapes, Replays, SentBehind
  <1>2. /\ ToSet(replay.lines) = {Head(replay.lines)} \cup ToSet(Tail(replay.lines))
        /\ Tail(replay.lines) \in Seq(Lines)
        /\ Len(replay.lines) = 1 <=> Tail(replay.lines) = <<>>
    BY <1>1, FirstLine
  <1>3. /\ replay'.lines = Tail(replay.lines) /\ replay'.files = replay.files
        /\ replay'.file = replay.file /\ replay'.pc \in {"send", "remove"}
        /\ replay'.pc = "remove" <=> Len(replay.lines) = 1
        /\ replay' \in Replays
    BY <1>1, <1>2 DEF AfterLine, Replays
  <1>4. EventsOf(replay.lines) \subseteq delivered' \cup EventsOf(replay'.lines)
    BY <1>2, <1>3 DEF EventsOf
  <1>5. SentBehind'
    BY <1>2, <1>3, <1>4 DEF LineageInv, SentBehind
  <1>6. OldestFirst'
    BY <1>3 DEF LineageInv, OldestFirst
  <1>7. QED
    BY <1>3, <1>5, <1>6, ReplayQuiet

LEMMA SendsKeep ==
  ASSUME LineageInv, ReadFails \/ Skip \/ Resend \/ ResendFails \/ ResendUnanswered
  PROVE  LineageInv'
  <1> USE DEF spoolVars
  <1> Nothing \notin Events
    BY TornLine
  <1>1. CASE Skip
    BY <1>1, LineKeeps DEF Skip
  <1>2. CASE Resend
    BY <1>2, LineKeeps DEF Resend
  <1>3. CASE ResendFails
    BY <1>3, PassEnds DEF ResendFails
  <1>4. CASE ResendUnanswered
    BY <1>4, PassEnds DEF ResendUnanswered
  <1>5. CASE ReadFails
    BY <1>5, PassEnds DEF ReadFails
  <1>6. QED
    BY <1>1, <1>2, <1>3, <1>4, <1>5

\* The next segment is the oldest on the list.
LEMMA OpenKeeps ==
  ASSUME LineageInv, Open
  PROVE  LineageInv'
  <1>1. UNCHANGED <<segments, names, emit, live, half, offered, queue, delivered, dropped, gone>>
    BY DEF Open, spoolVars
  <1>2. CASE replay' = IdleReplay
    BY <1>1, <1>2, PassEnds
  <1>3. ASSUME NEW n \in replay.files, Oldest(n, replay.files),
               replay' = IF n \in DOMAIN segments
                         THEN [pc |-> "send", files |-> replay.files \ {n}, file |-> n,
                               lines |-> segments[n]]
                         ELSE [replay EXCEPT !.files = @ \ {n}]
        PROVE  LineageInv'
    <2>1. /\ replay \in Replays /\ replay.pc = "open" /\ replay.file = 0
          /\ replay.files \subseteq Nat \ {0}
          /\ DOMAIN segments \subseteq Nat \ {0}
      BY DEF Open, LineageInv, Shapes, OldestFirst, Replays, Names
    <2>2. \A m \in replay.files \ {n} : n < m
      BY <1>3, <2>1 DEF Oldest
    <2>3. \A m \in DOMAIN segments : \A k \in replay.files :
            m \notin replay.files => k < m
      BY <2>1 DEF LineageInv, OldestFirst
    <2>4. CASE n \in DOMAIN segments
      <3>1. /\ replay'.pc = "send" /\ replay'.files = replay.files \ {n}
            /\ replay'.file = n /\ replay'.lines = segments[n]
        BY <1>3, <2>4
      <3>2. replay' \in Replays
        BY <1>3, <2>1, <2>4 DEF Replays, LineageInv, Shapes, Names
      <3>3. SentBehind'
        BY <1>1, <3>1, <2>4 DEF LineageInv, SentBehind, NoneEmpty
      <3>4. OldestFirst'
        BY <1>1, <3>1, <2>1, <2>2, <2>3 DEF OldestFirst
      <3>5. QED
        BY <1>1, <3>1, <3>2, <3>3, <3>4, ReplayQuiet
    <2>5. CASE n \notin DOMAIN segments
      <3>1. /\ replay'.pc = "open" /\ replay'.files = replay.files \ {n}
            /\ replay'.file = 0 /\ replay' \in Replays
        BY <1>3, <2>1, <2>5 DEF Replays
      <3>2. SentBehind'
        BY <3>1 DEF SentBehind
      <3>3. OldestFirst'
        <4>1. SUFFICES ASSUME NEW m \in DOMAIN segments,
                              NEW k \in (replay.files \ {n}) \cup {0},
                              m \notin (replay.files \ {n}) \cup {0}
                       PROVE  k < m
          BY <1>1, <3>1 DEF OldestFirst
        <4>2. m \in Nat \ {0} /\ m \notin replay.files
          BY <2>1, <2>5, <4>1
        <4>3. QED
          BY <2>3, <4>2
      <3>4. QED
        BY <1>1, <3>1, <3>2, <3>3, ReplayQuiet
    <2>6. QED
      BY <2>4, <2>5
  <1>4. QED
    BY <1>2, <1>3 DEF Open

\* The task rotates the live file and lists every segment.
LEMMA ListKeeps ==
  ASSUME LineageInv, List
  PROVE  LineageInv'
  <1>1. RotateLive /\ UNCHANGED <<emit, offered, queue, delivered, dropped, gone>>
    BY DEF List
  <1>2. Shapes /\ NamesGiven /\ NoneEmpty
    BY DEF LineageInv
  <1>3. /\ names' \in Nat /\ names <= names'
        /\ \A n \in DOMAIN segments' : n <= names'
        /\ DOMAIN segments' \subseteq Names
        /\ segments' \in [DOMAIN segments' -> Seq(Lines)]
        /\ \A n \in DOMAIN segments' : segments'[n] # <<>>
        /\ live' = <<>> /\ half' \in Halves
        /\ Spooled \subseteq Spooled'
    BY <1>1, <1>2, RotateAdds
  <1>4. replay' = [IdleReplay EXCEPT !.pc = "open", !.files = DOMAIN segments']
    BY DEF List
  <1>5. /\ replay'.pc = "open" /\ replay'.files = DOMAIN segments' /\ replay'.file = 0
        /\ replay' \in Replays
    BY <1>3, <1>4, RestTypes DEF IdleReplay, Replays
  <1>6. Shapes'
    BY <1>1, <1>2, <1>3, <1>5 DEF Shapes
  <1>7. NamesGiven' /\ NoneEmpty'
    <2>1. \A n \in Nat : n <= names => n <= names'
      BY <1>2, <1>3 DEF Shapes
    <2>2. emit.left \subseteq Nat /\ emit.file \in Nat /\ 0 <= names'
      BY <1>2, <1>3 DEF Shapes, Emitters, Names
    <2>3. QED
      BY <1>1, <1>2, <1>3, <1>5, <2>1, <2>2 DEF NamesGiven, NoneEmpty
  <1>8. AtRest' /\ ReadWhole'
    <2>1. emit.pc # "remove"
      BY DEF List, Locked
    <2>2. QED
      BY <1>1, <2>1 DEF LineageInv, AtRest, ReadWhole
  <1>9. SentBehind' /\ OldestFirst'
    BY <1>5 DEF SentBehind, OldestFirst
  <1>10. Accounted'
    BY <1>1, <1>3 DEF LineageInv, Accounted
  <1>11. QED
    BY <1>6, <1>7, <1>8, <1>9, <1>10 DEF LineageInv

\* A drained segment goes: all its events are with the collector.
LEMMA DrainedKeeps ==
  ASSUME LineageInv, Drained
  PROVE  LineageInv'
  <1>1. /\ segments' = Without(replay.file)
        /\ UNCHANGED <<emit, names, live, half, offered, queue, delivered, dropped, gone>>
    BY DEF Drained
  <1>2. Shapes /\ replay \in Replays /\ replay.pc = "remove"
    BY DEF Drained, LineageInv, Shapes
  <1>3. /\ DOMAIN segments' = DOMAIN segments \ {replay.file}
        /\ \A n \in DOMAIN segments' : segments'[n] = segments[n]
        /\ segments' \in [DOMAIN segments' -> Seq(Lines)]
    BY <1>1, <1>2, RemovesOne
  <1>4. /\ replay'.pc = "open" /\ replay'.files = replay.files /\ replay'.file = 0
        /\ replay' \in Replays
    <2>1. replay' = [replay EXCEPT !.pc = "open", !.file = 0]
      BY DEF Drained
    <2>2. QED
      BY <1>2, <2>1 DEF Replays
  <1>5. replay.file \in DOMAIN segments => EventsOf(segments[replay.file]) \subseteq delivered
    <2>1. replay.lines = <<>>
      BY <1>2 DEF LineageInv, SentBehind
    <2>2. EventsOf(<<>>) = {}
      BY NoLine DEF EventsOf
    <2>3. QED
      BY <1>2, <2>1, <2>2 DEF LineageInv, SentBehind
  <1>6. Spooled \subseteq Spooled' \cup delivered
    BY <1>1, <1>2, <1>5, LeavesWithFile
  <1>7. Accounted'
    BY <1>1, <1>6 DEF LineageInv, Accounted
  <1>8. Shapes'
    BY <1>1, <1>2, <1>3, <1>4 DEF Shapes
  <1>9. AtRest' /\ ReadWhole'
    BY <1>1, <1>3 DEF LineageInv, AtRest, ReadWhole
  <1>10. NamesGiven' /\ NoneEmpty'
    <2>1. 0 <= names
      BY DEF LineageInv, Shapes
    <2>2. QED
      BY <1>1, <1>3, <1>4, <2>1 DEF LineageInv, NamesGiven, NoneEmpty
  <1>11. SentBehind'
    BY <1>4 DEF SentBehind
  <1>12. OldestFirst'
    <2>1. SUFFICES ASSUME NEW n \in DOMAIN segments, n # replay.file,
                          NEW m \in replay.files \cup {0}, n \notin replay.files
                   PROVE  m < n
      BY <1>3, <1>4 DEF OldestFirst
    <2>2. n \in Nat \ {0}
      BY <1>2 DEF Shapes, Names
    <2>3. CASE m \in replay.files
      BY <1>2, <2>1, <2>3 DEF LineageInv, OldestFirst
    <2>4. QED
      BY <2>2, <2>3
  <1>13. QED
    BY <1>7, <1>8, <1>9, <1>10, <1>11, <1>12 DEF LineageInv

-----------------------------------------------------------------------------
(* Crash and restart. *)

LEMMA CrashKeeps ==
  ASSUME LineageInv, Crash
  PROVE  LineageInv'
  <1>1. UNCHANGED <<offered, live, segments, names, delivered, dropped>>
    BY DEF Crash
  <1>2. /\ emit' \in Emitters /\ emit'.pc = "down" /\ emit'.ev = Nothing
        /\ emit'.left = {} /\ emit'.file = 0
    BY RestTypes DEF Crash, IdleEmit
  <1>3. /\ replay' \in Replays /\ replay'.pc = "idle" /\ replay'.files = {}
        /\ replay'.file = 0
    BY RestTypes DEF Crash, IdleReplay
  <1>4. queue' \in Seq(Events)
    BY DEF Crash
  <1>5. half' \in Halves
    BY InterruptedEnds DEF Crash, LineageInv, Shapes
  <1>6. Shapes'
    BY <1>1, <1>2, <1>3, <1>4, <1>5 DEF LineageInv, Shapes
  <1>7. AtRest' /\ ReadWhole'
    BY <1>2 DEF AtRest, ReadWhole
  <1>8. NamesGiven' /\ NoneEmpty'
    <2>1. 0 <= names
      BY DEF LineageInv, Shapes
    <2>2. QED
      BY <1>1, <1>2, <1>3, <2>1 DEF LineageInv, NamesGiven, NoneEmpty
  <1>9. SentBehind' /\ OldestFirst'
    BY <1>3 DEF SentBehind, OldestFirst
  <1>10. Accounted'
    <2>1. Spooled' = Spooled
      BY <1>1 DEF Spooled
    <2>2. gone' = gone \cup ToSet(queue) \cup ({emit.ev} \ {Nothing})
      BY DEF Crash
    <2>3. QED
      BY <1>1, <1>2, <2>1, <2>2 DEF LineageInv, Accounted
  <1>11. QED
    BY <1>6, <1>7, <1>8, <1>9, <1>10 DEF LineageInv

LEMMA RestartKeeps ==
  ASSUME LineageInv, Restart
  PROVE  LineageInv'
  <1>1. UNCHANGED <<segments, names, replay, live, half, offered, queue, delivered, dropped, gone>>
    BY DEF Restart, spoolVars
  <1>2. /\ emit'.pc = "idle" /\ emit'.ev = Nothing /\ emit'.left = {} /\ emit'.file = 0
        /\ emit' \in Emitters
    BY RestTypes DEF Restart, IdleEmit
  <1>3. emit.ev = Nothing
    BY DEF Restart, LineageInv, AtRest
  <1>4. Accounted'
    <2>1. Spooled' = Spooled
      BY <1>1 DEF Spooled
    <2>2. QED
      BY <1>1, <1>2, <1>3, <2>1 DEF LineageInv, Accounted
  <1>5. AtRest' /\ ReadWhole'
    BY <1>2 DEF AtRest, ReadWhole
  <1>6. QED
    BY <1>1, <1>2, <1>4, <1>5, QuietStep DEF LineageInv, Shapes

-----------------------------------------------------------------------------
(* The specification. *)

LEMMA LineageStarts ==
  ASSUME Init
  PROVE  LineageInv
  <1>1. /\ emit.pc = "idle" /\ emit.ev = Nothing /\ emit.left = {} /\ emit.file = 0
        /\ replay.pc = "idle" /\ replay.files = {} /\ replay.file = 0
    BY DEF Init, IdleEmit, IdleReplay
  <1>2. DOMAIN segments = {} /\ segments \in [DOMAIN segments -> Seq(Lines)]
    BY DEF Init
  <1>3. Shapes
    <2>1. /\ offered = {} /\ queue = <<>> /\ emit = IdleEmit /\ live = <<>>
          /\ half = "none" /\ names = 0 /\ replay = IdleReplay
      BY DEF Init
    <2>2. <<>> \in Seq(Events) /\ <<>> \in Seq(Lines) /\ 0 \in Nat /\ "none" \in Halves
      BY DEF Halves
    <2>3. QED
      BY <1>2, <2>1, <2>2, RestTypes DEF Shapes
  <1>4. AtRest /\ NoneEmpty /\ ReadWhole /\ SentBehind /\ OldestFirst
    BY <1>1, <1>2 DEF AtRest, NoneEmpty, ReadWhole, SentBehind, OldestFirst
  <1>5. NamesGiven
    <2>1. names = 0 /\ 0 <= 0
      BY DEF Init
    <2>2. QED
      BY <1>1, <1>2, <2>1 DEF NamesGiven
  <1>6. Accounted
    BY DEF Init, Accounted
  <1>7. QED
    BY <1>3, <1>4, <1>5, <1>6 DEF LineageInv

LEMMA LineageStep ==
  ASSUME LineageInv, [Next]_vars
  PROVE  LineageInv'
  <1>1. ASSUME NEW e \in Events, Offer(e) PROVE LineageInv'
    BY <1>1, OfferKeeps
  <1>2. CASE Emitter
    BY <1>2, TakeKeeps, SendingKeeps, FullKeeps, EvictKeeps, DeleteKeeps, AppendLineKeeps,
       AppendFailsKeeps DEF Emitter
  <1>3. CASE Replay
    BY <1>3, ListKeeps, OpenKeeps, SendsKeep, DrainedKeeps DEF Replay
  <1>4. CASE Crash
    BY <1>4, CrashKeeps
  <1>5. CASE Restart
    BY <1>5, RestartKeeps
  <1>6. CASE UNCHANGED vars
    <2>1. UNCHANGED <<offered, queue, emit, live, half, segments, names, replay, delivered,
                      dropped, gone>>
      BY <1>6 DEF vars
    <2>2. Shapes' /\ AtRest' /\ NamesGiven' /\ NoneEmpty' /\ ReadWhole' /\ SentBehind'
          /\ OldestFirst'
      BY <2>1 DEF LineageInv, Shapes, AtRest, NamesGiven, NoneEmpty, ReadWhole, SentBehind,
                  OldestFirst
    <2>3. Accounted'
      BY <2>1 DEF LineageInv, Accounted, Spooled
    <2>4. QED
      BY <2>2, <2>3 DEF LineageInv
  <1>7. QED
    BY <1>1, <1>2, <1>3, <1>4, <1>5, <1>6 DEF Next

LEMMA LineageAlways == Spec => []LineageInv
  <1>1. Init => LineageInv
    BY LineageStarts
  <1>2. LineageInv /\ [Next]_vars => LineageInv'
    BY LineageStep
  <1>3. QED
    BY <1>1, <1>2, PTL DEF Spec

\* Accounted: an event the observer took is delivered, spooled, in memory,
\* counted as dropped or as an error of the sink, or lost in one of the three
\* ways that nothing counts (with a crash, glued to half a line, deleted in a
\* file that is no text), whatever append_to_spool, drain_once, a failing
\* disk and a crash do between each other's steps.
THEOREM EventsAlwaysAccounted == Spec => []Accounted
  <1>1. LineageInv => Accounted
    BY DEF LineageInv
  <1>2. QED
    BY <1>1, LineageAlways, PTL

\* ReplayInOrder: while drain_once sends a segment, no older one is left in
\* the directory, though the cap deletes and rotates without its knowledge.
THEOREM ReplayAlwaysInOrder == Spec => []ReplayInOrder
  <1>1. LineageInv => ReplayInOrder
    <2>1. SUFFICES ASSUME LineageInv, replay.pc = "send",
                          NEW n \in DOMAIN segments, n < replay.file
                   PROVE  FALSE
      BY DEF ReplayInOrder, Earlier
    <2>2. n \in Nat /\ replay.file \in Nat /\ replay.files \subseteq Nat
      BY <2>1 DEF LineageInv, Shapes, Replays, Names
    <2>3. n \notin replay.files
      BY <2>1, <2>2 DEF LineageInv, OldestFirst
    <2>4. n # replay.file
      BY <2>1, <2>2
    <2>5. replay.file < n
      BY <2>1, <2>3, <2>4 DEF LineageInv, OldestFirst
    <2>6. QED
      BY <2>1, <2>2, <2>5
  <1>2. QED
    BY <1>1, LineageAlways, PTL
-----------------------------------------------------------------------------
(* How many bytes some events take.  The sum over a set is a fold, whose    *)
(* recursion is on the set; the lemmas below are proved by looking at the   *)
(* smallest set for which they would fail.                                  *)

Bytes(set) == MapThenSumSet(LAMBDA e : Size[e], set)

\* The event the fold takes out of a set first.
First(set) == CHOOSE e \in set : TRUE

\* The sum of each set of a family, by the sum of a smaller set.
SumsOf(sums, family) ==
  sums = [set \in family |->
            IF set = {} THEN 0 ELSE Size[First(set)] + sums[set \ {First(set)}]]

\* Some numbers have a smallest one.
LEMMA LeastNumber ==
  ASSUME NEW numbers, numbers \subseteq Nat, numbers # {}
  PROVE  \E n \in numbers : \A m \in numbers : n <= m
  <1> DEFINE R == OpToRel(<, Nat)
  <1>1. IsWellFoundedOn(R, Nat)
    BY NatLessThanWellFounded
  <1>2. PICK n \in numbers : \A m \in numbers : ~(<<m, n>> \in R)
    <2> HIDE DEF R
    <2> QED
      BY <1>1, WFMin
  <1>3. \A m \in numbers : ~(m < n)
    BY <1>2 DEF OpToRel
  <1> QED
    BY <1>3

\* Events are finitely many, and a set without one of its events is smaller.
LEMMA EventSets ==
  ASSUME NEW set, set \subseteq Events
  PROVE  /\ IsFiniteSet(set)
         /\ Cardinality(set) \in Nat
         /\ set # {} => First(set) \in set
         /\ \A e \in set : Cardinality(set \ {e}) = Cardinality(set) - 1
         /\ \A sub \in SUBSET set : Cardinality(sub) <= Cardinality(set)
  <1>1. IsFiniteSet(Events)
    BY FS_Interval, SpoolConstants DEF Events
  <1>2. IsFiniteSet(set)
    BY <1>1, FS_Subset
  <1>3. Cardinality(set) \in Nat
    BY <1>2, FS_CardinalityType
  <1>4. set # {} => First(set) \in set
    BY DEF First
  <1>5. \A e \in set : Cardinality(set \ {e}) = Cardinality(set) - 1
    BY <1>2, FS_RemoveElement
  <1>6. \A sub \in SUBSET set : Cardinality(sub) <= Cardinality(set)
    BY <1>2, FS_Subset
  <1> QED
    BY <1>2, <1>3, <1>4, <1>5, <1>6

\* A set of sets of events has a smallest member.
LEMMA SmallestSet ==
  ASSUME NEW family, family \subseteq SUBSET Events, family # {}
  PROVE  \E set \in family : \A other \in family :
           Cardinality(set) <= Cardinality(other)
  <1> DEFINE numbers == {Cardinality(set) : set \in family}
  <1>1. numbers \subseteq Nat /\ numbers # {}
    BY EventSets
  <1>2. PICK n \in numbers : \A m \in numbers : n <= m
    <2> HIDE DEF numbers
    <2> QED
      BY <1>1, LeastNumber
  <1>3. PICK set \in family : n = Cardinality(set)
    BY <1>2
  <1>4. \A other \in family : Cardinality(other) \in numbers
    OBVIOUS
  <1> QED
    BY <1>2, <1>3, <1>4

\* There is a function of sums for all sets of up to n events.
LEMMA SumsUpTo ==
  ASSUME NEW all, all \subseteq Events
  PROVE  \A n \in Nat : \E sums : SumsOf(sums, {set \in SUBSET all : Cardinality(set) <= n})
  <1> DEFINE upTo(n) == {set \in SUBSET all : Cardinality(set) <= n}
             bad == {n \in Nat : ~ \E sums : SumsOf(sums, upTo(n))}
  <1>1. SUFFICES ASSUME bad # {}
                 PROVE  FALSE
    OBVIOUS
  <1>2. PICK n \in bad : \A m \in bad : n <= m
    <2>1. bad \subseteq Nat
      OBVIOUS
    <2> HIDE DEF bad
    <2> QED
      BY <1>1, <2>1, LeastNumber
  <1>3. CASE n = 0
    <2>1. upTo(0) \subseteq {{}}
      <3>1. ASSUME NEW set \in upTo(0)
            PROVE  set = {}
        <4>1. set \subseteq Events /\ Cardinality(set) <= 0
          OBVIOUS
        <4>2. IsFiniteSet(set) /\ Cardinality(set) = 0
          BY <4>1, EventSets
        <4> QED
          BY <4>2, FS_EmptySet
      <3> QED
        BY <3>1
    <2>2. SumsOf([set \in upTo(0) |-> 0], upTo(0))
      BY <2>1 DEF SumsOf
    <2> QED
      BY <1>2, <1>3, <2>2
  <1>4. CASE n # 0
    <2>1. n - 1 \in Nat /\ n - 1 \notin bad
      <3>1. n \in Nat
        BY <1>2
      <3> HIDE DEF bad
      <3> QED
        BY <1>2, <1>4, <3>1
    <2>2. PICK sums : SumsOf(sums, upTo(n - 1))
      BY <2>1
    <2> DEFINE more == [set \in upTo(n) |->
                  IF set = {} THEN 0 ELSE Size[First(set)] + sums[set \ {First(set)}]]
    <2>3. ASSUME NEW set \in upTo(n), set # {}
          PROVE  more[set \ {First(set)}] = sums[set \ {First(set)}]
      <3> DEFINE less == set \ {First(set)}
      <3>1. set \subseteq Events /\ Cardinality(set) <= n /\ less \in SUBSET all
        OBVIOUS
      <3>2. Cardinality(set) \in Nat /\ Cardinality(less) = Cardinality(set) - 1
        BY <2>3, <3>1, EventSets
      <3>3. less \in upTo(n - 1) /\ less \in upTo(n)
        BY <3>1, <3>2, <1>2
      <3>4. sums[less] = IF less = {} THEN 0 ELSE Size[First(less)] + sums[less \ {First(less)}]
        <4> HIDE DEF less, upTo
        <4> QED
          BY <2>2, <3>3 DEF SumsOf
      <3>5. more[less] = IF less = {} THEN 0 ELSE Size[First(less)] + sums[less \ {First(less)}]
        <4> HIDE DEF less, upTo
        <4> QED
          BY <3>3
      <3> QED
        BY <3>4, <3>5
    <2>4. SumsOf(more, upTo(n))
      <3> HIDE DEF upTo
      <3>1. more = [set \in upTo(n) |->
              IF set = {} THEN 0 ELSE Size[First(set)] + more[set \ {First(set)}]]
        BY <2>3
      <3> HIDE DEF more
      <3> QED
        BY <3>1 DEF SumsOf
    <2> QED
      BY <1>2, <2>4
  <1> QED
    BY <1>3, <1>4

\* The recursion of the fold over a set of events has a solution.
LEMMA SumsExist ==
  ASSUME NEW all, all \subseteq Events
  PROVE  SumsOf(CHOOSE sums : SumsOf(sums, SUBSET all), SUBSET all)
  <1>1. {set \in SUBSET all : Cardinality(set) <= Cardinality(all)} = SUBSET all
    BY EventSets
  <1>2. \E sums : SumsOf(sums, {set \in SUBSET all : Cardinality(set) <= Cardinality(all)})
    BY SumsUpTo, EventSets
  <1>3. \E sums : SumsOf(sums, SUBSET all)
    BY <1>1, <1>2
  <1> QED
    BY <1>3

\* Two solutions agree on a set both are about.
LEMMA SumsAgree ==
  ASSUME NEW all, all \subseteq Events, NEW some, some \subseteq all,
         NEW f, SumsOf(f, SUBSET all), NEW g, SumsOf(g, SUBSET some)
  PROVE  f[some] = g[some]
  <1> DEFINE bad == {set \in SUBSET some : f[set] # g[set]}
  <1>1. SUFFICES ASSUME bad # {}
                 PROVE  FALSE
    OBVIOUS
  <1>2. PICK set \in bad : \A other \in bad : Cardinality(set) <= Cardinality(other)
    <2>1. bad \subseteq SUBSET Events
      OBVIOUS
    <2> HIDE DEF bad
    <2> QED
      BY <1>1, <2>1, SmallestSet
  <1>3. /\ f[set] = IF set = {} THEN 0 ELSE Size[First(set)] + f[set \ {First(set)}]
        /\ g[set] = IF set = {} THEN 0 ELSE Size[First(set)] + g[set \ {First(set)}]
    <2>1. set \in SUBSET some /\ set \in SUBSET all
      BY <1>2
    <2> QED
      BY <2>1 DEF SumsOf
  <1>4. set # {}
    BY <1>2, <1>3
  <1>5. set \ {First(set)} \notin bad
    <2>1. set \subseteq Events
      BY <1>2
    <2>2. Cardinality(set) \in Nat /\ Cardinality(set \ {First(set)}) = Cardinality(set) - 1
      BY <1>4, <2>1, EventSets
    <2> HIDE DEF bad
    <2> QED
      BY <1>2, <2>2
  <1>6. f[set \ {First(set)}] = g[set \ {First(set)}]
    BY <1>2, <1>5
  <1> QED
    BY <1>2, <1>3, <1>6

\* No events take no bytes; the others their first and the rest.
LEMMA BytesStep ==
  ASSUME NEW set, set \subseteq Events
  PROVE  Bytes(set) = IF set = {} THEN 0
                      ELSE Size[First(set)] + Bytes(set \ {First(set)})
  <1> DEFINE sums(all) == CHOOSE f : SumsOf(f, SUBSET all)
  <1>1. \A all : Bytes(all) = sums(all)[all]
    BY DEF Bytes, MapThenSumSet, MapThenFoldSet, SumsOf, First
  <1>2. SumsOf(sums(set), SUBSET set)
    BY SumsExist
  <1>3. sums(set)[set] = IF set = {} THEN 0
                         ELSE Size[First(set)] + sums(set)[set \ {First(set)}]
    <2> HIDE DEF sums
    <2>1. set \in SUBSET set
      OBVIOUS
    <2> QED
      BY <1>2, <2>1 DEF SumsOf
  <1>4. sums(set)[set \ {First(set)}] = sums(set \ {First(set)})[set \ {First(set)}]
    <2> DEFINE less == set \ {First(set)}
    <2>1. less \subseteq set /\ less \subseteq Events /\ less \in SUBSET less
      OBVIOUS
    <2>2. SumsOf(sums(less), SUBSET less)
      BY <2>1, SumsExist
    <2> HIDE DEF sums, less
    <2>3. sums(set)[less] = sums(less)[less]
      BY <1>2, <2>1, <2>2, SumsAgree
    <2> QED
      BY <2>3 DEF less
  <1> HIDE DEF sums
  <1> QED
    BY <1>1, <1>3, <1>4

\* Bytes are a number.
LEMMA BytesNat ==
  ASSUME NEW set, set \subseteq Events
  PROVE  Bytes(set) \in Nat
  <1> DEFINE bad == {s \in SUBSET Events : Bytes(s) \notin Nat}
  <1>1. SUFFICES ASSUME bad # {}
                 PROVE  FALSE
    OBVIOUS
  <1>2. PICK s \in bad : \A other \in bad : Cardinality(s) <= Cardinality(other)
    <2>1. bad \subseteq SUBSET Events
      OBVIOUS
    <2> HIDE DEF bad
    <2> QED
      BY <1>1, <2>1, SmallestSet
  <1>3. s \subseteq Events /\ Bytes(s) \notin Nat
    BY <1>2
  <1>4. s # {}
    <2>1. Bytes({}) = 0
      BY BytesStep
    <2> HIDE DEF bad
    <2> QED
      BY <1>3, <2>1
  <1>5. Cardinality(s) \in Nat /\ Cardinality(s \ {First(s)}) = Cardinality(s) - 1
        /\ First(s) \in s
    BY <1>3, <1>4, EventSets
  <1>6. s \ {First(s)} \notin bad
    <2> HIDE DEF bad
    <2> QED
      BY <1>2, <1>5
  <1>7. Bytes(s \ {First(s)}) \in Nat
    BY <1>3, <1>6
  <1>8. Size[First(s)] \in Nat
    BY <1>3, <1>5, SpoolConstants DEF Events
  <1>9. Bytes(s) = Size[First(s)] + Bytes(s \ {First(s)})
    BY <1>3, <1>4, BytesStep
  <1> QED
    BY <1>3, <1>7, <1>8, <1>9

\* Any event can be counted first.
LEMMA BytesWithout ==
  ASSUME NEW set, set \subseteq Events, NEW e \in set
  PROVE  Bytes(set) = Size[e] + Bytes(set \ {e})
  <1> DEFINE bad == {s \in SUBSET Events : \E x \in s : Bytes(s) # Size[x] + Bytes(s \ {x})}
  <1>1. SUFFICES ASSUME bad # {}
                 PROVE  FALSE
    OBVIOUS
  <1>2. PICK s \in bad : \A other \in bad : Cardinality(s) <= Cardinality(other)
    <2>1. bad \subseteq SUBSET Events
      OBVIOUS
    <2> HIDE DEF bad
    <2> QED
      BY <1>1, <2>1, SmallestSet
  <1>3. s \subseteq Events
    BY <1>2
  <1>4. PICK x \in s : Bytes(s) # Size[x] + Bytes(s \ {x})
    BY <1>2
  <1> DEFINE y == First(s)
  <1>5. Cardinality(s) \in Nat /\ y \in s
        /\ Cardinality(s \ {y}) = Cardinality(s) - 1
    BY <1>3, <1>4, EventSets
  <1>6. Bytes(s) = Size[y] + Bytes(s \ {y})
    BY <1>3, <1>4, BytesStep
  <1> HIDE DEF y
  <1>7. x # y
    BY <1>4, <1>6
  <1>8. s \ {y} \notin bad
    <2> HIDE DEF bad
    <2> QED
      BY <1>2, <1>5
  <1>9. Bytes(s \ {y}) = Size[x] + Bytes((s \ {y}) \ {x})
    <2>1. s \ {y} \in SUBSET Events /\ x \in s \ {y}
      BY <1>3, <1>7
    <2> QED
      BY <1>8, <2>1
  <1>10. s \ {x} \notin bad
    <2>1. Cardinality(s \ {x}) = Cardinality(s) - 1
      BY <1>3, EventSets
    <2> HIDE DEF bad
    <2> QED
      BY <1>2, <1>5, <2>1
  <1>11. Bytes(s \ {x}) = Size[y] + Bytes((s \ {x}) \ {y})
    <2>1. s \ {x} \in SUBSET Events /\ y \in s \ {x}
      BY <1>3, <1>5, <1>7
    <2> QED
      BY <1>10, <2>1
  <1>12. (s \ {x}) \ {y} = (s \ {y}) \ {x}
    OBVIOUS
  <1>13. /\ Size[x] \in Nat /\ Size[y] \in Nat
         /\ Bytes((s \ {x}) \ {y}) \in Nat
    <2>1. x \in Events /\ y \in Events /\ (s \ {x}) \ {y} \subseteq Events
      BY <1>3, <1>5
    <2> QED
      BY <2>1, BytesNat, SpoolConstants DEF Events
  <1>14. Bytes(s) = Size[x] + Bytes(s \ {x})
    <2>1. PICK a, b, c : a = Size[x] /\ b = Size[y] /\ c = Bytes((s \ {x}) \ {y})
      OBVIOUS
    <2>2. Bytes(s) = b + (a + c) /\ Bytes(s \ {x}) = b + c
      BY ONLY <1>6, <1>9, <1>11, <1>12, <2>1, Zenon
    <2>3. a \in Nat /\ b \in Nat /\ c \in Nat
      BY ONLY <1>13, <2>1, Zenon
    <2>4. b + (a + c) = a + (b + c)
      BY ONLY <2>3
    <2> QED
      BY ONLY <2>1, <2>2, <2>4, Zenon
  <1> QED
    BY ONLY <1>4, <1>14, Zenon

\* The bytes of a set are those of a part of it and those of the others.
LEMMA BytesSplit ==
  ASSUME NEW all, all \subseteq Events, NEW part, part \subseteq all
  PROVE  Bytes(all) = Bytes(part) + Bytes(all \ part)
  <1> DEFINE bad == {s \in SUBSET Events : \E t \in SUBSET Events :
                       s \subseteq t /\ Bytes(t) # Bytes(s) + Bytes(t \ s)}
  <1>1. SUFFICES ASSUME bad # {}
                 PROVE  FALSE
    OBVIOUS
  <1>2. PICK s \in bad : \A other \in bad : Cardinality(s) <= Cardinality(other)
    <2>1. bad \subseteq SUBSET Events
      OBVIOUS
    <2> HIDE DEF bad
    <2> QED
      BY <1>1, <2>1, SmallestSet
  <1>3. s \subseteq Events
    BY <1>2
  <1>4. PICK t \in SUBSET Events : s \subseteq t /\ Bytes(t) # Bytes(s) + Bytes(t \ s)
    BY <1>2
  <1>5. s # {}
    <2>1. Bytes({}) = 0
      BY BytesStep
    <2>2. Bytes(t) \in Nat /\ t \ {} = t
      BY BytesNat
    <2> QED
      BY <1>4, <2>1, <2>2
  <1>6. PICK e \in s : TRUE
    BY <1>5
  <1>7. s \ {e} \notin bad
    <2>1. Cardinality(s) \in Nat /\ Cardinality(s \ {e}) = Cardinality(s) - 1
      BY <1>3, EventSets
    <2> HIDE DEF bad
    <2> QED
      BY <1>2, <2>1
  <1>8. Bytes(t \ {e}) = Bytes(s \ {e}) + Bytes((t \ {e}) \ (s \ {e}))
    <2>1. s \ {e} \in SUBSET Events /\ t \ {e} \in SUBSET Events /\ s \ {e} \subseteq t \ {e}
      BY <1>3, <1>4
    <2> QED
      BY <1>7, <2>1
  <1>9. (t \ {e}) \ (s \ {e}) = t \ s
    BY <1>6
  <1>10. Bytes(t) = Size[e] + Bytes(t \ {e}) /\ Bytes(s) = Size[e] + Bytes(s \ {e})
    BY <1>3, <1>4, BytesWithout
  <1>11. /\ Size[e] \in Nat /\ Bytes(s \ {e}) \in Nat /\ Bytes(t \ s) \in Nat
    <2>1. e \in Events /\ s \ {e} \subseteq Events /\ t \ s \subseteq Events
      BY <1>3, <1>4
    <2> QED
      BY <2>1, BytesNat, SpoolConstants DEF Events
  <1>12. Bytes(t) = Bytes(s) + Bytes(t \ s)
    <2>1. PICK a, b, c : a = Size[e] /\ b = Bytes(s \ {e}) /\ c = Bytes(t \ s)
      OBVIOUS
    <2>2. Bytes(t \ {e}) = b + c
      BY ONLY <1>8, <1>9, <2>1, Zenon
    <2>3. Bytes(t) = a + (b + c) /\ Bytes(s) = a + b
      BY ONLY <1>10, <2>1, <2>2, Zenon
    <2>4. a \in Nat /\ b \in Nat /\ c \in Nat
      BY ONLY <1>11, <2>1, Zenon
    <2>5. a + (b + c) = (a + b) + c
      BY ONLY <2>4
    <2> QED
      BY ONLY <2>1, <2>3, <2>5, Zenon
  <1> QED
    BY ONLY <1>4, <1>12, Zenon
-----------------------------------------------------------------------------
(* The cap. *)

\* No event is in two files of the spool.
InOneFile ==
  /\ \A m, n \in DOMAIN segments :
       m # n => EventsOf(segments[m]) \cap EventsOf(segments[n]) = {}
  /\ \A n \in DOMAIN segments : EventsOf(live) \cap EventsOf(segments[n]) = {}

\* Every event is new when it is offered, and leaves the channel and the
\* emitter before it is in the spool.
TakenOnce ==
  /\ offered = 1..Cardinality(offered)
  /\ Spooled \cup ToSet(queue) \cup ({emit.ev} \ {Nothing}) \subseteq offered
  /\ emit.ev \notin Spooled \cup ToSet(queue)
  /\ ToSet(queue) \cap Spooled = {}
  /\ \A i, j \in DOMAIN queue : queue[i] = queue[j] => i = j
  /\ emit.pc \notin {"idle", "down"} => emit.ev \in Events

\* While the spool is measured it only shrinks.  While the cap deletes
\* segments, all there is to delete is on its list and its count is not below
\* what is left; a segment that the replay task takes away after the cap has
\* read it is still to be subtracted.  When the cap is done the line fits,
\* unless the spool was taken for empty, and nothing is added before it.
UnderCap ==
  /\ misread \/ TotalBytes <= MaxBytes
  /\ emit.pc = "append" => misread \/ TotalBytes + Size[emit.ev] <= MaxBytes
  /\ emit.pc = "measure" => total \in Nat /\ TotalBytes <= total
  /\ emit.pc \in {"evict", "remove"} =>
       live = <<>> /\ Size[emit.ev] <= MaxBytes /\ total \in Nat
  /\ emit.pc = "evict" => DOMAIN segments \subseteq emit.left /\ TotalBytes <= total
  /\ emit.pc = "remove" =>
       /\ DOMAIN segments \subseteq emit.left \cup {emit.file}
       /\ TotalBytes + (IF emit.file \in DOMAIN segments THEN 0 ELSE Length(emit.lines)) <= total

CapInv == InOneFile /\ TakenOnce /\ UnderCap

\* The spool is made of events.
LEMMA SpoolOfEvents ==
  ASSUME Shapes
  PROVE  /\ Spooled \subseteq Events
         /\ \A lines \in Seq(Lines) : EventsOf(lines) \subseteq Events
  <1>1. \A lines \in Seq(Lines) : EventsOf(lines) \subseteq Events
    BY DEF EventsOf
  <1>2. EventsOf(live) \subseteq Events
    BY <1>1 DEF Shapes
  <1>3. \A n \in DOMAIN segments : EventsOf(segments[n]) \subseteq Events
    <2>1. \A n \in DOMAIN segments : segments[n] \in Seq(Lines)
      BY DEF Shapes
    <2> QED
      BY <1>1, <2>1
  <1> QED
    BY <1>1, <1>2, <1>3 DEF Spooled

\* The lengths of the files are the bytes of their events.
LEMMA LengthsAreBytes ==
  /\ TotalBytes = Bytes(Spooled)
  /\ TotalBytes' = Bytes(Spooled')
  /\ \A lines : Length(lines) = Bytes(EventsOf(lines))
  <1>1. TotalBytes = Bytes(Spooled) /\ \A lines : Length(lines) = Bytes(EventsOf(lines))
    BY DEF TotalBytes, Length, Bytes
  <1>2. TotalBytes' = Bytes(Spooled')
    BY DEF TotalBytes, Bytes, MapThenSumSet, MapThenFoldSet
  <1> QED
    BY <1>1, <1>2

\* A spool that only shrinks takes no more bytes.
LEMMA BytesShrink ==
  ASSUME Shapes, Spooled' \subseteq Spooled
  PROVE  TotalBytes \in Nat /\ TotalBytes' \in Nat /\ TotalBytes' <= TotalBytes
  <1>1. Spooled \subseteq Events /\ Spooled' \subseteq Events
    BY SpoolOfEvents
  <1>2. PICK s, t : s = Spooled /\ t = Spooled'
    OBVIOUS
  <1>3. /\ Bytes(s) = Bytes(t) + Bytes(s \ t)
        /\ Bytes(s) \in Nat /\ Bytes(t) \in Nat /\ Bytes(s \ t) \in Nat
    <2>1. s \subseteq Events /\ t \subseteq s /\ s \ t \subseteq Events /\ t \subseteq Events
      BY <1>1, <1>2
    <2> QED
      BY <2>1, BytesSplit, BytesNat
  <1>4. TotalBytes = Bytes(s) /\ TotalBytes' = Bytes(t)
    BY <1>2, LengthsAreBytes
  <1> QED
    BY <1>3, <1>4

\* Without one of its files the spool is smaller by the length of that file.
LEMMA BytesOfRemoved ==
  ASSUME Shapes, InOneFile, NEW f \in DOMAIN segments,
         segments' = Without(f), live' = live
  PROVE  /\ TotalBytes = TotalBytes' + Length(segments[f])
         /\ TotalBytes' \in Nat /\ Length(segments[f]) \in Nat
  <1>1. PICK s, t, u : s = Spooled /\ t = Spooled' /\ u = EventsOf(segments[f])
    OBVIOUS
  <1>2. s \subseteq Events /\ u \subseteq Events
    <2>1. segments[f] \in Seq(Lines)
      BY DEF Shapes
    <2> QED
      BY <1>1, <2>1, SpoolOfEvents
  <1>3. t = s \ u
    <2>1. /\ DOMAIN segments' = DOMAIN segments \ {f}
          /\ \A n \in DOMAIN segments' : segments'[n] = segments[n]
      BY RemovesOne
    <2>2. t = EventsOf(live) \cup UNION {EventsOf(segments[n]) : n \in DOMAIN segments \ {f}}
      <3>1. {EventsOf(segments'[n]) : n \in DOMAIN segments'}
              = {EventsOf(segments[n]) : n \in DOMAIN segments \ {f}}
        BY <2>1
      <3> QED
        BY <1>1, <3>1 DEF Spooled
    <2>3. s = EventsOf(live) \cup UNION {EventsOf(segments[n]) : n \in DOMAIN segments}
      BY <1>1 DEF Spooled
    <2>4. EventsOf(live) \cap u = {}
      BY <1>1 DEF InOneFile
    <2>5. \A n \in DOMAIN segments \ {f} : EventsOf(segments[n]) \cap u = {}
      BY <1>1 DEF InOneFile
    <2> QED
      BY <1>1, <2>2, <2>3, <2>4, <2>5
  <1>4. u \subseteq s
    BY <1>1 DEF Spooled
  <1>5. /\ Bytes(s) = Bytes(u) + Bytes(t)
        /\ Bytes(u) \in Nat /\ Bytes(t) \in Nat
    <2>1. t \subseteq Events
      BY <1>2, <1>3
    <2> QED
      BY <1>2, <1>3, <1>4, <2>1, BytesSplit, BytesNat
  <1>6. TotalBytes = Bytes(s) /\ TotalBytes' = Bytes(t) /\ Length(segments[f]) = Bytes(u)
    BY <1>1, LengthsAreBytes
  <1> QED
    BY <1>5, <1>6

\* rotate_live moves events and leaves them in one file.
LEMMA RotateMoves ==
  ASSUME Shapes, NamesGiven, NoneEmpty, InOneFile, RotateLive
  PROVE  InOneFile' /\ Spooled' = Spooled /\ live' = <<>>
  <1>1. live' = <<>>
    BY DEF RotateLive
  <1>2. EventsOf(<<>>) = {}
    BY NoLine DEF EventsOf
  <1>3. CASE ~Rotates
    <2>1. segments' = segments /\ live' = live
      BY <1>3 DEF RotateLive, Rotates
    <2> QED
      BY <1>1, <2>1 DEF InOneFile, Spooled
  <1>4. CASE Rotates
    <2> DEFINE file == IF half = "none" THEN live ELSE Append(live, Torn)
    <2>1. segments' = Rotated
      BY <1>4 DEF RotateLive
    <2>2. EventsOf(file) = EventsOf(live)
      <3>1. Torn \in Lines /\ Torn \notin Events
        BY TornLine
      <3>2. ToSet(Append(live, Torn)) = ToSet(live) \cup {Torn}
        BY <3>1, AppendedLine DEF Shapes
      <3> QED
        BY <3>1, <3>2 DEF EventsOf
    <2>3. names + 1 \notin DOMAIN segments
      BY DEF Shapes, NamesGiven, Names
    <2> HIDE DEF file
    <2>4. /\ DOMAIN segments' = DOMAIN segments \cup {names + 1}
          /\ segments'[names + 1] = file
          /\ \A n \in DOMAIN segments : segments'[n] = segments[n]
      BY <2>1, <2>3 DEF Rotated, file
    <2>5. InOneFile'
      <3>1. ASSUME NEW m \in DOMAIN segments', NEW n \in DOMAIN segments', m # n
            PROVE  EventsOf(segments'[m]) \cap EventsOf(segments'[n]) = {}
        <4>1. CASE m = names + 1
          BY <3>1, <4>1, <2>2, <2>4 DEF InOneFile
        <4>2. CASE n = names + 1
          BY <3>1, <4>2, <2>2, <2>4 DEF InOneFile
        <4>3. CASE m \in DOMAIN segments /\ n \in DOMAIN segments
          BY <3>1, <4>3, <2>4 DEF InOneFile
        <4> QED
          BY <4>1, <4>2, <4>3, <2>4
      <3>2. \A n \in DOMAIN segments' : EventsOf(live') \cap EventsOf(segments'[n]) = {}
        BY <1>1, <1>2
      <3> QED
        BY <3>1, <3>2 DEF InOneFile
    <2>6. Spooled' = Spooled
      <3>1. Spooled' = UNION {EventsOf(segments'[n]) : n \in DOMAIN segments'}
        BY <1>1, <1>2 DEF Spooled
      <3>2. \A e : e \in Spooled' <=> \E n \in DOMAIN segments' : e \in EventsOf(segments'[n])
        BY <3>1
      <3>3. \A e : e \in Spooled <=>
                     e \in EventsOf(live) \/ \E n \in DOMAIN segments : e \in EventsOf(segments[n])
        BY DEF Spooled
      <3>4. \A e : e \in Spooled' <=> e \in Spooled
        BY <3>2, <3>3, <2>2, <2>4
      <3> QED
        BY <3>4
    <2> QED
      BY <1>1, <2>5, <2>6
  <1> QED
    BY <1>3, <1>4

\* A step at which no event is offered or taken.
LEMMA TakenStays ==
  ASSUME Shapes, TakenOnce, offered' = offered, queue' = queue,
         Spooled' \subseteq Spooled, emit'.ev \in {emit.ev, Nothing},
         emit'.pc \notin {"idle", "down"} =>
           emit'.ev = emit.ev /\ emit.pc \notin {"idle", "down"}
  PROVE  TakenOnce'
  <1>1. Nothing \notin Spooled \cup ToSet(queue)
    <2>1. Nothing \notin Events
      BY DEF Nothing, Events
    <2>2. ToSet(queue) \subseteq Events
      BY DEF Shapes, ToSet
    <2> QED
      BY <2>1, <2>2, SpoolOfEvents
  <1>2. offered' = 1..Cardinality(offered')
    BY DEF TakenOnce
  <1>3. ToSet(queue') = ToSet(queue)
    OBVIOUS
  <1>4. /\ Spooled' \cup ToSet(queue') \cup ({emit'.ev} \ {Nothing}) \subseteq offered'
        /\ emit'.ev \notin Spooled' \cup ToSet(queue')
        /\ ToSet(queue') \cap Spooled' = {}
    BY <1>1, <1>3 DEF TakenOnce
  <1>5. \A i, j \in DOMAIN queue' : queue'[i] = queue'[j] => i = j
    BY DEF TakenOnce
  <1>6. emit'.pc \notin {"idle", "down"} => emit'.ev \in Events
    BY DEF TakenOnce
  <1> QED
    BY <1>2, <1>4, <1>5, <1>6 DEF TakenOnce

\* A step that leaves the cap alone.
LEMMA CapStays ==
  ASSUME UnderCap, UNCHANGED <<emit, total, segments, live, misread>>
  PROVE  UnderCap'
  <1>1. Spooled' = Spooled
    BY DEF Spooled
  <1>2. TotalBytes' = TotalBytes
    BY <1>1, LengthsAreBytes
  <1>3. Length(emit'.lines) = Length(emit.lines)
    OBVIOUS
  <1> QED
    BY <1>2, <1>3 DEF UnderCap

\* A step after which the emitter does not hold the lock.
LEMMA CapIdle ==
  ASSUME misread' \/ TotalBytes' <= MaxBytes,
         emit'.pc \notin {"measure", "append", "evict", "remove"}
  PROVE  UnderCap'
  BY DEF UnderCap

\* A step of the replay task or the queries that does not touch the files.
LEMMA FilesStay ==
  ASSUME InOneFile, UNCHANGED <<segments, live>>
  PROVE  InOneFile' /\ Spooled' = Spooled /\ TotalBytes' = TotalBytes
  <1>1. InOneFile'
    BY DEF InOneFile
  <1>2. Spooled' = Spooled
    BY DEF Spooled
  <1> QED
    BY <1>1, <1>2, LengthsAreBytes

\* A file less leaves the events in one file.
LEMMA RemoveKeepsOne ==
  ASSUME Shapes, InOneFile, NEW f, segments' = Without(f), live' = live
  PROVE  InOneFile' /\ Spooled' \subseteq Spooled
  <1>1. /\ DOMAIN segments' = DOMAIN segments \ {f}
        /\ \A n \in DOMAIN segments' : segments'[n] = segments[n]
    BY RemovesOne
  <1>2. InOneFile'
    BY <1>1 DEF InOneFile
  <1>3. \A e : e \in Spooled' <=>
          e \in EventsOf(live') \/ \E n \in DOMAIN segments' : e \in EventsOf(segments'[n])
    BY DEF Spooled
  <1>4. \A e : e \in Spooled <=>
          e \in EventsOf(live) \/ \E n \in DOMAIN segments : e \in EventsOf(segments[n])
    BY DEF Spooled
  <1>5. Spooled' \subseteq Spooled
    BY <1>1, <1>3, <1>4
  <1> QED
    BY <1>2, <1>5

-----------------------------------------------------------------------------
(* Each step keeps the cap. *)

LEMMA OfferCaps ==
  ASSUME LineageInv, CapInv, NEW e \in Events, Offer(e)
  PROVE  CapInv'
  <1>1. UNCHANGED <<emit, total, segments, live, misread>> /\ offered' = offered \cup {e}
        /\ e = Cardinality(offered) + 1
    BY DEF Offer, spoolVars
  <1>2. InOneFile' /\ Spooled' = Spooled
    BY <1>1, FilesStay DEF CapInv
  <1>3. UnderCap'
    BY <1>1, CapStays DEF CapInv
  <1>4. offered = 1..Cardinality(offered) /\ Cardinality(offered) \in Nat
    <2>1. offered \subseteq Events
      BY DEF LineageInv, Shapes
    <2> QED
      BY <2>1, EventSets DEF CapInv, TakenOnce
  <1>5. e \notin offered /\ e \in Nat
    BY <1>1, <1>4
  <1>6. offered' = 1..Cardinality(offered')
    <2>1. offered' = 1..e
      BY <1>1, <1>4
    <2>2. Cardinality(1..e) = e
      <3>1. e \in Int /\ ~(1 > e) /\ e - 1 + 1 = e
        BY <1>1, <1>4
      <3> QED
        BY <3>1, FS_Interval
    <2> QED
      BY <2>1, <2>2
  <1>7. /\ queue' \in Seq(Events)
        /\ ToSet(queue') \subseteq ToSet(queue) \cup {e}
        /\ \A i, j \in DOMAIN queue' : queue'[i] = queue'[j] => i = j
    <2>1. queue \in Seq(Events)
      BY DEF LineageInv, Shapes
    <2>2. \A i, j \in DOMAIN queue : queue[i] = queue[j] => i = j
      BY DEF CapInv, TakenOnce
    <2>3. CASE queue' = queue
      BY <2>1, <2>2, <2>3
    <2>4. CASE queue' = Append(queue, e)
      <3>1. ToSet(queue') = ToSet(queue) \cup {e}
        BY <2>1, <2>4, AppendedLine
      <3>2. \A i \in DOMAIN queue : queue[i] # e
        <4>1. ToSet(queue) \subseteq offered
          BY DEF CapInv, TakenOnce
        <4> QED
          BY <4>1, <1>5 DEF ToSet
      <3>3. /\ DOMAIN queue' = DOMAIN queue \cup {Len(queue) + 1}
            /\ \A i \in DOMAIN queue : queue'[i] = queue[i]
            /\ queue'[Len(queue) + 1] = e
        <4>1. Len(queue) \in Nat /\ DOMAIN queue = 1..Len(queue)
          BY <2>1
        <4>2. DOMAIN queue' = 1..(Len(queue) + 1)
          BY <2>1, <2>4
        <4>3. \A i \in 1..Len(queue) : queue'[i] = queue[i]
          BY <2>1, <2>4
        <4>4. queue'[Len(queue) + 1] = e
          BY <2>1, <2>4
        <4> QED
          BY <4>1, <4>2, <4>3, <4>4
      <3>4. \A i, j \in DOMAIN queue' : queue'[i] = queue'[j] => i = j
        BY <3>2, <3>3, <2>2
      <3> QED
        BY <2>1, <2>4, <3>1, <3>4
    <2> QED
      BY <2>3, <2>4 DEF Offer
  <1>8. TakenOnce'
    <2>1. /\ Spooled \cup ToSet(queue) \cup ({emit.ev} \ {Nothing}) \subseteq offered
          /\ emit.ev \notin Spooled \cup ToSet(queue)
          /\ ToSet(queue) \cap Spooled = {}
          /\ emit.pc \notin {"idle", "down"} => emit.ev \in Events
      BY DEF CapInv, TakenOnce
    <2>2. e # Nothing
      BY DEF Nothing, Events
    <2>3. /\ Spooled' \cup ToSet(queue') \cup ({emit'.ev} \ {Nothing}) \subseteq offered'
          /\ emit'.ev \notin Spooled' \cup ToSet(queue')
          /\ ToSet(queue') \cap Spooled' = {}
      <3>1. e \notin Spooled /\ e # emit.ev
        BY <1>5, <2>1, <2>2
      <3> QED
        BY <1>1, <1>2, <1>7, <2>1, <3>1
    <2> QED
      BY <1>1, <1>6, <1>7, <2>1, <2>3 DEF TakenOnce
  <1> QED
    BY <1>2, <1>3, <1>8 DEF CapInv

LEMMA TakeCaps ==
  ASSUME LineageInv, CapInv, Take
  PROVE  CapInv'
  <1>1. /\ queue # <<>> /\ queue' = Tail(queue) /\ offered' = offered
        /\ UNCHANGED <<segments, live, misread>>
        /\ emit' = [IdleEmit EXCEPT !.pc = "send", !.ev = Head(queue)]
    BY DEF Take, spoolVars
  <1>2. emit'.pc = "send" /\ emit'.ev = Head(queue)
    BY <1>1 DEF IdleEmit
  <1>3. InOneFile' /\ Spooled' = Spooled /\ TotalBytes' = TotalBytes
    BY <1>1, FilesStay DEF CapInv
  <1>4. UnderCap'
    <2>1. misread' \/ TotalBytes' <= MaxBytes
      BY <1>1, <1>3 DEF CapInv, UnderCap
    <2> QED
      BY <1>2, <2>1, CapIdle
  <1>5. queue \in Seq(Events)
    BY DEF LineageInv, Shapes
  <1>6. /\ ToSet(queue) = {Head(queue)} \cup ToSet(queue')
        /\ Head(queue) \in Events
    BY <1>1, <1>5, FirstLine
  <1>7. /\ Head(queue) \notin ToSet(queue')
        /\ \A i, j \in DOMAIN queue' : queue'[i] = queue'[j] => i = j
    <2>1. /\ DOMAIN queue = 1..Len(queue) /\ Len(queue) \in Nat \ {0}
          /\ Head(queue) = queue[1]
          /\ DOMAIN queue' = 1..(Len(queue) - 1)
          /\ \A i \in 1..(Len(queue) - 1) : queue'[i] = queue[i + 1]
      BY <1>1, <1>5
    <2>2. \A i, j \in DOMAIN queue : queue[i] = queue[j] => i = j
      BY DEF CapInv, TakenOnce
    <2>3. \A i \in DOMAIN queue' : i \in Nat /\ i + 1 \in DOMAIN queue /\ i + 1 # 1
                                  /\ queue'[i] = queue[i + 1]
      BY <2>1
    <2>4. 1 \in DOMAIN queue
      BY <2>1
    <2>5. \A i \in DOMAIN queue' : queue'[i] # queue[1]
      BY <2>2, <2>3, <2>4
    <2>6. ASSUME NEW i \in DOMAIN queue', NEW j \in DOMAIN queue', queue'[i] = queue'[j]
          PROVE  i = j
      <3>1. i + 1 = j + 1
        BY <2>2, <2>3, <2>6
      <3>2. i \in Nat /\ j \in Nat
        BY <2>3
      <3> QED
        BY <3>1, <3>2
    <2>7. Head(queue) \notin ToSet(queue')
      BY <2>1, <2>5 DEF ToSet
    <2> QED
      BY <2>6, <2>7
  <1>8. TakenOnce'
    <2>1. /\ Spooled \cup ToSet(queue) \subseteq offered
          /\ ToSet(queue) \cap Spooled = {}
          /\ offered = 1..Cardinality(offered)
      BY DEF CapInv, TakenOnce
    <2>2. /\ Spooled' \cup ToSet(queue') \cup ({emit'.ev} \ {Nothing}) \subseteq offered'
          /\ emit'.ev \notin Spooled' \cup ToSet(queue')
          /\ ToSet(queue') \cap Spooled' = {}
      BY <1>1, <1>2, <1>3, <1>6, <1>7, <2>1
    <2>3. offered' = 1..Cardinality(offered')
      BY <1>1, <2>1
    <2> QED
      BY <1>2, <1>6, <1>7, <2>2, <2>3 DEF TakenOnce
  <1> QED
    BY <1>3, <1>4, <1>8 DEF CapInv

\* The emitter's steps that leave the spool alone and do not take the lock.
LEMMA SendingCaps ==
  ASSUME LineageInv, CapInv, Send \/ SendFails \/ SendUnanswered \/ NeverFits
  PROVE  CapInv'
  <1>1. /\ offered' = offered /\ queue' = queue /\ UNCHANGED <<segments, live, misread>>
        /\ emit.pc \in {"send", "measure"}
        /\ emit' = IdleEmit \/ emit' = [emit EXCEPT !.pc = "lock"]
    BY DEF Send, SendFails, SendUnanswered, NeverFits, spoolVars
  <1>2. /\ emit'.pc \in {"idle", "lock"} /\ emit'.ev \in {emit.ev, Nothing}
        /\ emit'.pc = "lock" => emit'.ev = emit.ev
    BY <1>1 DEF IdleEmit, LineageInv, Shapes, Emitters
  <1>3. InOneFile' /\ Spooled' = Spooled /\ TotalBytes' = TotalBytes
    BY <1>1, FilesStay DEF CapInv
  <1>4. UnderCap'
    <2>1. misread' \/ TotalBytes' <= MaxBytes
      BY <1>1, <1>3 DEF CapInv, UnderCap
    <2> QED
      BY <1>2, <2>1, CapIdle
  <1>5. TakenOnce'
    BY <1>1, <1>2, <1>3, TakenStays DEF CapInv, LineageInv
  <1> QED
    BY <1>3, <1>4, <1>5 DEF CapInv

\* The spool is measured.
LEMMA MeasureCaps ==
  ASSUME LineageInv, CapInv, Measure
  PROVE  CapInv'
  <1>1. /\ offered' = offered /\ queue' = queue /\ UNCHANGED <<segments, live, misread>>
        /\ emit.pc = "lock" /\ total' = TotalBytes
        /\ emit' = [emit EXCEPT !.pc = "measure", !.left = DOMAIN segments]
    BY DEF Measure, spoolVars
  <1>2. emit'.pc = "measure" /\ emit'.ev = emit.ev
    BY <1>1 DEF LineageInv, Shapes, Emitters
  <1>3. InOneFile' /\ Spooled' = Spooled /\ TotalBytes' = TotalBytes
    BY <1>1, FilesStay DEF CapInv
  <1>4. TotalBytes \in Nat
    BY <1>3, BytesShrink DEF LineageInv
  <1>5. UnderCap'
    <2>1. misread' \/ TotalBytes' <= MaxBytes
      BY <1>1, <1>3 DEF CapInv, UnderCap
    <2>2. total' \in Nat /\ TotalBytes' <= total'
      BY <1>1, <1>3, <1>4
    <2> QED
      BY <1>2, <2>1, <2>2 DEF UnderCap
  <1>6. TakenOnce'
    BY <1>1, <1>2, <1>3, TakenStays DEF CapInv, LineageInv
  <1> QED
    BY <1>3, <1>5, <1>6 DEF CapInv

\* The line fits, unless the size that was read is below what is there.
LEMMA FitsCaps ==
  ASSUME LineageInv, CapInv, Fits
  PROVE  CapInv'
  <1>1. /\ offered' = offered /\ queue' = queue /\ UNCHANGED <<segments, live>>
        /\ emit.pc = "measure"
        /\ emit' = [emit EXCEPT !.pc = "append", !.left = {}]
    BY DEF Fits, spoolVars
  <1>2. emit'.pc = "append" /\ emit'.ev = emit.ev
    BY <1>1 DEF LineageInv, Shapes, Emitters
  <1>3. InOneFile' /\ Spooled' = Spooled /\ TotalBytes' = TotalBytes
    BY <1>1, FilesStay DEF CapInv
  <1>4. PICK t \in Measured : t + Size[emit.ev] <= MaxBytes /\ misread' = (t < TotalBytes)
    BY DEF Fits
  <1>5. t \in Nat /\ TotalBytes \in Nat /\ Size[emit.ev] \in Nat /\ MaxBytes \in Nat
    <2>1. total \in Nat
      BY <1>1 DEF CapInv, UnderCap
    <2>2. t \in Nat
      BY <1>4, <2>1 DEF Measured
    <2>3. emit.ev \in Events
      BY <1>1 DEF CapInv, TakenOnce
    <2>4. Size[emit.ev] \in Nat /\ MaxBytes \in Nat
      BY <2>3, SpoolConstants DEF Events
    <2> QED
      BY <1>3, <2>2, <2>4, BytesShrink DEF LineageInv
  <1>6. UnderCap'
    <2>1. misread' \/ (TotalBytes' <= MaxBytes /\ TotalBytes' + Size[emit'.ev] <= MaxBytes)
      <3>1. CASE t < TotalBytes
        BY <1>4, <3>1
      <3>2. CASE ~(t < TotalBytes)
        BY <1>2, <1>3, <1>4, <1>5, <3>2
      <3> QED
        BY <3>1, <3>2
    <2> QED
      BY <1>2, <2>1 DEF UnderCap
  <1>7. TakenOnce'
    BY <1>1, <1>2, <1>3, TakenStays DEF CapInv, LineageInv
  <1> QED
    BY <1>3, <1>6, <1>7 DEF CapInv

LEMMA FullCaps ==
  ASSUME LineageInv, LineageInv', CapInv, Full
  PROVE  CapInv'
  <1>1. /\ offered' = offered /\ queue' = queue /\ RotateLive
        /\ emit.pc = "measure" /\ Size[emit.ev] <= MaxBytes
        /\ total' = total /\ misread' = misread
        /\ emit' = [emit EXCEPT !.pc = "evict", !.left = DOMAIN segments']
    BY DEF Full, AtCap
  <1>2. /\ emit'.pc = "evict" /\ emit'.ev = emit.ev
        /\ emit'.left = DOMAIN segments'
    BY <1>1 DEF LineageInv, Shapes, Emitters
  <1>3. InOneFile' /\ Spooled' = Spooled /\ live' = <<>>
    BY <1>1, RotateMoves DEF CapInv, LineageInv
  <1>4. TotalBytes' = TotalBytes
    BY <1>3, LengthsAreBytes DEF LineageInv
  <1>5. TakenOnce'
    BY <1>1, <1>2, <1>3, TakenStays DEF CapInv, LineageInv
  <1>6. UnderCap'
    <2>1. (misread' \/ TotalBytes' <= MaxBytes) /\ TotalBytes' <= total' /\ total' \in Nat
      BY <1>1, <1>4 DEF CapInv, UnderCap
    <2> QED
      BY <1>1, <1>2, <1>3, <2>1 DEF UnderCap
  <1> QED
    BY <1>3, <1>5, <1>6 DEF CapInv

\* The disk refuses: no event is added.
LEMMA AppendFailsCaps ==
  ASSUME LineageInv, CapInv, AppendFails
  PROVE  CapInv'
  <1>1. /\ offered' = offered /\ queue' = queue /\ misread' = misread /\ emit' = IdleEmit
    BY DEF AppendFails
  <1>2. emit'.pc = "idle" /\ emit'.ev = Nothing
    BY <1>1 DEF IdleEmit
  <1>3. InOneFile' /\ Spooled' = Spooled
    <2>1. CASE RotateLive
      BY <2>1, RotateMoves DEF CapInv, LineageInv
    <2>2. CASE UNCHANGED <<segments, live>>
      BY <2>2, FilesStay DEF CapInv
    <2> QED
      BY <2>1, <2>2 DEF AppendFails, spoolVars
  <1>4. TotalBytes' = TotalBytes
    BY <1>3, LengthsAreBytes
  <1>5. UnderCap'
    <2>1. misread' \/ TotalBytes' <= MaxBytes
      BY <1>1, <1>4 DEF CapInv, UnderCap
    <2> QED
      BY <1>2, <2>1, CapIdle
  <1>6. TakenOnce'
    BY <1>1, <1>2, <1>3, TakenStays DEF CapInv, LineageInv
  <1> QED
    BY <1>3, <1>5, <1>6 DEF CapInv

LEMMA EvictCaps ==
  ASSUME LineageInv, CapInv, Evict
  PROVE  CapInv'
  <1>1. /\ offered' = offered /\ queue' = queue /\ total' = total
        /\ UNCHANGED <<segments, live, misread>> /\ emit.pc = "evict"
    BY DEF Evict, spoolVars
  <1>2. PICK n \in emit.left :
          emit' = [emit EXCEPT !.pc = "remove", !.left = @ \ {n}, !.file = n, !.lines = LinesOf(n)]
    BY DEF Evict
  <1>3. /\ emit'.pc = "remove" /\ emit'.ev = emit.ev /\ emit'.left = emit.left \ {n}
        /\ emit'.file = n /\ emit'.lines = LinesOf(n)
    BY <1>2 DEF LineageInv, Shapes, Emitters
  <1>4. InOneFile' /\ Spooled' = Spooled /\ TotalBytes' = TotalBytes
    BY <1>1, FilesStay DEF CapInv
  <1>5. TakenOnce'
    BY <1>1, <1>3, <1>4, TakenStays DEF CapInv, LineageInv
  <1>6. /\ TotalBytes <= total /\ total \in Nat /\ live = <<>> /\ Size[emit.ev] <= MaxBytes
        /\ DOMAIN segments \subseteq emit.left /\ (misread \/ TotalBytes <= MaxBytes)
    BY <1>1 DEF CapInv, UnderCap
  <1>7. TotalBytes \in Nat
    BY <1>4, BytesShrink DEF LineageInv
  <1>8. n \notin DOMAIN segments => Length(LinesOf(n)) = 0
    <2>1. EventsOf(<<>>) = {}
      BY NoLine DEF EventsOf
    <2>2. Bytes({}) = 0
      BY BytesStep
    <2> QED
      BY <2>1, <2>2, LengthsAreBytes DEF LinesOf
  <1>9. DOMAIN segments' \subseteq emit'.left \cup {emit'.file}
    BY <1>1, <1>3, <1>6
  <1>10. TotalBytes' + (IF emit'.file \in DOMAIN segments' THEN 0 ELSE Length(emit'.lines)) <= total'
    BY <1>1, <1>3, <1>4, <1>6, <1>7, <1>8
  <1>11. UnderCap'
    BY <1>1, <1>3, <1>4, <1>6, <1>9, <1>10 DEF UnderCap
  <1> QED
    BY <1>4, <1>5, <1>11 DEF CapInv

LEMMA DeleteCaps ==
  ASSUME LineageInv, LineageInv', CapInv, Delete
  PROVE  CapInv'
  <1>1. /\ offered' = offered /\ queue' = queue /\ live' = live /\ misread' = misread
        /\ emit.pc = "remove" /\ total' \in Subtracted /\ segments' = Without(emit.file)
        /\ emit' = [emit EXCEPT !.pc = "evict", !.file = 0, !.lines = <<>>]
    BY DEF Delete
  <1>2. /\ emit'.pc = "evict" /\ emit'.ev = emit.ev /\ emit'.left = emit.left
    BY <1>1 DEF LineageInv, Shapes, Emitters
  <1>3. InOneFile' /\ Spooled' \subseteq Spooled
    BY <1>1, RemoveKeepsOne DEF CapInv, LineageInv
  <1>4. TakenOnce'
    BY <1>1, <1>2, <1>3, TakenStays DEF CapInv, LineageInv
  <1>5. /\ TotalBytes \in Nat /\ TotalBytes' \in Nat /\ TotalBytes' <= TotalBytes
    BY <1>3, BytesShrink DEF LineageInv
  <1>6. /\ total \in Nat /\ live = <<>> /\ Size[emit.ev] <= MaxBytes
        /\ misread \/ TotalBytes <= MaxBytes
        /\ DOMAIN segments \subseteq emit.left \cup {emit.file}
        /\ TotalBytes + (IF emit.file \in DOMAIN segments THEN 0 ELSE Length(emit.lines)) <= total
    BY <1>1 DEF CapInv, UnderCap
  <1>7. Length(emit.lines) \in Nat
    <2>1. emit.lines \in Seq(Lines)
      BY DEF LineageInv, Shapes, Emitters
    <2>2. EventsOf(emit.lines) \subseteq Events
      BY <2>1, SpoolOfEvents DEF LineageInv
    <2> QED
      BY <2>2, BytesNat, LengthsAreBytes
  <1>8. total' \in Nat /\ TotalBytes' <= total'
    <2>1. Less(total, Length(emit.lines)) \in Nat
          /\ total - Length(emit.lines) <= Less(total, Length(emit.lines))
      BY <1>6, <1>7 DEF Less
    <2>2. CASE emit.file \in DOMAIN segments
      <3>1. TotalBytes = TotalBytes' + Length(emit.lines)
        <4>1. emit.lines = segments[emit.file]
          BY <1>1, <2>2 DEF LineageInv, ReadWhole
        <4> QED
          BY <1>1, <2>2, <4>1, BytesOfRemoved DEF LineageInv, CapInv
      <3>2. total' = Less(total, Length(emit.lines))
        BY <1>1, <2>2 DEF Subtracted
      <3> QED
        BY <1>5, <1>6, <1>7, <2>1, <2>2, <3>1, <3>2
    <2>3. CASE emit.file \notin DOMAIN segments
      <3>1. total' \in {Less(total, Length(emit.lines)), total}
        BY <1>1, <2>3 DEF Subtracted
      <3>2. TotalBytes + Length(emit.lines) <= total
        BY <1>6, <2>3
      <3> QED
        BY <1>5, <1>6, <1>7, <2>1, <3>1, <3>2
    <2> QED
      BY <2>2, <2>3
  <1>9. DOMAIN segments' \subseteq emit'.left
    <2>1. DOMAIN segments' = DOMAIN segments \ {emit.file}
      BY <1>1 DEF Without
    <2> QED
      BY <1>2, <1>6, <2>1
  <1>10. misread' \/ TotalBytes' <= MaxBytes
    BY <1>1, <1>5, <1>6, SpoolConstants
  <1>11. UnderCap'
    BY <1>1, <1>2, <1>6, <1>8, <1>9, <1>10 DEF UnderCap
  <1> QED
    BY <1>3, <1>4, <1>11 DEF CapInv

LEMMA EvictedCaps ==
  ASSUME LineageInv, CapInv, Evicted
  PROVE  CapInv'
  <1>1. /\ offered' = offered /\ queue' = queue /\ UNCHANGED <<segments, live>>
        /\ emit.pc = "evict" /\ Enough
        /\ emit' = [emit EXCEPT !.pc = "append", !.left = {}]
    BY DEF Evicted, spoolVars
  <1>2. emit'.pc = "append" /\ emit'.ev = emit.ev
    BY <1>1 DEF LineageInv, Shapes, Emitters
  <1>3. InOneFile' /\ Spooled' = Spooled /\ TotalBytes' = TotalBytes
    BY <1>1, FilesStay DEF CapInv
  <1>4. TakenOnce'
    BY <1>1, <1>2, <1>3, TakenStays DEF CapInv, LineageInv
  <1>5. /\ total \in Nat /\ live = <<>> /\ Size[emit.ev] <= MaxBytes
        /\ DOMAIN segments \subseteq emit.left /\ TotalBytes <= total
    BY <1>1 DEF CapInv, UnderCap
  <1>6. TotalBytes \in Nat
    BY <1>3, BytesShrink DEF LineageInv
  <1>7. Size[emit.ev] \in Nat
    <2>1. emit.ev \in Events
      BY <1>1 DEF CapInv, TakenOnce
    <2> QED
      BY <2>1, SpoolConstants DEF Events
  <1>8. TotalBytes + Size[emit.ev] <= MaxBytes
    <2>1. CASE total + Size[emit.ev] <= MaxBytes
      BY <1>5, <1>6, <1>7, <2>1, SpoolConstants
    <2>2. CASE emit.left = {}
      <3>1. DOMAIN segments = {}
        BY <1>5, <2>2
      <3>2. EventsOf(live) = {}
        BY <1>5, NoLine DEF EventsOf
      <3>3. Spooled = {}
        BY <3>1, <3>2 DEF Spooled
      <3>4. TotalBytes = 0
        BY <3>3, BytesStep, LengthsAreBytes
      <3> QED
        BY <1>5, <1>7, <3>4
    <2> QED
      BY <1>1, <2>1, <2>2 DEF Enough
  <1>9. UnderCap'
    <2>1. TotalBytes' <= MaxBytes /\ TotalBytes' + Size[emit'.ev] <= MaxBytes
      BY <1>2, <1>3, <1>6, <1>7, <1>8, SpoolConstants
    <2> QED
      BY <1>2, <2>1 DEF UnderCap
  <1> QED
    BY <1>3, <1>4, <1>9 DEF CapInv

LEMMA AppendLineCaps ==
  ASSUME LineageInv, LineageInv', CapInv, AppendLine
  PROVE  CapInv'
  <1>1. /\ offered' = offered /\ queue' = queue /\ segments' = segments
        /\ emit.pc = "append" /\ Append_(emit.ev) /\ emit' = IdleEmit /\ misread' = misread
    BY DEF AppendLine
  <1>2. emit'.pc = "idle" /\ emit'.ev = Nothing
    BY <1>1 DEF IdleEmit
  <1>3. live' = Append(live, IF half = "none" THEN emit.ev ELSE Torn)
    BY <1>1 DEF Append_
  <1>4. emit.ev \in Events /\ emit.ev \notin Spooled
    BY <1>1 DEF CapInv, TakenOnce
  <1>5. EventsOf(live') \subseteq EventsOf(live) \cup {emit.ev}
    <2>1. live \in Seq(Lines) /\ Torn \in Lines /\ Torn \notin Events /\ emit.ev \in Lines
      BY <1>4, TornLine DEF LineageInv, Shapes, Lines
    <2>2. \A l \in Lines : ToSet(Append(live, l)) = ToSet(live) \cup {l}
      BY <2>1, AppendedLine
    <2>3. ToSet(live') \subseteq ToSet(live) \cup {Torn, emit.ev}
      BY <1>3, <2>1, <2>2
    <2> QED
      BY <2>1, <2>3 DEF EventsOf
  <1>6. Spooled' \subseteq Spooled \cup {emit.ev}
    BY <1>1, <1>5 DEF Spooled
  <1>7. InOneFile'
    <2>1. \A n \in DOMAIN segments : emit.ev \notin EventsOf(segments[n])
      BY <1>4 DEF Spooled
    <2>2. \A n \in DOMAIN segments : EventsOf(live') \cap EventsOf(segments[n]) = {}
      BY <1>5, <2>1 DEF CapInv, InOneFile
    <2> QED
      BY <1>1, <2>2 DEF CapInv, InOneFile
  <1>8. TakenOnce'
    <2>1. /\ Spooled \cup ToSet(queue) \cup ({emit.ev} \ {Nothing}) \subseteq offered
          /\ emit.ev \notin ToSet(queue)
          /\ ToSet(queue) \cap Spooled = {}
          /\ offered = 1..Cardinality(offered)
          /\ \A i, j \in DOMAIN queue : queue[i] = queue[j] => i = j
      BY DEF CapInv, TakenOnce
    <2>2. Nothing \notin Events /\ ToSet(queue) \subseteq Events /\ Spooled \subseteq Events
      <3>1. Nothing \notin Events
        BY DEF Nothing, Events
      <3>2. ToSet(queue) \subseteq Events
        BY DEF LineageInv, Shapes, ToSet
      <3> QED
        BY <3>1, <3>2, SpoolOfEvents DEF LineageInv
    <2>3. /\ Spooled' \cup ToSet(queue') \cup ({emit'.ev} \ {Nothing}) \subseteq offered'
          /\ emit'.ev \notin Spooled' \cup ToSet(queue')
          /\ ToSet(queue') \cap Spooled' = {}
      BY <1>1, <1>2, <1>4, <1>6, <2>1, <2>2
    <2> QED
      BY <1>1, <1>2, <2>1, <2>3 DEF TakenOnce
  <1>9. ASSUME ~misread PROVE TotalBytes' <= MaxBytes
    <2>1. PICK s, t : s = Spooled /\ t = Spooled' \cup Spooled \cup {emit.ev}
      OBVIOUS
    <2>2. s \subseteq Events /\ t = s \cup {emit.ev} /\ t \subseteq Events
      BY <1>4, <1>6, <2>1, SpoolOfEvents DEF LineageInv
    <2>3. t \ {emit.ev} = s /\ emit.ev \in t
      BY <1>4, <2>1, <2>2
    <2>4. Bytes(t) = Size[emit.ev] + Bytes(s)
      BY <2>2, <2>3, BytesWithout
    <2>5. PICK u : u = Spooled'
      OBVIOUS
    <2>6. u \subseteq t /\ u \subseteq Events /\ t \ u \subseteq Events
      BY <2>1, <2>2, <2>5
    <2>7. Bytes(t) = Bytes(u) + Bytes(t \ u)
      BY <2>2, <2>6, BytesSplit
    <2>8. Bytes(t) \in Nat /\ Bytes(u) \in Nat /\ Bytes(t \ u) \in Nat /\ Bytes(s) \in Nat
      BY <2>2, <2>6, BytesNat
    <2>9. Size[emit.ev] \in Nat
      BY <1>4, SpoolConstants DEF Events
    <2>10. Bytes(s) + Size[emit.ev] <= MaxBytes
      BY <1>1, <1>9, <2>1, LengthsAreBytes DEF CapInv, UnderCap
    <2>11. Bytes(u) <= MaxBytes
      BY <2>4, <2>7, <2>8, <2>9, <2>10, SpoolConstants
    <2> QED
      BY <2>5, <2>11, LengthsAreBytes
  <1>10. UnderCap'
    BY <1>1, <1>2, <1>9, CapIdle
  <1> QED
    BY <1>7, <1>8, <1>10 DEF CapInv

\* The replay task's steps that leave the files alone.
LEMMA ReplayCaps ==
  ASSUME LineageInv, CapInv,
         Open \/ ReadFails \/ Skip \/ Resend \/ ResendFails \/ ResendUnanswered
  PROVE  CapInv'
  <1>1. UNCHANGED <<offered, queue, emit, total, segments, live, misread>>
    BY DEF Open, ReadFails, Skip, Resend, ResendFails, ResendUnanswered, spoolVars
  <1>2. InOneFile' /\ Spooled' = Spooled
    BY <1>1, FilesStay DEF CapInv
  <1>3. UnderCap'
    BY <1>1, CapStays DEF CapInv
  <1>4. TakenOnce'
    BY <1>1, <1>2, TakenStays DEF CapInv, LineageInv
  <1> QED
    BY <1>2, <1>3, <1>4 DEF CapInv

LEMMA ListCaps ==
  ASSUME LineageInv, CapInv, List
  PROVE  CapInv'
  <1>1. UNCHANGED <<offered, queue, emit, misread>> /\ RotateLive /\ ~Locked
    BY DEF List
  <1>2. InOneFile' /\ Spooled' = Spooled
    BY <1>1, RotateMoves DEF CapInv, LineageInv
  <1>3. TotalBytes' = TotalBytes
    BY <1>2, LengthsAreBytes
  <1>4. UnderCap'
    <2>1. misread' \/ TotalBytes' <= MaxBytes
      BY <1>1, <1>3 DEF CapInv, UnderCap
    <2>2. emit'.pc \notin {"measure", "append", "evict", "remove"}
      BY <1>1 DEF Locked
    <2> QED
      BY <2>1, <2>2, CapIdle
  <1>5. TakenOnce'
    BY <1>1, <1>2, TakenStays DEF CapInv, LineageInv
  <1> QED
    BY <1>2, <1>4, <1>5 DEF CapInv

\* The replay task removes a segment, perhaps the one the cap is about to
\* delete.
LEMMA DrainedCaps ==
  ASSUME LineageInv, LineageInv', CapInv, Drained
  PROVE  CapInv'
  <1>1. UNCHANGED <<offered, queue, emit, total, live, misread>>
        /\ segments' = Without(replay.file)
    BY DEF Drained
  <1>2. InOneFile' /\ Spooled' \subseteq Spooled
    BY <1>1, RemoveKeepsOne DEF CapInv, LineageInv
  <1>3. TakenOnce'
    BY <1>1, <1>2, TakenStays DEF CapInv, LineageInv
  <1>4. /\ TotalBytes \in Nat /\ TotalBytes' \in Nat /\ TotalBytes' <= TotalBytes
    BY <1>2, BytesShrink DEF LineageInv
  <1>5. DOMAIN segments' = DOMAIN segments \ {replay.file}
    BY <1>1 DEF Without
  <1>6. misread' \/ TotalBytes' <= MaxBytes
    BY <1>1, <1>4, SpoolConstants DEF CapInv, UnderCap
  <1>7. CASE emit.pc = "append"
    <2>1. emit.ev \in Events
      BY <1>7 DEF CapInv, TakenOnce
    <2>2. Size[emit.ev] \in Nat
      BY <2>1, SpoolConstants DEF Events
    <2>3. misread' \/ TotalBytes' + Size[emit.ev] <= MaxBytes
      BY <1>1, <1>4, <1>7, <2>2, SpoolConstants DEF CapInv, UnderCap
    <2>4. UnderCap'
      BY <1>1, <1>6, <1>7, <2>3 DEF UnderCap
    <2> QED
      BY <1>2, <1>3, <2>4 DEF CapInv
  <1>8. CASE emit.pc = "evict"
    <2>1. /\ total \in Nat /\ live = <<>> /\ Size[emit.ev] <= MaxBytes
          /\ DOMAIN segments \subseteq emit.left /\ TotalBytes <= total
      BY <1>8 DEF CapInv, UnderCap
    <2>2. TotalBytes' <= total
      BY <1>4, <2>1
    <2>3. UnderCap'
      BY <1>1, <1>5, <1>6, <1>8, <2>1, <2>2 DEF UnderCap
    <2> QED
      BY <1>2, <1>3, <2>3 DEF CapInv
  <1>9. CASE emit.pc = "remove"
    <2>1. /\ total \in Nat /\ live = <<>> /\ Size[emit.ev] <= MaxBytes
          /\ DOMAIN segments \subseteq emit.left \cup {emit.file}
          /\ TotalBytes + (IF emit.file \in DOMAIN segments THEN 0 ELSE Length(emit.lines)) <= total
      BY <1>9 DEF CapInv, UnderCap
    <2>2. TotalBytes' + (IF emit.file \in DOMAIN segments' THEN 0 ELSE Length(emit.lines)) <= total
      <3>1. CASE emit.file \in DOMAIN segments /\ emit.file = replay.file
        <4>1. emit.lines = segments[emit.file]
          BY <1>9, <3>1 DEF LineageInv, ReadWhole
        <4>2. TotalBytes = TotalBytes' + Length(emit.lines)
          BY <1>1, <3>1, <4>1, BytesOfRemoved DEF LineageInv, CapInv
        <4>3. emit.file \notin DOMAIN segments' /\ TotalBytes <= total
          BY <1>4, <1>5, <2>1, <3>1
        <4> QED
          BY <4>2, <4>3
      <3>2. CASE emit.file \in DOMAIN segments /\ emit.file # replay.file
        <4>1. TotalBytes <= total
          BY <1>4, <2>1, <3>2
        <4>2. emit.file \in DOMAIN segments'
          BY <1>5, <3>2
        <4>3. TotalBytes' <= total
          BY <1>4, <2>1, <4>1
        <4> QED
          BY <1>4, <4>2, <4>3
      <3>3. CASE emit.file \notin DOMAIN segments
        <4>1. Length(emit.lines) \in Nat
          <5>1. emit.lines \in Seq(Lines)
            BY DEF LineageInv, Shapes, Emitters
          <5>2. EventsOf(emit.lines) \subseteq Events
            BY <5>1, SpoolOfEvents DEF LineageInv
          <5> QED
            BY <5>2, BytesNat, LengthsAreBytes
        <4>2. emit.file \notin DOMAIN segments' /\ TotalBytes + Length(emit.lines) <= total
          BY <1>5, <2>1, <3>3
        <4> QED
          BY <1>4, <2>1, <4>1, <4>2
      <3> QED
        BY <3>1, <3>2, <3>3
    <2>3. UnderCap'
      BY <1>1, <1>5, <1>6, <1>9, <2>1, <2>2 DEF UnderCap
    <2> QED
      BY <1>2, <1>3, <2>3 DEF CapInv
  <1>10. CASE emit.pc = "measure"
    <2>1. total \in Nat /\ TotalBytes' <= total
      BY <1>4, <1>10 DEF CapInv, UnderCap
    <2>2. UnderCap'
      BY <1>1, <1>6, <1>10, <2>1 DEF UnderCap
    <2> QED
      BY <1>2, <1>3, <2>2 DEF CapInv
  <1>11. CASE emit.pc \notin {"measure", "append", "evict", "remove"}
    BY <1>1, <1>2, <1>3, <1>6, <1>11, CapIdle DEF CapInv
  <1> QED
    BY <1>7, <1>8, <1>9, <1>10, <1>11

LEMMA StopsCap ==
  ASSUME LineageInv, CapInv, Crash \/ Restart
  PROVE  CapInv'
  <1>1. /\ offered' = offered /\ queue' \in {queue, <<>>}
        /\ UNCHANGED <<segments, live, misread>>
        /\ emit' \in {IdleEmit, [IdleEmit EXCEPT !.pc = "down"]}
    BY DEF Crash, Restart, spoolVars
  <1>2. emit'.pc \in {"idle", "down"} /\ emit'.ev = Nothing
    BY <1>1 DEF IdleEmit
  <1>3. InOneFile' /\ Spooled' = Spooled /\ TotalBytes' = TotalBytes
    BY <1>1, FilesStay DEF CapInv
  <1>4. UnderCap'
    <2>1. misread' \/ TotalBytes' <= MaxBytes
      BY <1>1, <1>3 DEF CapInv, UnderCap
    <2> QED
      BY <1>2, <2>1, CapIdle
  <1>5. TakenOnce'
    <2>1. CASE queue' = queue
      BY <1>1, <1>2, <1>3, <2>1, TakenStays DEF CapInv, LineageInv
    <2>2. CASE queue' = <<>>
      <3>1. ToSet(queue') = {} /\ DOMAIN queue' = {}
        BY <2>2, NoLine
      <3>2. Nothing \notin Spooled /\ Spooled \subseteq offered /\ offered = 1..Cardinality(offered)
        BY TornLine DEF CapInv, TakenOnce, Spooled, EventsOf
      <3> QED
        BY <1>1, <1>2, <1>3, <3>1, <3>2 DEF TakenOnce
    <2> QED
      BY <1>1, <2>1, <2>2
  <1> QED
    BY <1>3, <1>4, <1>5 DEF CapInv

LEMMA CapStarts ==
  ASSUME Init
  PROVE  CapInv
  <1>1. /\ offered = {} /\ queue = <<>> /\ live = <<>> /\ DOMAIN segments = {}
        /\ emit.pc = "idle" /\ emit.ev = Nothing
    BY DEF Init, IdleEmit
  <1>2. EventsOf(live) = {} /\ ToSet(queue) = {} /\ DOMAIN queue = {}
    BY <1>1, NoLine DEF EventsOf
  <1>3. Spooled = {}
    BY <1>1, <1>2 DEF Spooled
  <1>4. offered = 1..Cardinality(offered)
    <2>1. Cardinality(offered) = 0
      BY <1>1, FS_EmptySet
    <2> QED
      BY <1>1, <2>1
  <1>5. TotalBytes = 0 /\ 0 <= MaxBytes
    <2>1. Bytes({}) = 0
      BY BytesStep
    <2>2. TotalBytes = 0
      BY <1>3, <2>1, LengthsAreBytes
    <2> QED
      BY <2>2, SpoolConstants
  <1>6. InOneFile /\ TakenOnce
    BY <1>1, <1>2, <1>3, <1>4 DEF InOneFile, TakenOnce
  <1>7. UnderCap
    BY <1>1, <1>5 DEF UnderCap
  <1> QED
    BY <1>6, <1>7 DEF CapInv

LEMMA CapStep ==
  ASSUME LineageInv, LineageInv', CapInv, [Next]_vars
  PROVE  CapInv'
  <1>1. ASSUME NEW e \in Events, Offer(e) PROVE CapInv'
    BY <1>1, OfferCaps
  <1>2. CASE Emitter
    BY <1>2, TakeCaps, SendingCaps, MeasureCaps, FitsCaps, FullCaps, EvictCaps, DeleteCaps,
       EvictedCaps, AppendLineCaps, AppendFailsCaps DEF Emitter
  <1>3. CASE Replay
    BY <1>3, ListCaps, ReplayCaps, DrainedCaps DEF Replay
  <1>4. CASE Crash \/ Restart
    BY <1>4, StopsCap
  <1>5. CASE UNCHANGED vars
    <2>1. UNCHANGED <<offered, queue, emit, total, segments, live, misread>>
      BY <1>5 DEF vars
    <2>2. InOneFile' /\ Spooled' = Spooled
      BY <2>1, FilesStay DEF CapInv
    <2>3. UnderCap'
      BY <2>1, CapStays DEF CapInv
    <2>4. TakenOnce'
      BY <2>1, <2>2, TakenStays DEF CapInv, LineageInv
    <2> QED
      BY <2>2, <2>3, <2>4 DEF CapInv
  <1> QED
    BY <1>1, <1>2, <1>3, <1>4, <1>5 DEF Next

\* WithinCap: the spool takes more than max_bytes on disk only from an append
\* whose total_spool_bytes lost a segment to drain_once until the next append
\* that measures it, though append_to_spool deletes from a listing that
\* drain_once is deleting from.
THEOREM SpoolStaysWithinCap == Spec => []WithinCap
  <1>1. Init => CapInv
    BY CapStarts
  <1>2. LineageInv /\ LineageInv' /\ CapInv /\ [Next]_vars => CapInv'
    BY CapStep
  <1>3. CapInv => WithinCap
    BY DEF CapInv, UnderCap, WithinCap
  <1> QED
    BY <1>1, <1>2, <1>3, LineageAlways, PTL DEF Spec

-----------------------------------------------------------------------------
(* Type correctness. *)

\* What TypeOK says in addition to the shapes: the channel keeps to its
\* capacity, and only events are delivered, dropped and lost.
Counts ==
  /\ Len(queue) <= QueueMax
  /\ total \in Nat
  /\ delivered \subseteq Events /\ dropped \subseteq Events /\ gone \subseteq Events
  /\ misread \in BOOLEAN
  /\ faults \in 0..MaxFaults

LEMMA CountsStep ==
  ASSUME LineageInv, CapInv, Counts, [Next]_vars
  PROVE  Counts'
  <1>1. /\ queue \in Seq(Events) /\ Len(queue) \in Nat /\ Len(queue) <= QueueMax
        /\ QueueMax \in Nat /\ MaxFaults \in Nat /\ faults \in 0..MaxFaults
    BY SpoolConstants DEF LineageInv, Shapes, Counts
  <1>2. /\ emit.pc \notin {"idle", "down"} => emit.ev \in Events
        /\ {emit.ev} \ {Nothing} \subseteq Events
    BY DEF CapInv, TakenOnce, LineageInv, Shapes
  <1>3. EventsOf(emit.lines) \subseteq Events /\ Length(emit.lines) \in Nat
        /\ TotalBytes \in Nat
    <2>1. emit.lines \in Seq(Lines)
      BY DEF LineageInv, Shapes, Emitters
    <2>2. EventsOf(emit.lines) \subseteq Events /\ Spooled \subseteq Events
      BY <2>1, SpoolOfEvents DEF LineageInv
    <2> QED
      BY <2>2, BytesNat, LengthsAreBytes
  <1>4. replay.pc = "send" => Head(replay.lines) \in Lines
    BY FirstLine DEF LineageInv, Shapes, SentBehind, Replays
  <1>5. ASSUME NEW e \in Events, Offer(e) PROVE Counts'
    <2>1. CASE Len(queue) < QueueMax
      <3>1. queue' = Append(queue, e) /\ dropped' = dropped
        BY <1>5, <2>1 DEF Offer
      <3>2. Len(queue') = Len(queue) + 1
        BY <1>1, <3>1
      <3> QED
        BY <1>1, <1>5, <2>1, <3>1, <3>2 DEF Offer, Counts
    <2>2. CASE ~(Len(queue) < QueueMax)
      BY <1>5, <2>2 DEF Offer, Counts
    <2> QED
      BY <2>1, <2>2
  <1>6. CASE Take
    <2>1. Len(Tail(queue)) = Len(queue) - 1
      BY <1>1, <1>6 DEF Take
    <2> QED
      BY <1>1, <1>6, <2>1 DEF Take, Counts
  <1>7. CASE Send \/ SendUnanswered
    BY <1>1, <1>2, <1>7 DEF Send, SendUnanswered, Counts
  <1>8. CASE SendFails \/ Measure \/ Fits \/ Evict \/ Evicted
    <2>1. CASE SendFails
      BY <2>1 DEF SendFails, Counts
    <2>2. CASE Evict
      BY <2>2 DEF Evict, Counts
    <2>3. CASE Evicted
      BY <2>3 DEF Evicted, Counts
    <2>4. CASE Fits
      <3>1. misread' \in BOOLEAN /\ total' = 0
        BY <2>4 DEF Fits
      <3> QED
        BY <2>4, <3>1 DEF Fits, Counts
    <2>5. CASE Measure
      BY <1>3, <2>5 DEF Measure, Counts
    <2> QED
      BY <1>8, <2>1, <2>2, <2>3, <2>4, <2>5
  <1>9. CASE NeverFits
    BY <1>2, <1>9 DEF NeverFits, Counts
  <1>10. CASE Full
    BY <1>3, <1>10 DEF Full, Counts
  <1>11. CASE Delete
    <2>1. total' \in Nat
      BY <1>3, <1>11 DEF Delete, Subtracted, Less, Counts
    <2>2. dropped' \subseteq Events /\ gone' \subseteq Events
      <3>1. CASE Readable(emit.lines)
        BY <1>3, <1>11, <3>1 DEF Delete, Counts
      <3>2. CASE ~Readable(emit.lines)
        BY <1>3, <1>11, <3>2 DEF Delete, Counts
      <3> QED
        BY <3>1, <3>2
    <2> QED
      BY <1>11, <2>1, <2>2 DEF Delete, Counts
  <1>12. CASE AppendLine
    BY <1>2, <1>12 DEF AppendLine, Append_, Counts
  <1>13. CASE List \/ Open \/ ReadFails \/ Skip \/ ResendFails \/ Drained
    BY <1>13 DEF List, Open, ReadFails, Skip, ResendFails, Drained, Counts
  <1>14. CASE Resend \/ ResendUnanswered
    <2>1. Head(replay.lines) \in Events
      BY <1>4, <1>14 DEF Resend, ResendUnanswered, Lines
    <2> QED
      BY <1>1, <1>14, <2>1 DEF Resend, ResendUnanswered, Counts
  <1>15. CASE Crash
    <2>1. ToSet(queue) \subseteq Events
      BY <1>1 DEF ToSet
    <2>2. gone' \subseteq Events
      BY <1>2, <1>15, <2>1 DEF Crash, Counts
    <2> QED
      BY <1>1, <1>15, <2>2 DEF Crash, Counts
  <1>16. CASE Restart
    BY <1>16 DEF Restart, Counts
  <1>17. CASE UNCHANGED vars
    BY <1>17 DEF vars, Counts
  <1>18. CASE AppendFails
    BY <1>1, <1>2, <1>18 DEF AppendFails, Counts
  <1> QED
    BY <1>5, <1>6, <1>7, <1>8, <1>9, <1>10, <1>11, <1>12, <1>13, <1>14, <1>15, <1>16, <1>17,
       <1>18 DEF Next, Emitter, Replay

\* Every reachable state of the emitter, the spool and the replay task is
\* well typed: the channel never passes its capacity, and a line that does
\* not parse is never taken for an event.
THEOREM LineageTypeCorrect == Spec => []TypeOK
  <1>1. Init => CapInv /\ Counts
    <2>1. ASSUME Init PROVE Counts
      <3>1. misread \in BOOLEAN
        BY <2>1, Zenon DEF Init
      <3>2. queue = <<>> /\ total = 0 /\ delivered = {} /\ dropped = {} /\ gone = {}
            /\ faults = MaxFaults
        BY <2>1 DEF Init
      <3>3. Len(queue) <= QueueMax /\ faults \in 0..MaxFaults
        BY <3>2, SpoolConstants
      <3> QED
        BY <3>1, <3>2, <3>3 DEF Counts
    <2> QED
      BY <2>1, CapStarts
  <1>2. LineageInv /\ LineageInv' /\ CapInv /\ Counts /\ [Next]_vars => CapInv' /\ Counts'
    BY CapStep, CountsStep
  <1>3. LineageInv /\ Counts => TypeOK
    BY DEF LineageInv, Shapes, Counts, TypeOK
  <1> QED
    BY <1>1, <1>2, <1>3, LineageAlways, PTL DEF Spec
=============================================================================
