---------------------------- MODULE AuditProofs ----------------------------
(***************************************************************************)
(* Theorems about AuditExport for every bound, file size and spool cap:    *)
(* the hash chain of the native log, the records of the export spool, and  *)
(* the types of both.                                                      *)
(***************************************************************************)
EXTENDS AuditExport, SequenceTheorems, TLAPS

\* A stamped record and a line of a file, without the bounds of the run.
Entry == [id : Nat \ {0}, seq : Nat, prev : Nat]
Lines == Entry \cup {Garbage}

\* The verifier accepts b after a.
Linked(a, b) == a = Garbage \/ b = Garbage \/ Follows(a, b)
LinkedFile(file) == \A i \in 2..Len(file) : Linked(file[i - 1], file[i])
LinkedFiles(log) ==
  \A f \in DOMAIN log : f > 1 /\ log[f] # <<>> =>
    Linked(log[f - 1][Len(log[f - 1])], log[f][1])

\* The native log: every file is linked, to the one before it too, and only
\* the active one may be empty.
LogOK(log) ==
  /\ log \in Seq(Seq(Lines)) /\ log # <<>>
  /\ \A f \in DOMAIN log : LinkedFile(log[f])
  /\ LinkedFiles(log)
  /\ \A f \in DOMAIN log : f < Len(log) => log[f] # <<>>

\* The last line of a log that has one.
HasEnd(log) == log[Len(log)] # <<>> \/ Len(log) > 1
EndOf(log) ==
  IF log[Len(log)] # <<>> THEN log[Len(log)][Len(log[Len(log)])]
  ELSE log[Len(log) - 1][Len(log[Len(log) - 1])]

\* The next record is stamped as the successor of this line.
Succeeds(c, line) == c.seq = line.seq + 1 /\ c.prev = line.id

\* The buffered records continue the log, and the chain continues them.
BufferOK(log, torn, buf, c) ==
  /\ buf \in Seq(Entry) /\ LinkedFile(buf)
  /\ c \in [seq : Nat, prev : Nat]
  /\ buf # <<>> => Succeeds(c, buf[Len(buf)])
  /\ buf # <<>> /\ ~torn /\ HasEnd(log) => Linked(EndOf(log), buf[1])

\* The inductive invariant of the chain.  A writer that runs behind half a
\* line has buffered the record that opens a BROKEN segment.
ChainInv ==
  /\ LogOK(native)
  /\ BufferOK(native, nativeTorn, nbuf, chain)
  /\ nativeTorn \in BOOLEAN /\ stamped \in Nat
  /\ ~Running => nbuf = <<>>
  /\ Running /\ nativeTorn => nbuf # <<>>
  /\ Running /\ nbuf = <<>> /\ HasEnd(native) =>
       EndOf(native) = Garbage \/ Succeeds(chain, EndOf(native))

LEMMA Entries == Entry \subseteq Lines /\ Garbage \notin Entry
BY DEF Entry, Lines, Garbage

LEMMA SucceedsLinks ==
  ASSUME NEW c, NEW line, NEW b, Succeeds(c, line), b.seq = c.seq, b.prev = c.prev
  PROVE  Linked(line, b)
BY DEF Succeeds, Linked, Follows

\* What a file holds after lines were appended to it.
LEMMA AppendedAt ==
  ASSUME NEW file \in Seq(Lines), NEW torn \in BOOLEAN, NEW lines \in Seq(Entry)
  PROVE  LET after == Appended(file, torn, lines)
         IN /\ after \in Seq(Lines)
            /\ Len(after) = Len(file) + Len(lines)
            /\ \A i \in 1..Len(file) : after[i] = file[i]
            /\ \A i \in 1..Len(lines) : after[Len(file) + i] =
                 IF torn /\ i = 1 THEN Garbage ELSE lines[i]
<1> DEFINE after == Appended(file, torn, lines)
<1>0. lines \in Seq(Lines)
  BY Entries
<1>1. CASE torn /\ lines # <<>>
  <2> DEFINE head == file \o <<Garbage>>
  <2>1. Garbage \in Lines
    BY DEF Lines
  <2>2. head \in Seq(Lines) /\ Len(head) = Len(file) + 1
        /\ \A i \in 1..Len(file) : head[i] = file[i]
    BY <2>1
  <2>g. head[Len(file) + 1] = Garbage
    BY <2>1
  <2> DEFINE rest == Tail(lines)
  <2>3. rest \in Seq(Lines) /\ Len(rest) = Len(lines) - 1
        /\ \A i \in 1..(Len(lines) - 1) : rest[i] = lines[i + 1]
    BY <1>0, <1>1
  <2>4. after = head \o rest
    BY <1>1 DEF Appended
  <2> HIDE DEF head, rest, after
  <2>t. head \in Seq(Lines) /\ rest \in Seq(Lines)
    BY <2>2, <2>3
  <2>5. after \in Seq(Lines) /\ Len(after) = Len(head) + Len(rest)
    BY <2>t, <2>4
  <2>6. \A i \in 1..Len(head) : after[i] = head[i]
    BY <2>t, <2>4
  <2>7. \A i \in 1..Len(rest) : after[Len(head) + i] = rest[i]
    BY <2>t, <2>4
  <2>8. ASSUME NEW i \in 1..Len(lines)
        PROVE  after[Len(file) + i] = IF torn /\ i = 1 THEN Garbage ELSE lines[i]
    <3>1. CASE i = 1
      BY <1>1, <2>2, <2>g, <2>6, <3>1
    <3>2. CASE i # 1
      <4>1. i - 1 \in 1..Len(rest) /\ Len(head) + (i - 1) = Len(file) + i
        BY <2>2, <2>3, <3>2
      <4>2. rest[i - 1] = lines[i]
        BY <2>3, <3>2
      <4> QED
        BY <2>7, <3>2, <4>1, <4>2
    <3> QED
      BY <3>1, <3>2
  <2> QED
    BY <2>2, <2>3, <2>5, <2>6, <2>8 DEF after
<1>2. CASE ~(torn /\ lines # <<>>)
  <2>1. after = file \o lines
    BY <1>2 DEF Appended
  <2> HIDE DEF after
  <2>2. after \in Seq(Lines) /\ Len(after) = Len(file) + Len(lines)
        /\ (\A i \in 1..Len(file) : after[i] = file[i])
        /\ \A i \in 1..Len(lines) : after[Len(file) + i] = lines[i]
    BY <1>0, <2>1
  <2>3. ~torn \/ Len(lines) = 0
    BY <1>2
  <2> QED
    BY <2>2, <2>3 DEF after
<1> QED
  BY <1>1, <1>2

\* Appending a prefix of what is buffered keeps the log linked; its last line
\* is then the last one appended, or garbage behind half a line.
LEMMA AppendKeepsLog ==
  ASSUME NEW log, LogOK(log), NEW torn \in BOOLEAN, NEW lines \in Seq(Entry),
         LinkedFile(lines),
         lines # <<>> /\ ~torn /\ HasEnd(log) => Linked(EndOf(log), lines[1])
  PROVE  LET after == [log EXCEPT ![Len(log)] = Appended(log[Len(log)], torn, lines)]
         IN /\ LogOK(after)
            /\ lines = <<>> => after = log
            /\ lines # <<>> => /\ HasEnd(after)
                               /\ EndOf(after) \in {Garbage, lines[Len(lines)]}
                               /\ ~torn => EndOf(after) = lines[Len(lines)]
<1> DEFINE n == Len(log)
           file == log[n]
           new == Appended(file, torn, lines)
           after == [log EXCEPT ![n] = new]
<1>0. log \in Seq(Seq(Lines)) /\ n \in Nat \ {0} /\ n \in DOMAIN log /\ DOMAIN log = 1..n
  BY DEF LogOK
<1>1. file \in Seq(Lines)
  BY <1>0
<1>2. /\ new \in Seq(Lines)
      /\ Len(new) = Len(file) + Len(lines)
      /\ \A i \in 1..Len(file) : new[i] = file[i]
      /\ \A i \in 1..Len(lines) : new[Len(file) + i] =
           IF torn /\ i = 1 THEN Garbage ELSE lines[i]
  BY <1>1, AppendedAt
<1>3. /\ after \in Seq(Seq(Lines)) /\ Len(after) = n /\ DOMAIN after = 1..n
      /\ after[n] = new /\ \A f \in 1..n : f # n => after[f] = log[f]
  BY <1>0, <1>2
<1>l. Len(lines) \in Nat /\ Len(file) \in Nat /\ (lines = <<>> <=> Len(lines) = 0)
      /\ (file = <<>> <=> Len(file) = 0)
  BY <1>1
<1>4. lines = <<>> => after = log
  <2>1. ASSUME lines = <<>> PROVE new = file
    BY <1>1, <2>1 DEF Appended
  <2> QED
    BY <1>0, <2>1
<1> HIDE DEF n, file, new, after
<1>n. n \in Nat \ {0} /\ Len(new) = Len(file) + Len(lines)
  BY <1>0, <1>2
<1>v. after[n] = new /\ \A f \in 1..n : f # n => after[f] = log[f]
  BY <1>3
<1>5. ASSUME lines # <<>>
      PROVE  /\ HasEnd(after) /\ EndOf(after) \in {Garbage, lines[Len(lines)]}
             /\ ~torn => EndOf(after) = lines[Len(lines)]
  <2>1. Len(new) > 0 /\ new # <<>> /\ Len(lines) \in 1..Len(lines)
        /\ Len(new) = Len(file) + Len(lines)
    BY <1>2, <1>l, <1>5
  <2>2. /\ new[Len(new)] \in {Garbage, lines[Len(lines)]}
        /\ ~torn => new[Len(new)] = lines[Len(lines)]
    BY <1>2, <2>1
  <2> QED
    BY <1>3, <2>1, <2>2 DEF HasEnd, EndOf
<1>6. LinkedFile(new)
  <2> SUFFICES ASSUME NEW i \in 2..Len(new) PROVE Linked(new[i - 1], new[i])
    BY DEF LinkedFile
  <2>1. CASE i <= Len(file)
    <3>1. LinkedFile(file)
      BY <1>0 DEF LogOK, file
    <3>2. i \in 2..Len(file) /\ i - 1 \in 1..Len(file) /\ i \in 1..Len(file)
      BY <1>l, <2>1
    <3> QED
      BY <1>2, <3>1, <3>2 DEF LinkedFile
  <2>2. CASE i = Len(file) + 1
    <3>1. 1 \in 1..Len(lines) /\ lines # <<>> /\ Len(file) \in 1..Len(file) /\ file # <<>>
      BY <1>2, <1>l, <2>2
    <3>2. new[i - 1] = file[Len(file)]
          /\ new[i] = IF torn THEN Garbage ELSE lines[1]
      BY <1>2, <1>l, <2>2, <3>1
    <3>3. HasEnd(log) /\ EndOf(log) = file[Len(file)]
      BY <3>1 DEF HasEnd, EndOf, file, n
    <3> QED
      BY <3>1, <3>2, <3>3 DEF Linked
  <2>3. CASE i > Len(file) + 1
    <3> DEFINE k == i - Len(file)
    <3>1. k \in 2..Len(lines) /\ k - 1 \in 1..Len(lines) /\ k \in 1..Len(lines)
          /\ i = Len(file) + k /\ i - 1 = Len(file) + (k - 1)
      BY <1>2, <1>l, <2>3
    <3>2. Linked(lines[k - 1], lines[k])
      BY <3>1 DEF LinkedFile
    <3>3. new[i] = lines[k] /\ new[i - 1] \in {Garbage, lines[k - 1]}
      BY <1>2, <3>1, SMTT(30)
    <3> QED
      BY <3>2, <3>3 DEF Linked
  <2> QED
    BY <1>n, <1>l, <2>1, <2>2, <2>3
<1>7. ASSUME NEW f \in 1..n PROVE LinkedFile(after[f])
  BY <1>0, <1>3, <1>6, <1>7 DEF LogOK
<1>8. ASSUME NEW f \in 1..n, f > 1, after[f] # <<>>
      PROVE  Linked(after[f - 1][Len(after[f - 1])], after[f][1])
  <2>1. f - 1 \in 1..n /\ f - 1 # n /\ after[f - 1] = log[f - 1]
    <3>1. f - 1 \in 1..n /\ f - 1 # n
      BY <1>n, <1>8
    <3> QED
      BY <1>v, <3>1
  <2>2. CASE f # n
    BY <1>0, <1>3, <1>8, <2>1, <2>2 DEF LogOK, LinkedFiles
  <2>3. CASE f = n /\ file # <<>>
    <3>1. after[f][1] = file[1]
      BY <1>2, <1>3, <1>l, <2>3
    <3>2. Linked(log[n - 1][Len(log[n - 1])], log[n][1])
      BY <1>0, <1>8, <2>3 DEF LogOK, LinkedFiles, file
    <3> QED
      BY <2>1, <2>3, <3>1, <3>2 DEF file
  <2>4. CASE f = n /\ file = <<>>
    <3>1. 1 \in 1..Len(lines) /\ lines # <<>>
      BY <1>2, <1>3, <1>l, <1>8, <2>4
    <3>2. after[f][1] = IF torn THEN Garbage ELSE lines[1]
      BY <1>2, <1>3, <1>l, <2>4, <3>1
    <3>3. HasEnd(log) /\ EndOf(log) = log[n - 1][Len(log[n - 1])]
      BY <1>8, <2>4, <1>0 DEF HasEnd, EndOf, file, n
    <3> QED
      BY <2>1, <2>4, <3>1, <3>2, <3>3 DEF Linked
  <2> QED
    BY <2>2, <2>3, <2>4
<1>9. \A f \in 1..n : f < n => after[f] # <<>>
  <2>1. \A f \in DOMAIN log : f < n => log[f] # <<>>
    BY DEF LogOK, n
  <2>2. ASSUME NEW f \in 1..n, f < n PROVE after[f] # <<>>
    <3>1. after[f] = log[f] /\ f \in DOMAIN log
      BY <1>0, <1>n, <1>v, <2>2
    <3> QED
      BY <2>1, <2>2, <3>1
  <2> QED
    BY <2>2
<1>10. LogOK(after)
  BY <1>0, <1>3, <1>7, <1>8, <1>9 DEF LogOK, LinkedFiles
<1> QED
  BY <1>4, <1>5, <1>10 DEF after, new, file, n

\* Stamping from a chain that continues the buffer, or the log when the
\* buffer is empty, or that opens a BROKEN segment.
LEMMA StampKeepsBuffer ==
  ASSUME NEW log, LogOK(log), NEW torn, NEW c, BufferOK(log, torn, nbuf, chain),
         stamped \in Nat, c \in [seq : Nat, prev : Nat], Stamp(c),
         nbuf # <<>> => c = chain,
         nbuf = <<>> /\ ~torn /\ HasEnd(log) =>
           c.prev = Broken \/ EndOf(log) = Garbage \/ Succeeds(c, EndOf(log))
  PROVE  BufferOK(log, torn, nbuf', chain') /\ nbuf' # <<>> /\ stamped' \in Nat
<1> DEFINE r == [id |-> stamped + 1, seq |-> c.seq, prev |-> c.prev]
<1>0. nbuf \in Seq(Entry) /\ LinkedFile(nbuf) /\ Len(nbuf) \in Nat
  BY DEF BufferOK
<1>1. r \in Entry /\ r.seq = c.seq /\ r.prev = c.prev /\ r.id = stamped + 1
  BY DEF Entry
<1>2. nbuf' = Append(nbuf, r) /\ chain' = [seq |-> c.seq + 1, prev |-> r.id]
      /\ stamped' = stamped + 1
  BY DEF Stamp
<1> HIDE DEF r
<1>3. /\ nbuf' \in Seq(Entry) /\ Len(nbuf') = Len(nbuf) + 1 /\ nbuf' # <<>>
      /\ nbuf'[Len(nbuf) + 1] = r
      /\ \A i \in 1..Len(nbuf) : nbuf'[i] = nbuf[i]
  BY <1>0, <1>1, <1>2
<1>4. chain' \in [seq : Nat, prev : Nat] /\ Succeeds(chain', r)
  BY <1>1, <1>2 DEF Succeeds
<1>5. LinkedFile(nbuf')
  <2> SUFFICES ASSUME NEW i \in 2..(Len(nbuf) + 1) PROVE Linked(nbuf'[i - 1], nbuf'[i])
    BY <1>3 DEF LinkedFile
  <2>1. CASE i <= Len(nbuf)
    <3>1. i \in 2..Len(nbuf) /\ i - 1 \in 1..Len(nbuf) /\ i \in 1..Len(nbuf)
      BY <1>0, <2>1
    <3> QED
      BY <1>0, <1>3, <3>1 DEF LinkedFile
  <2>2. CASE i = Len(nbuf) + 1
    <3>1. i - 1 = Len(nbuf) /\ i - 1 \in 1..Len(nbuf) /\ nbuf # <<>>
      BY <1>0, <2>2
    <3>2. Succeeds(c, nbuf[Len(nbuf)])
      BY <3>1 DEF BufferOK
    <3>3. Linked(nbuf[Len(nbuf)], r)
      BY <1>1, <3>2, SucceedsLinks
    <3> QED
      BY <1>3, <2>2, <3>1, <3>3
  <2> QED
    BY <1>0, <2>1, <2>2
<1>6. ASSUME ~torn, HasEnd(log) PROVE Linked(EndOf(log), nbuf'[1])
  <2>1. CASE nbuf # <<>>
    <3>1. 1 \in 1..Len(nbuf)
      BY <1>0, <2>1
    <3> QED
      BY <1>3, <1>6, <2>1, <3>1 DEF BufferOK
  <2>2. CASE nbuf = <<>>
    <3>1. nbuf'[1] = r
      BY <1>3, <2>2
    <3>2. CASE c.prev = Broken \/ EndOf(log) = Garbage
      BY <1>1, <3>1, <3>2 DEF Linked, Follows
    <3>3. CASE Succeeds(c, EndOf(log))
      BY <1>1, <3>1, <3>3, SucceedsLinks
    <3> QED
      BY <1>6, <2>2, <3>2, <3>3
  <2> QED
    BY <2>1, <2>2
<1> QED
  BY <1>2, <1>3, <1>4, <1>5, <1>6 DEF BufferOK

\* Deleting the oldest files and opening a new one behind a full one.
LEMMA RotateKeepsLog ==
  ASSUME NEW log, LogOK(log), NEW files, NEW gone \in Nat, gone = 0 \/ gone + 1 < Len(files),
         \/ files = log
         \/ files = Append(log, <<>>) /\ log[Len(log)] # <<>>
  PROVE  LET after == SubSeq(files, gone + 1, Len(files))
         IN /\ LogOK(after)
            /\ HasEnd(after) <=> HasEnd(log)
            /\ HasEnd(log) => EndOf(after) = EndOf(log)
<1> DEFINE n == Len(log)
           m == Len(files)
           after == SubSeq(files, gone + 1, m)
<1>d. log \in Seq(Seq(Lines)) /\ n \in Nat \ {0} /\ DOMAIN log = 1..n
  BY DEF LogOK
<1>0. /\ \A f \in 1..n : LinkedFile(log[f])
      /\ \A f \in 1..n : f > 1 /\ log[f] # <<>> =>
           Linked(log[f - 1][Len(log[f - 1])], log[f][1])
      /\ \A f \in 1..n : f < n => log[f] # <<>>
  <2>1. /\ \A f \in DOMAIN log : LinkedFile(log[f])
        /\ \A f \in DOMAIN log : f > 1 /\ log[f] # <<>> =>
             Linked(log[f - 1][Len(log[f - 1])], log[f][1])
        /\ \A f \in DOMAIN log : f < n => log[f] # <<>>
    BY DEF LogOK, LinkedFiles
  <2> HIDE DEF n
  <2> QED
    BY <1>d, <2>1
<1> HIDE DEF n
<1>1. /\ files \in Seq(Seq(Lines)) /\ m \in {n, n + 1}
      /\ \A f \in 1..n : files[f] = log[f]
      /\ m = n + 1 => files[m] = <<>> /\ log[n] # <<>>
  <2>1. CASE files = log
    <3>1. m = n
      BY <2>1 DEF n
    <3>2. m # n + 1
      BY <1>d, <3>1
    <3> QED
      BY <1>d, <2>1, <3>1, <3>2
  <2>2. CASE files = Append(log, <<>>) /\ log[n] # <<>>
    <3>1. <<>> \in Seq(Lines)
      OBVIOUS
    <3>2. /\ files \in Seq(Seq(Lines)) /\ m = n + 1 /\ files[n + 1] = <<>>
          /\ \A f \in 1..n : files[f] = log[f]
      <4>1. /\ Append(log, <<>>) \in Seq(Seq(Lines))
            /\ Len(Append(log, <<>>)) = Len(log) + 1
            /\ Append(log, <<>>)[Len(log) + 1] = <<>>
            /\ \A f \in 1..Len(log) : Append(log, <<>>)[f] = log[f]
        BY <1>d, <3>1, AppendProperties
      <4> QED
        BY <2>2, <4>1 DEF n
    <3> QED
      BY <2>2, <3>2
  <2> QED
    BY <2>1, <2>2 DEF n
<1>g. /\ gone < m /\ (gone = 0 \/ gone + 1 < m)
      /\ m \in Nat /\ n \in Nat /\ n > 0 /\ m >= n /\ m <= n + 1
  <2>1. gone = 0 \/ gone + 1 < m
    OBVIOUS
  <2> HIDE DEF m
  <2> QED
    BY <1>d, <1>1, <2>1
<1>2. /\ after \in Seq(Seq(Lines)) /\ Len(after) = m - gone
      /\ \A f \in 1..(m - gone) : after[f] = files[gone + f]
  <2>m. gone + 1 \in Int /\ m \in Int /\ \A i \in (gone + 1)..m : files[i] \in Seq(Lines)
    <3>1. DOMAIN files = 1..m
      BY <1>1
    <3> HIDE DEF m
    <3>2. \A i \in (gone + 1)..m : i \in 1..m
      BY <1>g
    <3> QED
      BY <1>1, <1>g, <3>1, <3>2
  <2>2. /\ after \in Seq(Seq(Lines))
        /\ Len(after) = IF gone + 1 <= m THEN m - (gone + 1) + 1 ELSE 0
        /\ \A f \in 1..(m - (gone + 1) + 1) : after[f] = files[gone + 1 + f - 1]
    BY <2>m, SubSeqProperties
  <2>3. m - (gone + 1) + 1 = m - gone /\ gone + 1 <= m
    BY <1>g
  <2>4. \A f \in 1..(m - gone) : gone + 1 + f - 1 = gone + f
    BY <1>g
  <2> QED
    BY <2>2, <2>3, <2>4
<1> HIDE DEF m, after
<1>3. after # <<>> /\ DOMAIN after = 1..(m - gone)
  BY <1>g, <1>2
<1>4. ASSUME NEW f \in 1..m
      PROVE  /\ LinkedFile(files[f])
             /\ f > 1 /\ files[f] # <<>> => Linked(files[f - 1][Len(files[f - 1])], files[f][1])
             /\ f < m => files[f] # <<>>
  <2>1. CASE f \in 1..n
    <3>1. f > 1 => f - 1 \in 1..n
      BY <1>g, <2>1
    <3>2. f < m => f < n \/ (m = n + 1 /\ f = n)
      BY <1>g, <2>1
    <3> QED
      BY <1>0, <1>1, <2>1, <3>1, <3>2
  <2>2. CASE f \notin 1..n
    <3>1. f = m /\ m = n + 1
      BY <1>g, <2>2
    <3>2. files[f] = <<>>
      BY <1>1, <3>1
    <3>3. LinkedFile(<<>>)
      BY DEF LinkedFile
    <3> QED
      BY <1>g, <3>1, <3>2, <3>3
  <2> QED
    BY <2>1, <2>2
<1>5. LogOK(after)
  <2>1. ASSUME NEW f \in 1..(m - gone)
        PROVE  /\ LinkedFile(after[f])
               /\ f > 1 /\ after[f] # <<>> => Linked(after[f - 1][Len(after[f - 1])], after[f][1])
               /\ f < m - gone => after[f] # <<>>
    <3>1. gone + f \in 1..m /\ after[f] = files[gone + f]
          /\ (f < m - gone => gone + f < m)
      BY <1>g, <1>2
    <3>2. ASSUME f > 1 PROVE gone + f > 1 /\ after[f - 1] = files[(gone + f) - 1]
      <4>1. f - 1 \in 1..(m - gone) /\ gone + (f - 1) = (gone + f) - 1 /\ gone + f > 1
        BY <1>g, <3>2
      <4> QED
        BY <1>2, <4>1
    <3> QED
      BY <1>4, <3>1, <3>2
  <2> QED
    BY <1>2, <1>3, <2>1 DEF LogOK, LinkedFiles
<1>6. (HasEnd(after) <=> HasEnd(log)) /\ (HasEnd(log) => EndOf(after) = EndOf(log))
  <2>1. after[m - gone] = files[m]
    <3>1. m - gone \in 1..(m - gone) /\ gone + (m - gone) = m
      BY <1>g
    <3> QED
      BY <1>2, <3>1
  <2>2. ASSUME m - gone > 1 PROVE after[m - gone - 1] = files[m - 1]
    <3>1. m - gone - 1 \in 1..(m - gone) /\ gone + (m - gone - 1) = m - 1
      BY <1>g, <2>2
    <3> QED
      BY <1>2, <3>1
  <2>3. m = n => files[m] = log[n] /\ (n > 1 => files[m - 1] = log[n - 1])
    BY <1>g, <1>1
  <2>4. m = n + 1 => files[m] = <<>> /\ files[m - 1] = log[n] /\ log[n] # <<>>
    BY <1>g, <1>1
  <2>5. m = n \/ m = n + 1
    BY <1>1
  <2>6. Len(after) = m - gone
    BY <1>2
  <2>7. HasEnd(after) <=> after[m - gone] # <<>> \/ m - gone > 1
    BY <2>6 DEF HasEnd
  <2>8. CASE m = n
    <3>1. after[m - gone] = log[n]
      BY <2>1, <2>3, <2>8
    <3>2. m - gone > 1 <=> n > 1
      BY <1>g, <2>8
    <3>3. n > 1 => after[m - gone - 1] = log[n - 1]
      BY <2>2, <2>3, <2>8, <3>2
    <3> QED
      BY <2>6, <2>7, <3>1, <3>2, <3>3 DEF HasEnd, EndOf, n
  <2>9. CASE m = n + 1
    <3>1. after[m - gone] = <<>> /\ m - gone > 1
      BY <1>g, <2>1, <2>4, <2>9
    <3>2. after[m - gone - 1] = log[n] /\ log[n] # <<>>
      BY <2>2, <2>4, <2>9, <3>1
    <3> QED
      BY <2>6, <2>7, <3>1, <3>2 DEF HasEnd, EndOf, n
  <2> QED
    BY <2>5, <2>8, <2>9
<1> QED
  BY <1>5, <1>6 DEF after, m

LEMMA InitChain == Init => ChainInv
<1> SUFFICES ASSUME Init PROVE ChainInv
  OBVIOUS
<1> DEFINE empty == <<>>
<1>0. empty \in Seq(Lines) /\ empty \in Seq(Entry) /\ Len(empty) = 0
  OBVIOUS
<1> HIDE DEF empty
<1>1. /\ native \in Seq(Seq(Lines)) /\ native # <<>> /\ Len(native) = 1
      /\ native[1] = empty /\ DOMAIN native = 1..1
  BY <1>0 DEF Init, empty
<1>2. LinkedFile(empty)
  BY <1>0 DEF LinkedFile
<1>3. LogOK(native)
  BY <1>1, <1>2 DEF LogOK, LinkedFiles
<1>4. ~HasEnd(native)
  BY <1>1 DEF HasEnd, empty
<1>5. nbuf = empty /\ chain \in [seq : Nat, prev : Nat] /\ nativeTorn = FALSE /\ stamped = 0
      /\ wpc = "idle"
  BY DEF Init, empty, Genesis
<1> QED
  BY <1>0, <1>2, <1>3, <1>4, <1>5 DEF ChainInv, BufferOK, Running, empty

\* The writer stamps a record after the last one.
LEMMA StampKeepsChain ==
  ASSUME ChainInv, Running, Running', Stamp(chain), UNCHANGED nativeTorn,
         LogOK(native'), HasEnd(native') => HasEnd(native) /\ EndOf(native') = EndOf(native)
  PROVE  ChainInv'
<1>1. BufferOK(native', nativeTorn, nbuf, chain)
  BY DEF ChainInv, BufferOK
<1>2. chain \in [seq : Nat, prev : Nat] /\ stamped \in Nat
  BY DEF ChainInv, BufferOK
<1>3. nbuf = <<>> /\ ~nativeTorn /\ HasEnd(native') =>
        EndOf(native') = Garbage \/ Succeeds(chain, EndOf(native'))
  BY DEF ChainInv
<1>4. BufferOK(native', nativeTorn, nbuf', chain') /\ nbuf' # <<>> /\ stamped' \in Nat
  BY <1>1, <1>2, <1>3, StampKeepsBuffer
<1> QED
  BY <1>4 DEF ChainInv

\* A buffer, or the part of it that a crash leaves, goes to the native log.
LEMMA FlushKeepsLog ==
  ASSUME ChainInv, NEW k \in 0..Len(nbuf), NEW lines, lines = SubSeq(nbuf, 1, k),
         native' = WithActive(Appended(Active, nativeTorn, lines))
  PROVE  /\ LogOK(native')
         /\ k = 0 => native' = native
         /\ k > 0 => /\ HasEnd(native') /\ EndOf(native') \in {Garbage, nbuf[k]}
                     /\ ~nativeTorn => EndOf(native') = nbuf[k]
<1>0. nbuf \in Seq(Entry) /\ LinkedFile(nbuf) /\ Len(nbuf) \in Nat /\ k \in Nat /\ k <= Len(nbuf)
  BY DEF ChainInv, BufferOK
<1>1. lines \in Seq(Entry) /\ Len(lines) = k /\ \A i \in 1..k : lines[i] = nbuf[i]
  <2>1. \A i \in 1..k : nbuf[i] \in Entry
    BY <1>0
  <2>2. /\ lines \in Seq(Entry)
        /\ Len(lines) = IF 1 <= k THEN k - 1 + 1 ELSE 0
        /\ \A i \in 1..(k - 1 + 1) : lines[i] = nbuf[1 + i - 1]
    BY <1>0, <2>1, SubSeqProperties
  <2>3. k - 1 + 1 = k /\ (~(1 <= k) => k = 0) /\ \A i \in 1..k : 1 + i - 1 = i
    BY <1>0
  <2> QED
    BY <2>2, <2>3
<1>2. LinkedFile(lines)
  BY <1>0, <1>1 DEF LinkedFile
<1>3. lines # <<>> <=> k > 0
  BY <1>0, <1>1
<1>4. ASSUME lines # <<>>, ~nativeTorn, HasEnd(native) PROVE Linked(EndOf(native), lines[1])
  <2>1. nbuf # <<>> /\ lines[1] = nbuf[1]
    BY <1>0, <1>1, <1>3, <1>4
  <2> QED
    BY <1>4, <2>1 DEF ChainInv, BufferOK
<1>5. native' = [native EXCEPT ![Len(native)] = Appended(native[Len(native)], nativeTorn, lines)]
  BY DEF WithActive, Active
<1>6. /\ LogOK(native')
      /\ lines = <<>> => native' = native
      /\ lines # <<>> => /\ HasEnd(native') /\ EndOf(native') \in {Garbage, lines[Len(lines)]}
                         /\ ~nativeTorn => EndOf(native') = lines[Len(lines)]
  <2>1. LogOK(native) /\ nativeTorn \in BOOLEAN /\ lines \in Seq(Entry)
    BY <1>1 DEF ChainInv
  <2> DEFINE log == native
             after == [log EXCEPT ![Len(log)] = Appended(log[Len(log)], nativeTorn, lines)]
  <2>2. /\ LogOK(after)
        /\ lines = <<>> => after = log
        /\ lines # <<>> => /\ HasEnd(after) /\ EndOf(after) \in {Garbage, lines[Len(lines)]}
                           /\ ~nativeTorn => EndOf(after) = lines[Len(lines)]
    BY <2>1, <1>2, <1>4, AppendKeepsLog, ZenonT(60)
  <2> HIDE DEF after
  <2> QED
    BY <1>5, <2>2 DEF after
<1> QED
  BY <1>0, <1>1, <1>3, <1>6

LEMMA FlushNativeKeepsChain ==
  ASSUME ChainInv, FlushNative
  PROVE  ChainInv'
<1>0. nbuf \in Seq(Entry) /\ Len(nbuf) \in Nat /\ (nbuf = <<>> <=> Len(nbuf) = 0)
      /\ Running /\ Running' /\ stamped \in Nat
  BY DEF ChainInv, BufferOK, FlushNative, Running
<1>1. SubSeq(nbuf, 1, Len(nbuf)) = nbuf /\ Len(nbuf) \in 0..Len(nbuf)
  BY <1>0, SubSeqFull
<1>2. native' = WithActive(Appended(Active, nativeTorn, nbuf))
  BY DEF FlushNative
<1>3. /\ LogOK(native')
      /\ Len(nbuf) = 0 => native' = native
      /\ Len(nbuf) > 0 => HasEnd(native') /\ EndOf(native') \in {Garbage, nbuf[Len(nbuf)]}
  BY <1>1, <1>2, FlushKeepsLog
<1>4. nativeTorn' = FALSE /\ nbuf' = <<>> /\ chain' = chain /\ stamped' = stamped
  BY DEF FlushNative
<1>5. chain \in [seq : Nat, prev : Nat] /\ (nbuf # <<>> => Succeeds(chain, nbuf[Len(nbuf)]))
  BY DEF ChainInv, BufferOK
<1>6. BufferOK(native', nativeTorn', nbuf', chain')
  <2>1. <<>> \in Seq(Entry) /\ Len(<<>>) = 0
    OBVIOUS
  <2> QED
    BY <1>4, <1>5, <2>1 DEF BufferOK, LinkedFile
<1>7. HasEnd(native') => EndOf(native') = Garbage \/ Succeeds(chain', EndOf(native'))
  <2>1. CASE Len(nbuf) = 0
    BY <1>0, <1>3, <1>4, <2>1 DEF ChainInv
  <2>2. CASE Len(nbuf) > 0
    BY <1>0, <1>3, <1>4, <1>5, <2>2
  <2> QED
    BY <1>0, <2>1, <2>2
<1> QED
  BY <1>0, <1>3, <1>4, <1>6, <1>7 DEF ChainInv

LEMMA RotateKeepsChain ==
  ASSUME ChainInv, NEW extra \in Nat, Rotate(extra)
  PROVE  /\ ChainInv'
         /\ HasEnd(native') <=> HasEnd(native)
         /\ HasEnd(native) => EndOf(native') = EndOf(native)
<1> DEFINE full == Len(Active) >= MaxFile
           files == IF full THEN Append(native, <<>>) ELSE native
           rotated == Len(files) - 1
           excess == IF full /\ rotated > MaxFiles THEN rotated - MaxFiles ELSE 0
           gone == excess + extra
<1>0. /\ native \in Seq(Seq(Lines)) /\ native # <<>> /\ Len(native) \in Nat \ {0}
      /\ Active \in Seq(Lines) /\ stamped \in Nat
  BY DEF ChainInv, LogOK, Active
<1>1. full => Active # <<>>
  BY <1>0, AuditConstants
<1>2. \/ files = native
      \/ files = Append(native, <<>>) /\ native[Len(native)] # <<>>
  BY <1>1 DEF Active
<1>3. Len(files) \in Nat /\ Len(files) >= 1
  <2>1. Len(Append(native, <<>>)) = Len(native) + 1
    BY <1>0
  <2> QED
    BY <1>0, <2>1
<1>4. /\ extra > 0 => gone < rotated
      /\ native' = SubSeq(files, gone + 1, Len(files))
      /\ IF gone > 0 THEN Stamp(chain) /\ wpc' = "note"
         ELSE wpc' = "idle" /\ UNCHANGED <<nbuf, sbuf, chain, stamped>>
      /\ UNCHANGED nativeTorn /\ wpc = "rotate"
  BY DEF Rotate
<1> HIDE DEF full, files
<1>5. gone \in Nat /\ (gone = 0 \/ gone + 1 < Len(files))
  <2>1. excess \in Nat /\ (excess = 0 \/ excess < rotated)
    BY <1>3, AuditConstants
  <2> HIDE DEF excess
  <2> QED
    BY <1>3, <1>4, <2>1
<1> HIDE DEF gone
<1>6. /\ LogOK(native') /\ (HasEnd(native') <=> HasEnd(native))
      /\ HasEnd(native) => EndOf(native') = EndOf(native)
  BY <1>2, <1>4, <1>5, RotateKeepsLog DEF ChainInv
<1>7. Running /\ Running'
  BY <1>4 DEF Running
<1>8. ASSUME gone > 0 PROVE ChainInv'
  BY <1>4, <1>6, <1>7, <1>8, StampKeepsChain
<1>9. ASSUME ~(gone > 0) PROVE ChainInv'
  <2>1. UNCHANGED <<nbuf, chain, stamped, nativeTorn>>
    BY <1>4, <1>9
  <2> QED
    BY <1>6, <1>7, <2>1 DEF ChainInv, BufferOK
<1> QED
  BY <1>6, <1>8, <1>9

LEMMA CrashKeepsChain ==
  ASSUME ChainInv, NEW nKept, NEW nHalf \in BOOLEAN, NEW sKept, NEW sHalf,
         Crash(nKept, nHalf, sKept, sHalf)
  PROVE  ChainInv'
<1>1. /\ nKept \in 0..Len(nbuf)
      /\ native' = WithActive(Appended(Active, nativeTorn, SubSeq(nbuf, 1, nKept)))
      /\ nativeTorn' = (nHalf \/ (nativeTorn /\ SubSeq(nbuf, 1, nKept) = <<>>))
      /\ nbuf' = <<>> /\ chain' = [seq |-> 0, prev |-> Genesis] /\ wpc' = "down"
      /\ stamped' = stamped
  BY DEF Crash
<1>2. LogOK(native')
  BY <1>1, FlushKeepsLog
<1>3. nativeTorn' \in BOOLEAN /\ stamped' \in Nat /\ chain' \in [seq : Nat, prev : Nat]
  BY <1>1 DEF ChainInv, Genesis
<1>4. BufferOK(native', nativeTorn', nbuf', chain')
  <2>1. <<>> \in Seq(Entry) /\ Len(<<>>) = 0
    OBVIOUS
  <2> QED
    BY <1>1, <1>3, <2>1 DEF BufferOK, LinkedFile
<1>5. ~Running'
  BY <1>1 DEF Running
<1> QED
  BY <1>1, <1>2, <1>3, <1>4, <1>5 DEF ChainInv

\* The last line of the log is what a restart looks at.
LEMMA TipIsEnd ==
  ASSUME LogOK(native)
  PROVE  /\ HasEnd(native) => Tip = EndOf(native) /\ EndOf(native) \in Lines
         /\ ~HasEnd(native) => Tip.id = Genesis /\ Tip # Garbage
<1>0. native \in Seq(Seq(Lines)) /\ Len(native) \in Nat \ {0}
      /\ \A f \in 1..Len(native) : f < Len(native) => native[f] # <<>>
  BY DEF LogOK
<1>1. Active \in Seq(Lines) /\ (Active # <<>> => Active[Len(Active)] \in Lines)
  BY <1>0 DEF Active
<1>2. ASSUME Len(native) > 1
      PROVE  native[Len(native) - 1][Len(native[Len(native) - 1])] \in Lines
  <2> DEFINE file == native[Len(native) - 1]
  <2>1. file \in Seq(Lines) /\ file # <<>>
    BY <1>0, <1>2
  <2> HIDE DEF file
  <2>2. Len(file) \in 1..Len(file)
    BY <2>1
  <2> QED
    BY <2>1, <2>2 DEF file
<1>3. [id |-> Genesis] # Garbage
  BY DEF Genesis, Garbage
<1> QED
  BY <1>0, <1>1, <1>2, <1>3 DEF HasEnd, EndOf, Tip, Active

LEMMA RestartKeepsChain ==
  ASSUME ChainInv, Restart
  PROVE  ChainInv'
<1>1. /\ ~Running /\ Running' /\ UNCHANGED <<native, nativeTorn, nbuf, stamped>>
      /\ ~nativeTorn /\ Tip # Garbage
      /\ chain' = IF Tip.id = Genesis THEN [seq |-> 0, prev |-> Genesis]
                  ELSE [seq |-> Tip.seq + 1, prev |-> Tip.id]
  BY DEF Restart, Running, TornTip
<1>2. nbuf = <<>> /\ LogOK(native)
  BY <1>1 DEF ChainInv
<1>3. ASSUME HasEnd(native) PROVE Tip \in Entry /\ Tip = EndOf(native)
  BY <1>1, <1>2, <1>3, TipIsEnd DEF Lines
<1>4. HasEnd(native) => Succeeds(chain', EndOf(native)) /\ chain' \in [seq : Nat, prev : Nat]
  BY <1>1, <1>3 DEF Entry, Genesis, Succeeds
<1>5. chain' \in [seq : Nat, prev : Nat]
  BY <1>1, <1>2, <1>4, TipIsEnd DEF Genesis
<1> QED
  BY <1>1, <1>2, <1>4, <1>5 DEF ChainInv, BufferOK

LEMMA RestartBrokenKeepsChain ==
  ASSUME ChainInv, RestartBroken
  PROVE  ChainInv'
<1> DEFINE c == [seq |-> 0, prev |-> Broken]
<1>1. /\ ~Running /\ Running' /\ UNCHANGED <<native, nativeTorn>> /\ Stamp(c)
  BY DEF RestartBroken, Running
<1>2. nbuf = <<>> /\ LogOK(native) /\ stamped \in Nat
      /\ BufferOK(native, nativeTorn, nbuf, chain)
  BY <1>1 DEF ChainInv
<1>3. c \in [seq : Nat, prev : Nat] /\ c.prev = Broken
  BY AuditConstants DEF Broken
<1> HIDE DEF c
<1>4. BufferOK(native, nativeTorn, nbuf', chain') /\ nbuf' # <<>> /\ stamped' \in Nat
  BY <1>1, <1>2, <1>3, StampKeepsBuffer
<1> QED
  BY <1>1, <1>4 DEF ChainInv

LEMMA StepKeepsChain ==
  ASSUME ChainInv, [Next]_vars
  PROVE  ChainInv'
<1>1. CASE Write
  <2>1. Running /\ Running' /\ Stamp(chain) /\ UNCHANGED <<native, nativeTorn>>
    BY <1>1 DEF Write, Running
  <2> QED
    BY <2>1, StampKeepsChain DEF ChainInv
<1>2. CASE FlushNative
  BY <1>2, FlushNativeKeepsChain
<1>3. CASE \E extra \in 0..MaxRecords : Rotate(extra)
  BY <1>3, RotateKeepsChain, AuditConstants
<1>4. CASE \E nKept, sKept \in Numbers, nHalf, sHalf \in BOOLEAN :
             Crash(nKept, nHalf, sKept, sHalf)
  BY <1>4, CrashKeepsChain
<1>5. CASE Restart \/ RestartBroken
  BY <1>5, RestartKeepsChain, RestartBrokenKeepsChain
<1>6. CASE UNCHANGED <<native, nativeTorn, nbuf, chain, stamped>> /\ Running' = Running
  BY <1>6 DEF ChainInv, BufferOK
<1>7. FlushSpool \/ Shipper \/ UNCHANGED vars =>
        UNCHANGED <<native, nativeTorn, nbuf, chain, stamped>> /\ Running' = Running
  BY DEF FlushSpool, Shipper, Trim, Read, ReadNothing, ExportOk, ExportFails,
     ExportUnanswered, Truncate, Advance, AdvanceFails, vars, writerVars, Running
<1> QED
  BY <1>1, <1>2, <1>3, <1>4, <1>5, <1>6, <1>7 DEF Next, Writer

LEMMA ChainOK ==
  ASSUME ChainInv
  PROVE  ChainVerifies
<1>0. native \in Seq(Seq(Lines)) /\ DOMAIN native = 1..Len(native)
  BY DEF ChainInv, LogOK
<1>1. \A a, b : Linked(a, b) => (Garbage \notin {a, b} => Follows(a, b))
  BY DEF Linked
<1> QED
  BY <1>1 DEF ChainInv, LogOK, LinkedFile, LinkedFiles, ChainVerifies

\* The native log of audit.rs verifies at every moment, for every file size,
\* number of generations and sequence of crashes: a record follows the one
\* before it, in its file or in the file before, or says that the chain broke.
THEOREM LogAlwaysVerifies == Spec => []ChainVerifies
<1>1. ChainInv /\ [Next]_vars => ChainInv'
  BY StepKeepsChain
<1> QED
  BY InitChain, <1>1, ChainOK, PTL DEF Spec

-----------------------------------------------------------------------------
(* Nothing is lost between the spool and the collector. *)

LinesIn(file) == {file[i] : i \in DOMAIN file}
Rising(file) == \A i, j \in DOMAIN file : i < j => file[i].seq < file[j].seq

\* One past the last number in the native log, and in the chain.
LogTop == IF HasEnd(native) THEN EndOf(native).seq + 1 ELSE 0
Top == LogTop + Len(nbuf)

\* While no crash left anything ragged the records are numbered without a gap
\* and none twice, and a record of the spool is in the log or its buffer.
NumberInv ==
  /\ ~nativeTorn
  /\ HasEnd(native) => EndOf(native) \in Entry
  /\ \A i \in DOMAIN nbuf : nbuf[i].seq = LogTop + i - 1 /\ nbuf[i].id <= stamped
  /\ \A i, j \in DOMAIN nbuf : nbuf[i].id = nbuf[j].id => i = j
  /\ Running => chain.seq = Top
  /\ Top <= stamped /\ stamped <= MaxRecords

\* The spool and its buffer rise.
OrderInv ==
  /\ spool \in Seq(Entry) /\ sbuf \in Seq(Entry) /\ ~spoolTorn
  /\ Rising(spool) /\ Rising(sbuf)
  /\ \A a \in LinesIn(spool), b \in LinesIn(sbuf) : a.seq < b.seq
  /\ \A a \in LinesIn(spool) \cup LinesIn(sbuf) : a.seq < LogTop \/ a \in LinesIn(nbuf)
  /\ ~Running => sbuf = <<>>

\* Where a record that left the spool may be.
Done == received \cup dropped \cup skipped

\* A cursor at `last` passes over nothing but these records, now or later.
Passes(last, ids, lines, rest, top) ==
  /\ last \in Nat /\ last < top
  /\ \A b \in rest : last < b.seq
  /\ \A a \in lines : a.seq <= last => a.id \in ids

\* An offset of `end` passes over nothing but these records.
Skips(end, ids, file) ==
  /\ end \in Nat /\ end <= Len(file)
  /\ \A i \in 1..end : file[i].id \in ids

InFlight == ship.pc \in {"export", "truncate", "write"}

ShipInv ==
  LET lines == LinesIn(spool)
      rest == LinesIn(sbuf)
  IN /\ cursor # NoSeq => Passes(cursor, Done, lines, rest, Top)
     /\ disk # NoSeq => Passes(disk, Done, lines, rest, Top)
     /\ Skips(offset, Done, spool)
     /\ InFlight => /\ Passes(ship.last, Done \cup ship.batch, lines, rest, Top)
                    /\ Skips(ship.end, Done \cup ship.batch, spool)
     /\ ship.pc \in {"truncate", "write"} => ship.batch \subseteq received
     /\ spooled \subseteq Done \cup {a.id : a \in lines}
     /\ ~Running => cursor = NoSeq /\ offset = 0 /\ ~InFlight
     /\ "pc" \in DOMAIN ship

\* A number below `low`, or of a buffered record that is one of these.
Known(last, low, buffered, ids) ==
  last \in Nat /\ (last < low \/ \E a \in buffered : a.seq = last /\ a.id \in ids)

\* The cursor file holds the number of a record that was in the spool, and is
\* in the log or its buffer.
KnownInv ==
  /\ \A a \in LinesIn(spool) : a.id \in spooled
  /\ disk # NoSeq => Known(disk, LogTop, LinesIn(nbuf), spooled)
  /\ InFlight => Known(ship.last, LogTop, LinesIn(nbuf), spooled)

\* The inductive invariant of the export.
ExportInv ==
  /\ ChainInv
  /\ ragged \/ (NumberInv /\ OrderInv /\ ShipInv /\ KnownInv)

LEMMA LinesInAt ==
  ASSUME NEW file \in Seq(Entry)
  PROVE  /\ DOMAIN file = 1..Len(file) /\ Len(file) \in Nat
         /\ \A i \in 1..Len(file) : file[i] \in LinesIn(file) /\ file[i] \in Entry
         /\ \A a \in LinesIn(file) : a \in Entry /\ \E i \in 1..Len(file) : a = file[i]
         /\ LinesIn(<<>>) = {}
BY DEF LinesIn

\* Lines behind the last one of a file.
LEMMA LinesInConcat ==
  ASSUME NEW file \in Seq(Entry), NEW more \in Seq(Entry)
  PROVE  /\ file \o more \in Seq(Entry)
         /\ LinesIn(file \o more) = LinesIn(file) \cup LinesIn(more)
         /\ \A i \in 1..Len(file) : (file \o more)[i] = file[i]
         /\ Len(file \o more) = Len(file) + Len(more)
<1> DEFINE after == file \o more
<1>1. /\ after \in Seq(Entry) /\ Len(after) = Len(file) + Len(more)
      /\ \A i \in 1..Len(file) : after[i] = file[i]
      /\ \A i \in 1..Len(more) : after[Len(file) + i] = more[i]
  OBVIOUS
<1> HIDE DEF after
<1>2. Len(file) \in Nat /\ Len(more) \in Nat
  OBVIOUS
<1>3. ASSUME NEW a \in LinesIn(file) PROVE a \in LinesIn(after)
  <2>1. PICK i \in 1..Len(file) : a = file[i]
    BY LinesInAt
  <2>2. i \in 1..Len(after)
    BY <1>1, <1>2
  <2> QED
    BY <1>1, <2>1, <2>2, LinesInAt
<1>4. ASSUME NEW a \in LinesIn(more) PROVE a \in LinesIn(after)
  <2>1. PICK i \in 1..Len(more) : a = more[i]
    BY LinesInAt
  <2>2. Len(file) + i \in 1..Len(after)
    BY <1>1, <1>2
  <2> QED
    BY <1>1, <2>1, <2>2, LinesInAt
<1>5. ASSUME NEW a \in LinesIn(after) PROVE a \in LinesIn(file) \cup LinesIn(more)
  <2>1. PICK i \in 1..Len(after) : a = after[i]
    BY <1>1, LinesInAt
  <2>2. CASE i \in 1..Len(file)
    BY <1>1, <2>1, <2>2, LinesInAt
  <2>3. CASE i \notin 1..Len(file)
    <3>1. i - Len(file) \in 1..Len(more) /\ i = Len(file) + (i - Len(file))
      BY <1>1, <1>2, <2>3
    <3>2. after[i] = more[i - Len(file)]
      BY <1>1, <3>1
    <3> QED
      BY <2>1, <3>1, <3>2, LinesInAt
  <2> QED
    BY <2>2, <2>3
<1> QED
  BY <1>1, <1>3, <1>4, <1>5 DEF after

\* The records of a file that has no garbage.
LEMMA IdsOf ==
  ASSUME NEW file \in Seq(Entry)
  PROVE  InFile(file) = {a.id : a \in LinesIn(file)}
<1>1. \A i \in DOMAIN file : file[i].id # 0
  <2>1. \A i \in DOMAIN file : file[i] \in Entry
    OBVIOUS
  <2>2. \A a \in Entry : a.id # 0
    BY DEF Entry
  <2> QED
    BY <2>1, <2>2
<1> QED
  BY <1>1 DEF InFile, LinesIn

LEMMA LinesInAppend ==
  ASSUME NEW file \in Seq(Entry), NEW r \in Entry
  PROVE  /\ Append(file, r) = file \o <<r>> /\ <<r>> \in Seq(Entry)
         /\ LinesIn(<<r>>) = {r}
         /\ LinesIn(Append(file, r)) = LinesIn(file) \cup {r}
<1>1. Append(file, r) = file \o <<r>> /\ <<r>> \in Seq(Entry)
  BY AppendIsConcat
<1>2. DOMAIN <<r>> = 1..1 /\ <<r>>[1] = r
  OBVIOUS
<1>3. LinesIn(<<r>>) = {r}
  BY <1>2 DEF LinesIn
<1> QED
  BY <1>1, <1>3, LinesInConcat

LEMMA RisingConcat ==
  ASSUME NEW file \in Seq(Entry), NEW more \in Seq(Entry), Rising(file), Rising(more),
         \A a \in LinesIn(file), b \in LinesIn(more) : a.seq < b.seq
  PROVE  Rising(file \o more)
<1> DEFINE after == file \o more
<1>1. /\ after \in Seq(Entry) /\ Len(after) = Len(file) + Len(more)
      /\ \A i \in 1..Len(file) : after[i] = file[i]
      /\ \A i \in 1..Len(more) : after[Len(file) + i] = more[i]
  OBVIOUS
<1> HIDE DEF after
<1>2. Len(file) \in Nat /\ Len(more) \in Nat
  OBVIOUS
<1> SUFFICES ASSUME NEW i \in 1..Len(after), NEW j \in 1..Len(after), i < j
             PROVE  after[i].seq < after[j].seq
  BY <1>1 DEF Rising, after
<1>3. ASSUME NEW k \in 1..Len(after), k \notin 1..Len(file)
      PROVE  k - Len(file) \in 1..Len(more) /\ after[k] = more[k - Len(file)]
  <2>1. k - Len(file) \in 1..Len(more) /\ k = Len(file) + (k - Len(file))
    BY <1>1, <1>2, <1>3
  <2> QED
    BY <1>1, <2>1
<1>4. CASE i \in 1..Len(file) /\ j \in 1..Len(file)
  BY <1>1, <1>4, LinesInAt DEF Rising
<1>5. CASE i \in 1..Len(file) /\ j \notin 1..Len(file)
  BY <1>1, <1>3, <1>5, LinesInAt
<1>6. CASE i \notin 1..Len(file) /\ j \notin 1..Len(file)
  <2>1. i - Len(file) < j - Len(file)
    BY <1>1, <1>2
  <2>2. /\ i - Len(file) \in 1..Len(more) /\ after[i] = more[i - Len(file)]
        /\ j - Len(file) \in 1..Len(more) /\ after[j] = more[j - Len(file)]
    BY <1>3, <1>6
  <2>3. \A k, l \in 1..Len(more) : k < l => more[k].seq < more[l].seq
    BY LinesInAt DEF Rising
  <2> QED
    BY <2>1, <2>2, <2>3
<1>7. i \in 1..Len(file) \/ j \notin 1..Len(file)
  BY <1>1, <1>2
<1> QED
  BY <1>4, <1>5, <1>6, <1>7

\* A part of a file.
LEMMA RisingPart ==
  ASSUME NEW file \in Seq(Entry), NEW m \in Nat \ {0}, NEW n \in Nat, n <= Len(file)
  PROVE  LET part == SubSeq(file, m, n)
         IN /\ part \in Seq(Entry)
            /\ LinesIn(part) \subseteq LinesIn(file)
            /\ Rising(file) => Rising(part)
            /\ m <= n + 1 => Len(part) = n - m + 1
            /\ \A i \in 1..(n - m + 1) : part[i] = file[m + i - 1]
<1> DEFINE part == SubSeq(file, m, n)
<1>0. Len(file) \in Nat /\ \A i \in 1..Len(file) : file[i] \in Entry
  OBVIOUS
<1>1. \A i \in m..n : file[i] \in Entry
  BY <1>0
<1>2. /\ part \in Seq(Entry)
      /\ Len(part) = IF m <= n THEN n - m + 1 ELSE 0
      /\ \A i \in 1..(n - m + 1) : part[i] = file[m + i - 1]
  BY <1>1, SubSeqProperties
<1> HIDE DEF part
<1>3. ASSUME NEW i \in 1..Len(part)
      PROVE  m + i - 1 \in 1..Len(file) /\ part[i] = file[m + i - 1]
  <2>1. i \in 1..(n - m + 1) /\ m + i - 1 \in 1..Len(file)
    BY <1>0, <1>2
  <2> QED
    BY <1>2, <2>1
<1>4. ASSUME NEW a \in LinesIn(part) PROVE a \in LinesIn(file)
  <2>1. PICK i \in 1..Len(part) : a = part[i]
    BY <1>2, LinesInAt
  <2> QED
    BY <1>3, <2>1, LinesInAt
<1>5. ASSUME Rising(file) PROVE Rising(part)
  <2> SUFFICES ASSUME NEW i \in 1..Len(part), NEW j \in 1..Len(part), i < j
               PROVE  part[i].seq < part[j].seq
    BY <1>2 DEF Rising
  <2>1. m + i - 1 < m + j - 1
    OBVIOUS
  <2> QED
    BY <1>3, <1>5, <2>1, LinesInAt, ZenonT(60) DEF Rising
<1> QED
  BY <1>2, <1>4, <1>5 DEF part

LEMMA TopIsNat ==
  ASSUME ChainInv, NumberInv
  PROVE  LogTop \in Nat /\ Top \in Nat /\ Len(nbuf) \in Nat /\ nbuf \in Seq(Entry)
         /\ stamped \in Nat /\ MaxRecords \in Nat /\ DOMAIN nbuf = 1..Len(nbuf)
BY AuditConstants, SMTT(30) DEF ChainInv, BufferOK, NumberInv, LogTop, Top, Entry

\* The lines of the spool, of its buffer and of the log's buffer are below Top.
LEMMA BelowTop ==
  ASSUME ChainInv, NumberInv, OrderInv, NEW a \in LinesIn(spool) \cup LinesIn(sbuf)
  PROVE  a.seq < Top /\ a \in Entry /\ a.seq \in 0..MaxRecords /\ a.seq # NoSeq
<1>0. LogTop \in Nat /\ Top = LogTop + Len(nbuf) /\ Len(nbuf) \in Nat /\ nbuf \in Seq(Entry)
      /\ Top <= stamped /\ stamped <= MaxRecords /\ stamped \in Nat /\ MaxRecords \in Nat
  BY TopIsNat DEF NumberInv, Top
<1>1. a \in Entry /\ a.seq \in Nat
  BY LinesInAt DEF OrderInv, Entry
<1>2. CASE a.seq < LogTop
  BY <1>0, <1>1, <1>2 DEF NoSeq
<1>3. CASE a \in LinesIn(nbuf)
  <2>1. PICK i \in 1..Len(nbuf) : a = nbuf[i]
    BY <1>0, <1>3, LinesInAt
  <2>2. a.seq = LogTop + i - 1
    BY <1>0, <2>1, TopIsNat DEF NumberInv
  <2> QED
    BY <1>0, <1>1, <2>2 DEF NoSeq
<1> QED
  BY <1>2, <1>3 DEF OrderInv

\* What is not of the writer leaves the numbers alone.
LEMMA SameNumbers ==
  ASSUME NumberInv, UNCHANGED <<nativeTorn, nbuf, chain, stamped>>, Running' => Running,
         HasEnd(native)' <=> HasEnd(native),
         HasEnd(native) => EndOf(native)' = EndOf(native)
  PROVE  NumberInv' /\ LogTop' = LogTop /\ Top' = Top
<1>1. LogTop' = LogTop /\ Top' = Top
  BY DEF LogTop, Top
<1> QED
  BY <1>1 DEF NumberInv

\* A stamped record gets the next number.
LEMMA StampKeepsNumbers ==
  ASSUME ChainInv, NumberInv, Running, Stamp(chain), UNCHANGED nativeTorn,
         HasEnd(native)' <=> HasEnd(native),
         HasEnd(native) => EndOf(native)' = EndOf(native)
  PROVE  /\ NumberInv' /\ LogTop' = LogTop /\ Top' = Top + 1
         /\ \E r \in Entry : /\ r.seq = Top
                             /\ LinesIn(nbuf)' = LinesIn(nbuf) \cup {r}
                             /\ nbuf' = Append(nbuf, r) /\ sbuf' = Append(sbuf, r)
<1> DEFINE r == [id |-> stamped + 1, seq |-> chain.seq, prev |-> chain.prev]
<1>0. /\ LogTop \in Nat /\ Top = LogTop + Len(nbuf) /\ Len(nbuf) \in Nat
      /\ nbuf \in Seq(Entry) /\ Top \in Nat /\ chain.seq = Top
      /\ stamped \in Nat /\ MaxRecords \in Nat /\ DOMAIN nbuf = 1..Len(nbuf)
      /\ chain.prev \in Nat /\ Top <= stamped
  BY TopIsNat DEF Top, NumberInv, ChainInv, BufferOK
<1>1. /\ nbuf' = Append(nbuf, r) /\ sbuf' = Append(sbuf, r)
      /\ stamped < MaxRecords /\ stamped' = stamped + 1
      /\ chain' = [seq |-> chain.seq + 1, prev |-> r.id]
  BY DEF Stamp
<1>2. r \in Entry /\ r.seq = Top /\ r.id = stamped + 1
  BY <1>0 DEF Entry
<1> HIDE DEF r
<1>3. /\ nbuf' \in Seq(Entry) /\ Len(nbuf') = Len(nbuf) + 1
      /\ nbuf'[Len(nbuf) + 1] = r /\ DOMAIN nbuf' = 1..(Len(nbuf) + 1)
      /\ \A i \in 1..Len(nbuf) : nbuf'[i] = nbuf[i]
  BY <1>0, <1>1, <1>2
<1>4. LogTop' = LogTop /\ Top' = Top + 1
  BY <1>0, <1>3 DEF LogTop, Top
<1>5. LinesIn(nbuf)' = LinesIn(nbuf) \cup {r}
  BY <1>0, <1>1, <1>2, LinesInAppend
<1>6. ASSUME NEW i \in 1..(Len(nbuf) + 1)
      PROVE  \/ i \in 1..Len(nbuf) /\ nbuf'[i] = nbuf[i] /\ nbuf[i].id <= stamped
                /\ nbuf[i].seq = LogTop + i - 1 /\ nbuf[i].id \in Nat
             \/ i = Len(nbuf) + 1 /\ nbuf'[i] = r
  <2>1. CASE i \in 1..Len(nbuf)
    <3>1. nbuf[i] \in Entry
      BY <1>0, <2>1
    <3> QED
      BY <1>0, <1>3, <2>1, <3>1 DEF NumberInv, Entry
  <2>2. CASE i \notin 1..Len(nbuf)
    BY <1>0, <1>3, <2>2
  <2> QED
    BY <2>1, <2>2
<1>7. ASSUME NEW i \in 1..(Len(nbuf) + 1)
      PROVE  nbuf'[i].seq = LogTop + i - 1 /\ nbuf'[i].id <= stamped + 1
  <2>1. CASE i \in 1..Len(nbuf) /\ nbuf'[i] = nbuf[i] /\ nbuf[i].id <= stamped
             /\ nbuf[i].seq = LogTop + i - 1 /\ nbuf[i].id \in Nat
    BY <1>0, <2>1
  <2>2. CASE i = Len(nbuf) + 1 /\ nbuf'[i] = r
    <3>1. LogTop + i - 1 = Top
      BY <1>0, <2>2
    <3> QED
      BY <1>0, <1>2, <2>2, <3>1
  <2> QED
    BY <1>6, <2>1, <2>2
<1>8. \A i, j \in 1..(Len(nbuf) + 1) : nbuf'[i].id = nbuf'[j].id => i = j
  <2>1. \A i, j \in 1..Len(nbuf) : nbuf[i].id = nbuf[j].id => i = j
    BY <1>0 DEF NumberInv
  <2> QED
    BY <1>0, <1>2, <1>6, <2>1
<1>9. chain'.seq = Top' /\ Top' <= stamped' /\ stamped' <= MaxRecords
  BY <1>0, <1>1, <1>4
<1>10. NumberInv'
  BY <1>1, <1>3, <1>4, <1>7, <1>8, <1>9 DEF NumberInv
<1> QED
  BY <1>1, <1>2, <1>4, <1>5, <1>10

\* What is neither the spool nor the shipper's.
shipperVars == <<cursorVars, ship, received, dropped, skipped, spooled>>

\* A new record is above every cursor.
LEMMA StampKeepsExport ==
  ASSUME ChainInv, NumberInv, OrderInv, ShipInv, Running, Running', Stamp(chain),
         UNCHANGED <<nativeTorn, spool, spoolTorn, shipperVars>>,
         HasEnd(native)' <=> HasEnd(native),
         HasEnd(native) => EndOf(native)' = EndOf(native)
  PROVE  NumberInv' /\ OrderInv' /\ ShipInv'
<1>0. PICK r \in Entry : /\ NumberInv' /\ LogTop' = LogTop /\ Top' = Top + 1
                         /\ r.seq = Top
                         /\ LinesIn(nbuf)' = LinesIn(nbuf) \cup {r}
                         /\ sbuf' = Append(sbuf, r)
  BY StampKeepsNumbers
<1>1. spool \in Seq(Entry) /\ sbuf \in Seq(Entry) /\ Top \in Nat
  BY TopIsNat DEF OrderInv
<1>2. /\ sbuf' = sbuf \o <<r>> /\ <<r>> \in Seq(Entry) /\ LinesIn(<<r>>) = {r}
      /\ LinesIn(sbuf)' = LinesIn(sbuf) \cup {r}
  BY <1>0, <1>1, LinesInAppend
<1>3. sbuf' \in Seq(Entry)
  BY <1>1, <1>2, LinesInConcat
<1>4. \A a \in LinesIn(spool) \cup LinesIn(sbuf) : a.seq < r.seq
  BY <1>0, BelowTop
<1>5. Rising(<<r>>)
  <2>1. DOMAIN <<r>> = {1}
    OBVIOUS
  <2> QED
    BY <2>1 DEF Rising
<1>6. Rising(sbuf')
  BY <1>1, <1>2, <1>4, <1>5, RisingConcat DEF OrderInv
<1>7. OrderInv'
  <2>1. \A a \in LinesIn(spool), b \in LinesIn(sbuf) \cup {r} : a.seq < b.seq
    BY <1>4 DEF OrderInv
  <2>2. \A a \in LinesIn(spool) \cup LinesIn(sbuf) \cup {r} :
          a.seq < LogTop \/ a \in LinesIn(nbuf) \cup {r}
    BY DEF OrderInv
  <2> QED
    BY <1>0, <1>1, <1>2, <1>3, <1>6, <2>1, <2>2 DEF OrderInv
<1>8. ShipInv'
  <2>1. ASSUME NEW last, NEW ids, Passes(last, ids, LinesIn(spool), LinesIn(sbuf), Top)
        PROVE  Passes(last, ids, LinesIn(spool), LinesIn(sbuf) \cup {r}, Top + 1)
    BY <1>0, <1>1, <2>1 DEF Passes
  <2>2. UNCHANGED <<spool, cursor, disk, offset, ship, received, dropped, skipped, spooled>>
    BY DEF shipperVars, cursorVars
  <2>3. Done' = Done /\ InFlight' = InFlight /\ LinesIn(spool)' = LinesIn(spool)
    BY <2>2 DEF Done, InFlight
  <2> QED
    BY <1>0, <1>2, <2>1, <2>2, <2>3 DEF ShipInv
<1> QED
  BY <1>0, <1>7, <1>8

\* A flush of the log's buffer, or of a part of it by a crash that is not
\* ragged: what was in the spool is in the log.
LEMMA FlushKeepsNumbers ==
  ASSUME ChainInv, NumberInv, NEW k \in 0..Len(nbuf),
         native' = WithActive(Appended(Active, nativeTorn, SubSeq(nbuf, 1, k)))
  PROVE  /\ HasEnd(native') => EndOf(native') \in Entry
         /\ LogTop' = LogTop + k
<1>0. nbuf \in Seq(Entry) /\ Len(nbuf) \in Nat /\ LogTop \in Nat /\ k \in Nat /\ k <= Len(nbuf)
      /\ DOMAIN nbuf = 1..Len(nbuf)
  BY TopIsNat
<1>1. CASE k = 0
  <2>1. native' = native
    BY <1>1, FlushKeepsLog
  <2> QED
    BY <1>0, <1>1, <2>1 DEF LogTop, NumberInv
<1>2. CASE k > 0
  <2>1. HasEnd(native') /\ EndOf(native') = nbuf[k]
    BY <1>0, <1>2, FlushKeepsLog DEF NumberInv
  <2>2. nbuf[k] \in Entry /\ nbuf[k].seq = LogTop + k - 1
    BY <1>0, <1>2 DEF NumberInv
  <2> QED
    BY <1>0, <2>1, <2>2 DEF LogTop
<1> QED
  BY <1>0, <1>1, <1>2

LEMMA FlushNativeKeepsExport ==
  ASSUME ChainInv, NumberInv, OrderInv, ShipInv, FlushNative
  PROVE  NumberInv' /\ OrderInv' /\ ShipInv'
<1>0. /\ nbuf \in Seq(Entry) /\ Len(nbuf) \in Nat /\ LogTop \in Nat
      /\ Top = LogTop + Len(nbuf) /\ Top \in Nat
  BY TopIsNat DEF Top
<1>1. /\ nativeTorn' = FALSE /\ nbuf' = <<>> /\ Running /\ Running'
      /\ UNCHANGED <<chain, stamped, spool, spoolTorn, sbuf, cursor, disk, offset, ship,
                     received, dropped, skipped, spooled>>
  BY DEF FlushNative, Running, spoolVars, cursorVars, historyVars
<1>2. native' = WithActive(Appended(Active, nativeTorn, SubSeq(nbuf, 1, Len(nbuf))))
      /\ Len(nbuf) \in 0..Len(nbuf)
  <2>1. SubSeq(nbuf, 1, Len(nbuf)) = nbuf
    BY <1>0, SubSeqFull
  <2>2. native' = WithActive(Appended(Active, nativeTorn, nbuf))
    BY DEF FlushNative
  <2>3. Len(nbuf) \in 0..Len(nbuf)
    BY <1>0
  <2> QED
    BY <2>1, <2>2, <2>3, Zenon
<1>3. (HasEnd(native') => EndOf(native') \in Entry) /\ LogTop' = Top
  BY <1>0, <1>2, FlushKeepsNumbers
<1>4. Len(nbuf') = 0 /\ DOMAIN nbuf' = {} /\ LinesIn(nbuf)' = {}
  BY <1>1 DEF LinesIn
<1>5. Top' = Top
  BY <1>0, <1>3, <1>4 DEF Top
<1>6. NumberInv'
  BY <1>1, <1>3, <1>4, <1>5 DEF NumberInv
<1>7. OrderInv'
  <2>1. \A a \in LinesIn(spool) \cup LinesIn(sbuf) : a.seq < Top
    BY BelowTop
  <2> QED
    BY <1>1, <1>3, <2>1 DEF OrderInv
<1>8. ShipInv'
  BY <1>1, <1>5 DEF ShipInv, Done, InFlight
<1> QED
  BY <1>6, <1>7, <1>8

LEMMA RotateKeepsExport ==
  ASSUME ChainInv, NumberInv, OrderInv, ShipInv, NEW extra \in Nat, Rotate(extra)
  PROVE  NumberInv' /\ OrderInv' /\ ShipInv'
<1>1. /\ HasEnd(native)' <=> HasEnd(native)
      /\ HasEnd(native) => EndOf(native)' = EndOf(native)
  BY RotateKeepsChain
<1>2. /\ Running /\ Running' /\ UNCHANGED <<nativeTorn, spool, spoolTorn, shipperVars>>
      /\ Stamp(chain) \/ UNCHANGED <<nbuf, sbuf, chain, stamped>>
  BY DEF Rotate, Running, shipperVars, historyVars
<1>3. CASE Stamp(chain)
  BY <1>1, <1>2, <1>3, StampKeepsExport
<1>4. CASE UNCHANGED <<nbuf, sbuf, chain, stamped>>
  <2>1. NumberInv' /\ LogTop' = LogTop /\ Top' = Top
    BY <1>1, <1>2, <1>4, SameNumbers
  <2>2. UNCHANGED <<spool, spoolTorn, cursor, disk, offset, ship, received, dropped,
                    skipped, spooled>>
    BY <1>2 DEF shipperVars, cursorVars
  <2> QED
    BY <1>2, <1>4, <2>1, <2>2 DEF OrderInv, ShipInv, Done, InFlight
<1> QED
  BY <1>2, <1>3, <1>4

LEMMA WriteKeepsExport ==
  ASSUME ChainInv, NumberInv, OrderInv, ShipInv, Write
  PROVE  NumberInv' /\ OrderInv' /\ ShipInv'
<1>1. /\ Running /\ Running' /\ Stamp(chain) /\ native' = native
      /\ UNCHANGED <<nativeTorn, spool, spoolTorn, shipperVars>>
  BY DEF Write, Running, shipperVars, historyVars
<1> QED
  BY <1>1, StampKeepsExport

\* Lines that join the spool are above every cursor and behind every offset.
LEMMA SpoolGrows ==
  ASSUME NumberInv, OrderInv, ShipInv, NEW ids
  PROVE  /\ InFile(spool) = {a.id : a \in LinesIn(spool)}
         /\ \A last : Passes(last, ids, LinesIn(spool), LinesIn(sbuf), Top) =>
              Passes(last, ids, LinesIn(spool) \cup LinesIn(sbuf), {}, Top)
         /\ \A end : Skips(end, ids, spool) => Skips(end, ids, spool \o sbuf)
<1>0. spool \in Seq(Entry) /\ sbuf \in Seq(Entry) /\ Len(spool) \in Nat /\ Len(sbuf) \in Nat
  BY DEF OrderInv
<1>1. InFile(spool) = {a.id : a \in LinesIn(spool)}
  BY <1>0, IdsOf
<1>2. ASSUME NEW last, Passes(last, ids, LinesIn(spool), LinesIn(sbuf), Top)
      PROVE  Passes(last, ids, LinesIn(spool) \cup LinesIn(sbuf), {}, Top)
  <2>1. \A b \in LinesIn(sbuf) : b.seq \in Nat
    BY <1>0, LinesInAt DEF Entry
  <2> QED
    BY <1>2, <2>1 DEF Passes
<1>3. ASSUME NEW end, Skips(end, ids, spool) PROVE Skips(end, ids, spool \o sbuf)
  <2> DEFINE after == spool \o sbuf
  <2>1. Len(after) = Len(spool) + Len(sbuf) /\ \A i \in 1..Len(spool) : after[i] = spool[i]
    BY <1>0, LinesInConcat
  <2> HIDE DEF after
  <2>2. end \in Nat /\ end <= Len(after) /\ \A i \in 1..end : i \in 1..Len(spool)
    BY <1>0, <1>3, <2>1 DEF Skips
  <2> QED
    BY <1>3, <2>1, <2>2 DEF Skips, after
<1> QED
  BY <1>1, <1>2, <1>3

\* The buffer of the spool goes to its file.
LEMMA FlushedSpoolLines ==
  ASSUME OrderInv
  PROVE  /\ FlushedSpool = spool \o sbuf
         /\ FlushedSpool \in Seq(Entry) /\ Rising(FlushedSpool)
         /\ LinesIn(FlushedSpool) = LinesIn(spool) \cup LinesIn(sbuf)
         /\ InFile(FlushedSpool) = {a.id : a \in LinesIn(spool) \cup LinesIn(sbuf)}
         /\ Len(FlushedSpool) = Len(spool) + Len(sbuf)
         /\ \A i \in 1..Len(spool) : FlushedSpool[i] = spool[i]
<1>0. spool \in Seq(Entry) /\ sbuf \in Seq(Entry)
  BY DEF OrderInv
<1>1. FlushedSpool = spool \o sbuf
  BY DEF OrderInv, FlushedSpool, Appended
<1>2. Rising(spool \o sbuf)
  BY <1>0, RisingConcat DEF OrderInv
<1> QED
  BY <1>0, <1>1, <1>2, LinesInConcat, IdsOf

LEMMA FlushSpoolKeepsExport ==
  ASSUME ChainInv, NumberInv, OrderInv, ShipInv, FlushSpool
  PROVE  NumberInv' /\ OrderInv' /\ ShipInv'
<1>0. /\ Running /\ Running' /\ spool' = FlushedSpool /\ sbuf' = <<>>
      /\ spooled' = spooled \cup InFile(FlushedSpool) /\ spoolTorn' = (spoolTorn /\ sbuf = <<>>)
      /\ UNCHANGED <<native, nativeTorn, nbuf, chain, stamped, cursor, disk, offset, ship,
                     received, dropped, skipped>>
  BY DEF FlushSpool, Running, cursorVars
<1>1. NumberInv' /\ LogTop' = LogTop /\ Top' = Top
  BY <1>0, SameNumbers
<1>2. /\ spool' \in Seq(Entry) /\ Rising(spool')
      /\ LinesIn(spool)' = LinesIn(spool) \cup LinesIn(sbuf)
      /\ InFile(FlushedSpool) = {a.id : a \in LinesIn(spool)'}
      /\ spool' = spool \o sbuf
  BY <1>0, FlushedSpoolLines
<1>3. /\ LinesIn(sbuf)' = {} /\ sbuf' \in Seq(Entry) /\ Rising(sbuf')
  BY <1>0 DEF LinesIn, Rising
<1>4. OrderInv'
  BY <1>0, <1>1, <1>2, <1>3 DEF OrderInv
<1>5. ShipInv'
  <2>1. Done' = Done /\ InFlight' = InFlight
    BY <1>0 DEF Done, InFlight
  <2>2. \A last : Passes(last, Done, LinesIn(spool), LinesIn(sbuf), Top) =>
                    Passes(last, Done, LinesIn(spool)', LinesIn(sbuf)', Top')
    BY <1>1, <1>2, <1>3, SpoolGrows
  <2>3. \A last : Passes(last, Done \cup ship.batch, LinesIn(spool), LinesIn(sbuf), Top) =>
                    Passes(last, Done \cup ship.batch, LinesIn(spool)', LinesIn(sbuf)', Top')
    BY <1>1, <1>2, <1>3, SpoolGrows
  <2>4. \A end : /\ Skips(end, Done, spool) => Skips(end, Done, spool')
                 /\ Skips(end, Done \cup ship.batch, spool) =>
                      Skips(end, Done \cup ship.batch, spool')
    BY <1>2, SpoolGrows
  <2>5. spooled' \subseteq Done' \cup {a.id : a \in LinesIn(spool)'}
    BY <1>0, <1>2, <2>1 DEF ShipInv
  <2> QED
    BY <1>0, <2>1, <2>2, <2>3, <2>4, <2>5 DEF ShipInv
<1> QED
  BY <1>1, <1>4, <1>5

\* A step of the shipper that leaves the files alone.
LEMMA SameFiles ==
  ASSUME ChainInv, NumberInv, OrderInv, UNCHANGED <<writerVars, spoolVars, stamped>>
  PROVE  /\ NumberInv' /\ OrderInv' /\ Top' = Top /\ Running' = Running
         /\ spool' = spool /\ LinesIn(spool)' = LinesIn(spool) /\ LinesIn(sbuf)' = LinesIn(sbuf)
<1>0. UNCHANGED <<native, nativeTorn, nbuf, chain, stamped, wpc, spool, spoolTorn, sbuf>>
  BY DEF writerVars, spoolVars
<1>1. Running' = Running
  BY <1>0 DEF Running
<1>2. NumberInv' /\ LogTop' = LogTop /\ Top' = Top
  BY <1>0, <1>1, SameNumbers
<1> QED
  BY <1>0, <1>1, <1>2 DEF OrderInv

LEMMA Wider ==
  ASSUME NEW ids, NEW more, ids \subseteq more
  PROVE  /\ \A last, lines, rest, top :
              Passes(last, ids, lines, rest, top) => Passes(last, more, lines, rest, top)
         /\ \A end, file : Skips(end, ids, file) => Skips(end, more, file)
BY DEF Passes, Skips

\* The answers of the collector.
LEMMA ExportKeeps ==
  ASSUME ChainInv, NumberInv, OrderInv, ShipInv, ExportOk \/ ExportFails \/ ExportUnanswered
  PROVE  NumberInv' /\ OrderInv' /\ ShipInv'
<1>0. /\ UNCHANGED <<writerVars, spoolVars, stamped>>
      /\ UNCHANGED <<cursor, disk, offset, dropped, skipped, spooled>>
      /\ ship.pc = "export" /\ received \subseteq received'
      /\ \/ ship' = IdleShip
         \/ ship' = [ship EXCEPT !.pc = "truncate"] /\ received' = received \cup ship.batch
  BY DEF ExportOk, ExportFails, ExportUnanswered, cursorVars, historyVars
<1>1. /\ NumberInv' /\ OrderInv' /\ Top' = Top /\ Running' = Running
      /\ spool' = spool /\ LinesIn(spool)' = LinesIn(spool) /\ LinesIn(sbuf)' = LinesIn(sbuf)
  BY <1>0, SameFiles
<1>2. Done \subseteq Done' /\ InFlight
  BY <1>0 DEF Done, InFlight
<1>3. /\ cursor' # NoSeq => Passes(cursor', Done', LinesIn(spool)', LinesIn(sbuf)', Top')
      /\ disk' # NoSeq => Passes(disk', Done', LinesIn(spool)', LinesIn(sbuf)', Top')
      /\ Skips(offset', Done', spool')
      /\ spooled' \subseteq Done' \cup {a.id : a \in LinesIn(spool)'}
      /\ ~Running' => cursor' = NoSeq /\ offset' = 0
  BY <1>0, <1>1, <1>2, Wider DEF ShipInv
<1>r. Running
  BY <1>2 DEF ShipInv
<1>4. CASE ship' = IdleShip
  <2>1. ship'.pc = "idle" /\ "pc" \in DOMAIN ship'
    BY <1>4 DEF IdleShip
  <2>2. ~InFlight'
    BY <2>1 DEF InFlight
  <2> QED
    BY <1>1, <1>3, <2>1, <2>2 DEF ShipInv
<1>5. CASE ship' = [ship EXCEPT !.pc = "truncate"] /\ received' = received \cup ship.batch
  <2>0. \A r : r = [ship EXCEPT !.pc = "truncate"] =>
          /\ r.last = ship.last /\ r.end = ship.end /\ r.batch = ship.batch
          /\ DOMAIN r = DOMAIN ship
    OBVIOUS
  <2>1. /\ ship'.last = ship.last /\ ship'.end = ship.end /\ ship'.batch = ship.batch
        /\ DOMAIN ship' = DOMAIN ship
    BY <1>5, <2>0
  <2>2. Done \cup ship.batch \subseteq Done' \cup ship'.batch /\ ship'.batch \subseteq received'
    BY <1>2, <1>5, <2>1
  <2>3. /\ Passes(ship'.last, Done' \cup ship'.batch, LinesIn(spool)', LinesIn(sbuf)', Top')
        /\ Skips(ship'.end, Done' \cup ship'.batch, spool')
    BY <1>1, <1>2, <2>1, <2>2, Wider DEF ShipInv
  <2> QED
    BY <1>1, <1>3, <1>r, <2>1, <2>2, <2>3 DEF ShipInv
<1> QED
  BY <1>0, <1>1, <1>4, <1>5

\* The cursor file is truncated, or written, or cannot be written.
LEMMA CursorKeeps ==
  ASSUME ChainInv, NumberInv, OrderInv, ShipInv, Truncate \/ Advance \/ AdvanceFails
  PROVE  NumberInv' /\ OrderInv' /\ ShipInv'
<1>0. /\ UNCHANGED <<writerVars, spoolVars, stamped>>
      /\ UNCHANGED <<received, dropped, skipped, spooled>>
      /\ ship.pc \in {"truncate", "write"}
  BY DEF Truncate, Advance, AdvanceFails, historyVars
<1>1. /\ NumberInv' /\ OrderInv' /\ Top' = Top /\ Running' = Running
      /\ spool' = spool /\ LinesIn(spool)' = LinesIn(spool) /\ LinesIn(sbuf)' = LinesIn(sbuf)
  BY <1>0, SameFiles
<1>2. Done' = Done /\ InFlight /\ Running /\ Done \cup ship.batch = Done
  BY <1>0 DEF Done, InFlight, ShipInv
<1>3. /\ Passes(ship.last, Done, LinesIn(spool), LinesIn(sbuf), Top)
      /\ Skips(ship.end, Done, spool)
  BY <1>2 DEF ShipInv
<1>4. CASE Truncate
  <2>0. \A r : r = [ship EXCEPT !.pc = "write"] =>
          /\ r.last = ship.last /\ r.end = ship.end /\ r.batch = ship.batch
          /\ DOMAIN r = DOMAIN ship
    OBVIOUS
  <2>1. /\ disk' = NoSeq /\ cursor' = cursor /\ offset' = offset
        /\ ship'.last = ship.last /\ ship'.end = ship.end /\ ship'.batch = ship.batch
        /\ DOMAIN ship' = DOMAIN ship
    BY <1>4, <2>0 DEF Truncate
  <2> QED
    BY <1>0, <1>1, <1>2, <1>3, <2>1 DEF ShipInv
<1>5. CASE Advance \/ AdvanceFails
  <2>1. ship'.pc = "idle" /\ "pc" \in DOMAIN ship'
    BY <1>5 DEF Advance, AdvanceFails, IdleShip
  <2>2. ~InFlight'
    BY <2>1 DEF InFlight
  <2>3. /\ offset' = ship.end
        /\ cursor' = cursor \/ cursor' = ship.last
        /\ disk' = disk \/ disk' = ship.last
    BY <1>5 DEF Advance, AdvanceFails
  <2> QED
    BY <1>0, <1>1, <1>2, <1>3, <2>1, <2>2, <2>3 DEF ShipInv
<1> QED
  BY <1>4, <1>5

\* A line of the spool that is not fresh is done.
LEMMA FreshOrDone ==
  ASSUME OrderInv, ShipInv, NEW i \in 1..Len(spool), i \notin Fresh
  PROVE  spool[i].id \in Done
<1>0. spool \in Seq(Entry) /\ Len(spool) \in Nat /\ DOMAIN spool = 1..Len(spool)
      /\ offset \in Nat /\ \A k \in 1..offset : spool[k].id \in Done
  BY DEF OrderInv, ShipInv, Skips
<1>1. CASE i <= offset
  BY <1>0, <1>1
<1>2. CASE i > offset
  <2>1. i \in (offset + 1)..Len(spool)
    BY <1>0, <1>2
  <2>2. spool[i] # Garbage /\ spool[i] \in LinesIn(spool)
    BY <1>0, LinesInAt, Entries
  <2>3. cursor # NoSeq /\ spool[i].seq <= cursor
    BY <2>1, <2>2 DEF Fresh, Unshipped, CoveredBy
  <2> QED
    BY <2>2, <2>3 DEF ShipInv, Passes
<1> QED
  BY <1>0, <1>1, <1>2

\* A batch takes every line up to its end that is not done, and the highest
\* number in it is below every line behind its end.
LEMMA ReadKeeps ==
  ASSUME ChainInv, NumberInv, OrderInv, ShipInv, Read
  PROVE  NumberInv' /\ OrderInv' /\ ShipInv'
<1>0. /\ UNCHANGED <<writerVars, spoolVars, stamped>> /\ Running
      /\ UNCHANGED <<cursor, disk, offset, received, dropped, skipped, spooled>>
  BY DEF Read, historyVars, cursorVars
<1>1. /\ NumberInv' /\ OrderInv' /\ Top' = Top /\ Running' = Running
      /\ spool' = spool /\ LinesIn(spool)' = LinesIn(spool) /\ LinesIn(sbuf)' = LinesIn(sbuf)
  BY <1>0, SameFiles
<1>2. spool \in Seq(Entry) /\ Len(spool) \in Nat /\ DOMAIN spool = 1..Len(spool)
      /\ offset \in Nat /\ \A i \in 1..offset : spool[i].id \in Done
  BY DEF OrderInv, ShipInv, Skips
<1> DEFINE Taken(end) == {i \in Fresh : i <= end}
<1>3. PICK end \in 1..Len(spool), last \in Seqs :
        /\ end \in Taken(end) \/ end = Len(spool)
        /\ Highest(last, {spool[i].seq : i \in Taken(end)})
        /\ ship' = [pc |-> "export", batch |-> {spool[i].id : i \in Taken(end)},
                    end |-> end, last |-> last]
  BY DEF Read
<1> DEFINE lines == Taken(end)
           ids == Done \cup {spool[i].id : i \in lines}
<1>4. PICK top \in lines : last = spool[top].seq
  BY <1>3 DEF Highest
<1>5. top \in 1..Len(spool) /\ top <= end /\ last \in Nat
  <2>1. top \in (offset + 1)..Len(spool) /\ top <= end
    BY DEF Fresh
  <2> QED
    BY <1>2, <2>1, AuditConstants DEF Seqs
<1>6. ASSUME NEW i \in 1..Len(spool), i <= end PROVE spool[i].id \in ids
  <2>1. CASE i \in Fresh
    BY <1>6, <2>1
  <2>2. CASE i \notin Fresh
    BY <2>2, FreshOrDone
  <2> QED
    BY <2>1, <2>2
<1>7. Skips(end, ids, spool)
  <2>1. end \in Nat /\ end <= Len(spool) /\ \A i \in 1..end : i \in 1..Len(spool) /\ i <= end
    BY <1>2
  <2> QED
    BY <1>6, <2>1 DEF Skips
<1>8. Passes(last, ids, LinesIn(spool), LinesIn(sbuf), Top)
  <2>1. spool[top] \in LinesIn(spool) /\ spool[top].seq = last
    BY <1>2, <1>4, <1>5, LinesInAt
  <2>2. last < Top /\ \A b \in LinesIn(sbuf) : last < b.seq
    BY <2>1, BelowTop DEF OrderInv
  <2>3. ASSUME NEW a \in LinesIn(spool), a.seq <= last PROVE a.id \in ids
    <3>1. PICK i \in 1..Len(spool) : a = spool[i]
      BY <1>2, LinesInAt
    <3>2. CASE i <= end
      BY <1>6, <3>1, <3>2
    <3>3. CASE i > end
      <4>1. top < i
        BY <1>2, <1>5, <3>3
      <4>2. last < a.seq
        BY <1>2, <1>5, <2>1, <3>1, <4>1 DEF OrderInv, Rising
      <4>3. a.seq \in Nat
        BY <1>2, LinesInAt DEF Entry
      <4> QED
        BY <1>5, <2>3, <4>2, <4>3
    <3> QED
      BY <1>2, <3>2, <3>3
  <2> QED
    BY <1>5, <2>2, <2>3 DEF Passes
<1>9. /\ ship'.pc = "export" /\ ship'.end = end /\ ship'.last = last /\ "pc" \in DOMAIN ship'
      /\ Done' = Done /\ ids = Done \cup ship'.batch
  BY <1>0, <1>3 DEF Done
<1> QED
  BY <1>0, <1>1, <1>7, <1>8, <1>9 DEF ShipInv

LEMMA ReadNothingKeeps ==
  ASSUME ChainInv, NumberInv, OrderInv, ShipInv, ReadNothing
  PROVE  NumberInv' /\ OrderInv' /\ ShipInv'
<1>0. /\ UNCHANGED <<native, nativeTorn, nbuf, chain, wpc, spoolTorn, sbuf, cursor, disk, received,
                     stamped, dropped, skipped, spooled>>
      /\ Running /\ ship' = IdleShip /\ Fresh = {}
      /\ (spool' = <<>> /\ offset' = 0) \/ UNCHANGED <<spool, offset>>
  BY DEF ReadNothing, writerVars, historyVars
<1>1. ship'.pc = "idle" /\ "pc" \in DOMAIN ship' /\ ~InFlight' /\ Running' /\ Done' = Done
  BY <1>0 DEF IdleShip, InFlight, Running, Done
<1>2. NumberInv' /\ LogTop' = LogTop /\ Top' = Top
  BY <1>0, <1>1, SameNumbers
<1>3. CASE UNCHANGED <<spool, offset>>
  BY <1>0, <1>1, <1>2, <1>3 DEF OrderInv, ShipInv
<1>4. CASE spool' = <<>> /\ offset' = 0
  <2>1. LinesIn(spool)' = {} /\ spool' \in Seq(Entry) /\ Rising(spool') /\ Len(spool') = 0
    BY <1>4 DEF LinesIn, Rising
  <2>2. \A a \in LinesIn(spool) : a.id \in Done
    BY <1>0, LinesInAt, FreshOrDone DEF OrderInv
  <2>3. spooled' \subseteq Done'
    BY <1>0, <1>1, <2>2 DEF ShipInv
  <2>4. OrderInv'
    BY <1>0, <1>1, <1>2, <2>1 DEF OrderInv
  <2>5. Skips(offset', Done', spool')
    BY <1>4, <2>1 DEF Skips
  <2>6. \A last : Passes(last, Done, LinesIn(spool), LinesIn(sbuf), Top) =>
                    Passes(last, Done, {}, LinesIn(sbuf), Top)
    BY DEF Passes
  <2> QED
    BY <1>0, <1>1, <1>2, <2>1, <2>3, <2>4, <2>5, <2>6 DEF ShipInv
<1> QED
  BY <1>0, <1>3, <1>4

\* What the cap cuts off the head of the spool is done or counted.
LEMMA TrimKeeps ==
  ASSUME ChainInv, NumberInv, OrderInv, ShipInv, Trim
  PROVE  NumberInv' /\ OrderInv' /\ ShipInv' /\ LinesIn(spool)' \subseteq LinesIn(FlushedSpool)
<1> DEFINE len == Len(spool)
           cut == IF len - offset > SpoolCap THEN len - SpoolCap \div 2 ELSE offset
           file == FlushedSpool
<1>0. /\ UNCHANGED <<native, nativeTorn, nbuf, chain, wpc, cursor, disk, received, stamped, skipped>>
      /\ Running /\ len > SpoolCap
      /\ spool' = SubSeq(file, cut + 1, Len(file))
      /\ offset' = IF offset > cut THEN offset - cut ELSE 0
      /\ dropped' = dropped \cup {spool[i].id : i \in {j \in Fresh : j <= cut}}
      /\ spooled' = spooled \cup InFile(file) /\ spoolTorn' = (spoolTorn /\ sbuf = <<>>)
      /\ sbuf' = <<>> /\ ship' = [ship EXCEPT !.pc = "read"]
  BY DEF Trim, writerVars
<1>1. Running' /\ ship'.pc = "read" /\ "pc" \in DOMAIN ship' /\ ~InFlight'
  BY <1>0 DEF Running, ShipInv, InFlight
<1>2. NumberInv' /\ LogTop' = LogTop /\ Top' = Top
  BY <1>0, <1>1, SameNumbers
<1>3. len \in Nat /\ offset \in Nat /\ offset <= len /\ \A i \in 1..offset : spool[i].id \in Done
  BY DEF OrderInv, ShipInv, Skips
<1>4. /\ file \in Seq(Entry) /\ Rising(file) /\ Len(file) \in Nat
      /\ LinesIn(file) = LinesIn(spool) \cup LinesIn(sbuf)
      /\ InFile(file) = {a.id : a \in LinesIn(file)}
      /\ Len(file) >= len /\ \A i \in 1..len : file[i] = spool[i]
  <2>1. Len(sbuf) \in Nat
    BY DEF OrderInv
  <2> QED
    BY <1>3, <2>1, FlushedSpoolLines
<1>5. cut \in Nat /\ cut <= len
  <2>1. SpoolCap \in Nat /\ SpoolCap \div 2 \in Nat /\ SpoolCap \div 2 <= SpoolCap
    BY AuditConstants
  <2> HIDE DEF len
  <2> QED
    BY <1>0, <1>3, <2>1
<1> HIDE DEF len, cut, file
<1>6. /\ spool' \in Seq(Entry) /\ Rising(spool') /\ LinesIn(spool)' \subseteq LinesIn(file)
      /\ Len(spool') = Len(file) - cut
      /\ \A i \in 1..(Len(file) - cut) : spool'[i] = file[cut + i]
  <2>1. cut + 1 \in Nat \ {0} /\ Len(file) <= Len(file) /\ cut + 1 <= Len(file) + 1
    BY <1>3, <1>4, <1>5
  <2>2. /\ spool' \in Seq(Entry) /\ Rising(spool') /\ LinesIn(spool)' \subseteq LinesIn(file)
        /\ Len(spool') = Len(file) - (cut + 1) + 1
        /\ \A i \in 1..(Len(file) - (cut + 1) + 1) : spool'[i] = file[(cut + 1) + i - 1]
    BY <1>0, <1>4, <2>1, RisingPart
  <2>3. Len(file) - (cut + 1) + 1 = Len(file) - cut
        /\ \A i \in 1..(Len(file) - cut) : (cut + 1) + i - 1 = cut + i
    BY <1>4, <1>5
  <2> QED
    BY <2>2, <2>3
<1>7. LinesIn(sbuf)' = {} /\ sbuf' \in Seq(Entry) /\ Rising(sbuf')
  BY <1>0 DEF LinesIn, Rising
<1>8. OrderInv'
  <2>1. \A a \in LinesIn(spool)' : a \in LinesIn(spool) \cup LinesIn(sbuf)
    BY <1>4, <1>6
  <2> QED
    BY <1>0, <1>1, <1>2, <1>6, <1>7, <2>1 DEF OrderInv
<1>9. Done \subseteq Done'
  BY <1>0 DEF Done
<1>10. ASSUME NEW i \in 1..len, i <= cut PROVE spool[i].id \in Done'
  <2>1. CASE i \in Fresh
    BY <1>0, <1>10, <2>1 DEF Done
  <2>2. CASE i \notin Fresh
    BY <1>9, <2>2, FreshOrDone DEF len
  <2> QED
    BY <2>1, <2>2
<1>11. spooled' \subseteq Done' \cup {a.id : a \in LinesIn(spool)'}
  <2>1. ASSUME NEW a \in LinesIn(file) PROVE a.id \in Done' \cup {b.id : b \in LinesIn(spool)'}
    <3>1. PICK k \in 1..Len(file) : a = file[k]
      BY <1>4, LinesInAt
    <3>2. CASE k <= cut
      <4>1. k \in 1..len
        BY <1>3, <1>5, <3>2
      <4> QED
        BY <1>4, <1>10, <3>1, <3>2, <4>1
    <3>3. CASE k > cut
      <4>1. k - cut \in 1..(Len(file) - cut) /\ cut + (k - cut) = k
        BY <1>4, <1>5, <3>3
      <4>2. spool'[k - cut] = a
        BY <1>6, <3>1, <4>1
      <4>3. a \in LinesIn(spool)'
        BY <1>6, <4>1, <4>2, LinesInAt
      <4> QED
        BY <4>3
    <3> QED
      BY <1>5, <3>2, <3>3
  <2> QED
    BY <1>0, <1>4, <1>9, <2>1 DEF ShipInv
<1>12. Skips(offset', Done', spool')
  <2>1. offset' \in Nat /\ offset' <= Len(spool')
    BY <1>0, <1>3, <1>4, <1>5, <1>6
  <2>2. ASSUME NEW i \in 1..offset' PROVE spool'[i].id \in Done'
    <3>1. /\ i \in 1..(Len(file) - cut) /\ cut + i \in 1..offset /\ cut + i \in 1..len
      BY <1>0, <1>3, <1>4, <1>5
    <3>2. spool'[i] = spool[cut + i]
      BY <1>4, <1>6, <3>1
    <3> QED
      BY <1>3, <1>9, <3>1, <3>2
  <2> QED
    BY <2>1, <2>2 DEF Skips
<1>13. ASSUME NEW last, Passes(last, Done, LinesIn(spool), LinesIn(sbuf), Top)
       PROVE  Passes(last, Done', LinesIn(spool)', LinesIn(sbuf)', Top')
  <2>1. \A b \in LinesIn(sbuf) : b.seq \in Nat
    BY LinesInAt DEF OrderInv, Entry
  <2> QED
    BY <1>2, <1>4, <1>6, <1>7, <1>9, <1>13, <2>1 DEF Passes
<1>14. ShipInv'
  BY <1>0, <1>1, <1>11, <1>12, <1>13 DEF ShipInv
<1> QED
  BY <1>2, <1>6, <1>8, <1>14 DEF file

LEMMA StillKnown ==
  ASSUME NEW last, NEW low \in Nat, NEW low2 \in Nat, NEW lines, NEW lines2, NEW ids, NEW ids2,
         low <= low2, ids \subseteq ids2,
         \A a \in lines : a \in lines2 \/ a.seq < low2,
         Known(last, low, lines, ids)
  PROVE  Known(last, low2, lines2, ids2)
BY DEF Known

\* A restart that did not find the end of the log is a break.
LEMMA BrokenRestart ==
  ASSUME ChainInv, RestartBroken
  PROVE  ragged'
<1>1. stamped \in Nat /\ stamped < MaxRecords /\ MaxRecords \in Nat
  BY AuditConstants DEF ChainInv, RestartBroken, Stamp
<1>2. whole' = whole \/ whole' = stamped
  BY DEF RestartBroken, Breaks
<1>3. whole' = whole => ragged \/ whole = stamped
  BY DEF RestartBroken, Breaks
<1> QED
  BY <1>1, <1>2, <1>3 DEF ragged, NoSeq

\* The log and its buffer only grow, unless the process stops.
LEMMA NumbersGrow ==
  ASSUME ChainInv, NumberInv, OrderInv, Next, Running', ~ragged'
  PROVE  /\ LogTop' \in Nat /\ LogTop <= LogTop'
         /\ \A a \in LinesIn(nbuf) : a \in LinesIn(nbuf)' \/ a.seq < LogTop'
<1>0. LogTop \in Nat /\ Top \in Nat /\ Top = LogTop + Len(nbuf) /\ Len(nbuf) \in Nat
      /\ nbuf \in Seq(Entry) /\ DOMAIN nbuf = 1..Len(nbuf)
  BY TopIsNat DEF Top
<1>1. CASE LogTop' = LogTop /\ LinesIn(nbuf) \subseteq LinesIn(nbuf)'
  BY <1>0, <1>1
<1>2. CASE FlushNative
  <2>1. SubSeq(nbuf, 1, Len(nbuf)) = nbuf
    BY <1>0, SubSeqFull
  <2>2. native' = WithActive(Appended(Active, nativeTorn, nbuf))
    BY <1>2 DEF FlushNative
  <2>3. native' = WithActive(Appended(Active, nativeTorn, SubSeq(nbuf, 1, Len(nbuf))))
    BY <2>1, <2>2, Zenon
  <2>4. LogTop' = Top
    BY <1>0, <2>3, FlushKeepsNumbers
  <2>5. ASSUME NEW a \in LinesIn(nbuf) PROVE a.seq < Top
    <3>1. PICK i \in 1..Len(nbuf) : a = nbuf[i]
      BY <1>0, LinesInAt
    <3> QED
      BY <1>0, <3>1 DEF NumberInv
  <2> QED
    BY <1>0, <2>4, <2>5
<1>3. CASE Write
  <2>1. Running /\ Stamp(chain) /\ native' = native /\ nativeTorn' = nativeTorn
    BY <1>3 DEF Write, Running
  <2> QED
    BY <1>1, <2>1, StampKeepsNumbers
<1>4. ASSUME NEW extra \in Nat, Rotate(extra)
      PROVE  LogTop' = LogTop /\ LinesIn(nbuf) \subseteq LinesIn(nbuf)'
  <2>1. /\ HasEnd(native)' <=> HasEnd(native)
        /\ HasEnd(native) => EndOf(native)' = EndOf(native)
    BY <1>4, RotateKeepsChain
  <2>2. Running /\ nativeTorn' = nativeTorn /\ (Stamp(chain) \/ UNCHANGED nbuf)
    BY <1>4 DEF Rotate, Running
  <2>3. CASE Stamp(chain)
    BY <2>1, <2>2, <2>3, StampKeepsNumbers
  <2>4. CASE UNCHANGED nbuf
    BY <2>1, <2>4 DEF LogTop
  <2> QED
    BY <2>2, <2>3, <2>4
<1>5. CASE UNCHANGED <<native, nbuf>>
  BY <1>1, <1>5 DEF LogTop
<1>6. FlushSpool \/ Shipper \/ Restart => UNCHANGED <<native, nbuf>>
  BY DEF FlushSpool, Restart, Shipper, Trim, Read, ReadNothing, ExportOk, ExportFails,
     ExportUnanswered, Truncate, Advance, AdvanceFails, writerVars
<1>7. ~RestartBroken
  BY BrokenRestart
<1>8. \A nKept, sKept \in Numbers, nHalf, sHalf \in BOOLEAN : ~Crash(nKept, nHalf, sKept, sHalf)
  BY DEF Crash, Running
<1>9. \A extra \in 0..MaxRecords : extra \in Nat
  BY AuditConstants
<1> QED
  BY <1>1, <1>2, <1>3, <1>4, <1>5, <1>6, <1>7, <1>8, <1>9 DEF Next, Writer

\* A restart: the chain goes on from the log and the shipper from its file.
LEMMA RestartKeeps ==
  ASSUME ChainInv, NumberInv, OrderInv, ShipInv, Restart
  PROVE  /\ NumberInv' /\ OrderInv' /\ ShipInv'
         /\ disk' = disk \/ disk' = NoSeq \/ \E a \in LinesIn(spool) : disk' = a.seq
<1>0. /\ UNCHANGED <<native, nativeTorn, nbuf, spool, spoolTorn, sbuf, ship, received, stamped,
                     spooled, dropped>>
      /\ ~Running /\ Running' /\ ResumeShipper
      /\ chain' = IF Tip.id = Genesis THEN [seq |-> 0, prev |-> Genesis]
                  ELSE [seq |-> Tip.seq + 1, prev |-> Tip.id]
  BY DEF Restart, Running, spoolVars
<1>1. nbuf = <<>> /\ Len(nbuf) = 0 /\ sbuf = <<>> /\ LinesIn(sbuf) = {}
  BY <1>0 DEF ChainInv, OrderInv, LinesIn
<1>2. LogTop' = LogTop /\ Top' = Top /\ LogTop \in Nat /\ Top = LogTop
  BY <1>0, <1>1, TopIsNat DEF LogTop, Top
<1>3. chain'.seq = Top
  <2>1. CASE HasEnd(native)
    <3>1. Tip = EndOf(native) /\ Tip \in Entry
      BY <2>1, TipIsEnd DEF NumberInv, ChainInv
    <3>2. Tip.id # Genesis
      BY <3>1 DEF Entry, Genesis
    <3> QED
      BY <1>0, <1>2, <2>1, <3>1, <3>2 DEF LogTop
  <2>2. CASE ~HasEnd(native)
    <3>1. Tip.id = Genesis
      BY <2>2, TipIsEnd DEF ChainInv
    <3> QED
      BY <1>0, <1>2, <2>2, <3>1 DEF LogTop
  <2> QED
    BY <2>1, <2>2
<1>4. NumberInv'
  BY <1>0, <1>2, <1>3 DEF NumberInv
<1>5. OrderInv'
  BY <1>0, <1>2 DEF OrderInv
<1>6. ~InFlight' /\ spool \in Seq(Entry) /\ Len(spool) \in Nat
      /\ LinesIn(spool)' = LinesIn(spool) /\ LinesIn(sbuf)' = {}
  BY <1>0, <1>1 DEF ShipInv, InFlight, OrderInv
<1>7. CASE ~(startAt = "now" /\ disk = NoSeq)
  <2>1. offset' = 0 /\ cursor' = disk /\ UNCHANGED <<disk, skipped>>
    BY <1>0, <1>7 DEF ResumeShipper
  <2>2. Done' = Done
    BY <1>0, <2>1 DEF Done
  <2>3. Skips(0, Done, spool)
    BY <1>6 DEF Skips
  <2> QED
    BY <1>0, <1>1, <1>2, <1>4, <1>5, <1>6, <2>1, <2>2, <2>3 DEF ShipInv, InFlight
<1>8. CASE startAt = "now" /\ disk = NoSeq
  <2> DEFINE lines == {j \in DOMAIN spool : spool[j] # Garbage}
             seqs == {spool[i].seq : i \in lines}
  <2>1. /\ offset' = Len(spool) /\ disk' = cursor' /\ skipped' = skipped \cup InFile(spool)
        /\ IF seqs = {} THEN cursor' = NoSeq ELSE cursor' \in Seqs /\ Highest(cursor', seqs)
    BY <1>0, <1>8 DEF ResumeShipper
  <2>2. Done \subseteq Done' /\ \A a \in LinesIn(spool) : a.id \in Done'
    BY <1>0, <1>6, <2>1, IdsOf DEF Done
  <2>3. cursor' = NoSeq \/ \E a \in LinesIn(spool) : cursor' = a.seq
    BY <2>1 DEF Highest, LinesIn
  <2>4. ASSUME NEW a \in LinesIn(spool)
        PROVE  Passes(a.seq, Done', LinesIn(spool), {}, Top)
    <3>1. a.seq < Top /\ a.seq \in Nat
      BY BelowTop DEF Entry
    <3> QED
      BY <2>2, <3>1 DEF Passes
  <2>5. Skips(Len(spool), Done', spool)
    BY <1>6, <2>2, LinesInAt DEF Skips
  <2>6. spooled \subseteq Done' \cup {a.id : a \in LinesIn(spool)}
    BY <2>2 DEF ShipInv
  <2>7. "pc" \in DOMAIN ship' /\ ship'.pc \notin {"truncate", "write"}
    BY <1>0, <1>6 DEF ShipInv, InFlight
  <2> HIDE DEF seqs
  <2> QED
    BY <1>0, <1>1, <1>2, <1>4, <1>5, <1>6, <2>1, <2>3, <2>4, <2>5, <2>6, <2>7 DEF ShipInv
<1> QED
  BY <1>7, <1>8

\* The steps of a process that runs, or starts.
LEMMA StepKeepsKnown ==
  ASSUME ChainInv, NumberInv, OrderInv, ShipInv, KnownInv, Next, Running', ~ragged'
  PROVE  KnownInv'
<1>0. LogTop \in Nat /\ spool \in Seq(Entry) /\ sbuf \in Seq(Entry)
  BY TopIsNat DEF OrderInv
<1>1. ASSUME NEW last, spooled \subseteq spooled', Known(last, LogTop, LinesIn(nbuf), spooled)
      PROVE  Known(last, LogTop', LinesIn(nbuf)', spooled')
  BY <1>0, <1>1, NumbersGrow, StillKnown
<1>2. ASSUME NEW a \in LinesIn(spool) PROVE Known(a.seq, LogTop, LinesIn(nbuf), spooled)
  <2>1. a.seq \in Nat
    BY <1>0, LinesInAt DEF Entry
  <2> QED
    BY <2>1 DEF Known, KnownInv, OrderInv
<1>3. ASSUME UNCHANGED <<spool, spooled>>,
             disk' = disk \/ disk' = NoSeq \/ (InFlight /\ disk' = ship.last)
               \/ \E a \in LinesIn(spool) : disk' = a.seq,
             InFlight' => (InFlight /\ ship'.last = ship.last)
               \/ \E a \in LinesIn(spool) : ship'.last = a.seq
      PROVE  KnownInv'
  <2>1. spooled \subseteq spooled'
    BY <1>3
  <2>2. disk' # NoSeq => Known(disk', LogTop', LinesIn(nbuf)', spooled')
    BY <1>1, <1>2, <1>3, <2>1 DEF KnownInv
  <2>3. InFlight' => Known(ship'.last, LogTop', LinesIn(nbuf)', spooled')
    BY <1>1, <1>2, <1>3, <2>1 DEF KnownInv
  <2> QED
    BY <1>3, <2>2, <2>3 DEF KnownInv
<1>4. ASSUME spooled \subseteq spooled', \A a \in LinesIn(spool)' : a.id \in spooled',
             disk' = disk, InFlight' => InFlight /\ ship' = ship
      PROVE  KnownInv'
  BY <1>1, <1>4 DEF KnownInv
<1>5. CASE Write \/ FlushNative \/ \E extra \in 0..MaxRecords : Rotate(extra)
  <2>1. UNCHANGED <<spool, spooled, disk, ship>>
    BY <1>5 DEF Write, FlushNative, Rotate, historyVars, cursorVars, spoolVars
  <2>2. InFlight' = InFlight
    BY <2>1 DEF InFlight
  <2> QED
    BY <1>3, <2>1, <2>2
<1>6. CASE FlushSpool
  <2>1. spool' = FlushedSpool /\ spooled' = spooled \cup InFile(FlushedSpool)
        /\ UNCHANGED <<disk, ship>>
    BY <1>6 DEF FlushSpool, cursorVars
  <2>2. \A a \in LinesIn(spool)' : a.id \in spooled'
    BY <2>1, FlushedSpoolLines
  <2>3. InFlight' = InFlight
    BY <2>1 DEF InFlight
  <2> QED
    BY <1>4, <2>1, <2>2, <2>3
<1>7. CASE Trim
  <2>1. /\ spooled' = spooled \cup InFile(FlushedSpool) /\ disk' = disk
        /\ ship' = [ship EXCEPT !.pc = "read"]
    BY <1>7 DEF Trim
  <2>2. ship'.pc = "read" /\ ~InFlight'
    BY <2>1 DEF ShipInv, InFlight
  <2>3. LinesIn(spool)' \subseteq LinesIn(FlushedSpool)
    BY <1>7, TrimKeeps
  <2>4. \A a \in LinesIn(spool)' : a.id \in spooled'
    BY <2>1, <2>3, FlushedSpoolLines
  <2> QED
    BY <1>4, <2>1, <2>2, <2>4
<1>8. CASE ReadNothing
  <2>1. /\ UNCHANGED <<spooled, disk>> /\ (spool' = <<>> \/ spool' = spool)
        /\ ship'.pc = "idle"
    BY <1>8 DEF ReadNothing, historyVars, IdleShip
  <2>2. ~InFlight' /\ LinesIn(spool)' \subseteq LinesIn(spool)
    BY <2>1 DEF InFlight, LinesIn
  <2> QED
    BY <1>4, <2>1, <2>2 DEF KnownInv
<1>9. CASE Read
  <2>1. UNCHANGED <<spool, spooled, disk>>
    BY <1>9 DEF Read, historyVars, cursorVars, spoolVars
  <2>2. \E i \in Fresh : ship'.last = spool[i].seq
    BY <1>9 DEF Read, Highest
  <2>3. \E a \in LinesIn(spool) : ship'.last = a.seq
    <3>1. \A i \in Fresh : i \in DOMAIN spool
      BY <1>0 DEF Fresh, ShipInv, Skips
    <3> QED
      BY <2>2, <3>1 DEF LinesIn
  <2> QED
    BY <1>3, <2>1, <2>3
<1>10. CASE ExportOk \/ ExportFails \/ ExportUnanswered \/ Truncate \/ Advance \/ AdvanceFails
  <2>1. UNCHANGED <<spool, spooled>> /\ InFlight
    BY <1>10 DEF ExportOk, ExportFails, ExportUnanswered, Truncate, Advance, AdvanceFails,
       historyVars, spoolVars, InFlight
  <2>2. disk' \in {disk, NoSeq, ship.last}
    BY <1>10 DEF ExportOk, ExportFails, ExportUnanswered, Truncate, Advance, AdvanceFails,
       cursorVars
  <2>3. \/ ship' = IdleShip
        \/ ship' = [ship EXCEPT !.pc = "truncate"]
        \/ ship' = [ship EXCEPT !.pc = "write"]
    BY <1>10 DEF ExportOk, ExportFails, ExportUnanswered, Truncate, Advance, AdvanceFails
  <2>i. ship' = IdleShip => ship'.pc = "idle"
    BY DEF IdleShip
  <2>e. \A v, r : r = [ship EXCEPT !.pc = v] => r.last = ship.last
    OBVIOUS
  <2>4. InFlight' => ship'.last = ship.last
    BY <2>3, <2>i, <2>e DEF InFlight
  <2> QED
    BY <1>3, <2>1, <2>2, <2>4
<1>11. CASE Restart
  <2>1. UNCHANGED <<spool, spooled, ship>>
    BY <1>11 DEF Restart, spoolVars
  <2>2. disk' = disk \/ disk' = NoSeq \/ \E a \in LinesIn(spool) : disk' = a.seq
    BY <1>11, RestartKeeps
  <2>3. InFlight' = InFlight
    BY <2>1 DEF InFlight
  <2> QED
    BY <1>3, <2>1, <2>2, <2>3
<1>12. \A nKept, sKept \in Numbers, nHalf, sHalf \in BOOLEAN : ~Crash(nKept, nHalf, sKept, sHalf)
  BY DEF Crash, Running
<1>13. ~RestartBroken
  BY BrokenRestart
<1> QED
  BY <1>5, <1>6, <1>7, <1>8, <1>9, <1>10, <1>11, <1>12, <1>13 DEF Next, Writer, Shipper

\* A crash that is not ragged: what of the spool is not in the log was not
\* spilled either, so the numbers go on above every record that was shipped.
LEMMA CrashKeeps ==
  ASSUME ChainInv, NumberInv, OrderInv, ShipInv, KnownInv,
         NEW nKept, NEW nHalf \in BOOLEAN, NEW sKept, NEW sHalf \in BOOLEAN,
         Crash(nKept, nHalf, sKept, sHalf), ~ragged'
  PROVE  NumberInv' /\ OrderInv' /\ ShipInv' /\ KnownInv'
<1> DEFINE nLines == SubSeq(nbuf, 1, nKept)
           sLines == SubSeq(sbuf, 1, sKept)
<1>0. /\ nKept \in 0..Len(nbuf) /\ sKept \in 0..Len(sbuf)
      /\ native' = WithActive(Appended(Active, nativeTorn, nLines))
      /\ nativeTorn' = (nHalf \/ (nativeTorn /\ nLines = <<>>))
      /\ spool' = Appended(spool, spoolTorn, sLines)
      /\ spoolTorn' = (sHalf \/ (spoolTorn /\ sLines = <<>>))
      /\ spooled' = spooled \cup InFile(spool')
      /\ nHalf \/ sHalf \/ spooled' \cap (InFile(nbuf) \ InFile(nLines)) # {} => Breaks
      /\ wpc' = "down" /\ nbuf' = <<>> /\ sbuf' = <<>> /\ offset' = 0 /\ cursor' = NoSeq
      /\ ship' = IdleShip /\ UNCHANGED <<disk, received, stamped, dropped, skipped>>
  BY DEF Crash
<1>1. ~nHalf /\ ~sHalf /\ spooled' \cap (InFile(nbuf) \ InFile(nLines)) = {}
  <2>1. ~Breaks
    BY TopIsNat DEF Breaks, ragged, NoSeq, NumberInv
  <2> QED
    BY <1>0, <2>1
<1>2. /\ ~Running' /\ ~InFlight' /\ ship'.pc = "idle" /\ "pc" \in DOMAIN ship' /\ Done' = Done
  BY <1>0 DEF Running, InFlight, IdleShip, Done
<1>3. ~nativeTorn' /\ ~spoolTorn' /\ ~spoolTorn /\ ~nativeTorn
  BY <1>0, <1>1 DEF NumberInv, OrderInv
<1>4. /\ nbuf \in Seq(Entry) /\ Len(nbuf) \in Nat /\ LogTop \in Nat /\ stamped \in Nat
      /\ DOMAIN nbuf = 1..Len(nbuf) /\ nKept \in Nat /\ nKept <= Len(nbuf)
      /\ spool \in Seq(Entry) /\ sbuf \in Seq(Entry) /\ Len(spool) \in Nat /\ Len(sbuf) \in Nat
      /\ sKept \in Nat /\ sKept <= Len(sbuf) /\ Top = LogTop + Len(nbuf)
  BY <1>0, TopIsNat DEF OrderInv, Top
<1>5. (HasEnd(native') => EndOf(native') \in Entry) /\ LogTop' = LogTop + nKept
  BY <1>0, FlushKeepsNumbers
<1>6. Len(nbuf') = 0 /\ DOMAIN nbuf' = {} /\ LinesIn(nbuf)' = {}
      /\ LinesIn(sbuf)' = {} /\ sbuf' \in Seq(Entry) /\ Rising(sbuf')
  BY <1>0 DEF LinesIn, Rising
<1>7. Top' = LogTop'
  BY <1>4, <1>5, <1>6 DEF Top
<1>8. NumberInv'
  <2>1. Top' <= stamped'
    BY <1>0, <1>4, <1>5, <1>7 DEF NumberInv
  <2> QED
    BY <1>0, <1>2, <1>3, <1>5, <1>6, <2>1 DEF NumberInv
<1>9. /\ nLines \in Seq(Entry) /\ Len(nLines) = nKept /\ \A i \in 1..nKept : nLines[i] = nbuf[i]
  <2>1. /\ nLines \in Seq(Entry) /\ Len(nLines) = nKept - 1 + 1
        /\ \A i \in 1..(nKept - 1 + 1) : nLines[i] = nbuf[1 + i - 1]
    <3>1. 1 \in Nat \ {0} /\ 1 <= nKept + 1
      BY <1>4
    <3> QED
      BY <1>4, <3>1, RisingPart
  <2>2. nKept - 1 + 1 = nKept /\ \A i \in 1..nKept : 1 + i - 1 = i
    BY <1>4
  <2> QED
    BY <2>1, <2>2
<1>10. /\ sLines \in Seq(Entry) /\ LinesIn(sLines) \subseteq LinesIn(sbuf) /\ Rising(sLines)
  BY <1>4, RisingPart DEF OrderInv
<1> HIDE DEF nLines, sLines
<1>11. spool' = spool \o sLines
  BY <1>0, <1>3 DEF Appended
<1>12. /\ spool' \in Seq(Entry) /\ LinesIn(spool)' = LinesIn(spool) \cup LinesIn(sLines)
       /\ InFile(spool') = {a.id : a \in LinesIn(spool)'}
  BY <1>4, <1>10, <1>11, LinesInConcat, IdsOf
<1>13. Rising(spool')
  BY <1>4, <1>10, <1>11, RisingConcat DEF OrderInv
<1>14. ASSUME NEW a \in LinesIn(nbuf), a.id \in spooled' PROVE a.seq < LogTop'
  <2>1. PICK i \in 1..Len(nbuf) : a = nbuf[i]
    BY <1>4, LinesInAt
  <2>2. a.id \in InFile(nLines)
    BY <1>1, <1>4, <1>14, IdsOf
  <2>3. PICK j \in 1..nKept : nLines[j].id = a.id
    BY <1>9, <2>2 DEF InFile
  <2>4. j \in 1..Len(nbuf) /\ nbuf[j].id = nbuf[i].id
    BY <1>4, <1>9, <2>1, <2>3
  <2>5. i = j /\ a.seq = LogTop + i - 1
    BY <1>4, <2>1, <2>4 DEF NumberInv
  <2> QED
    BY <1>4, <1>5, <2>5
<1>15. \A a \in LinesIn(spool)' : a.id \in spooled'
  BY <1>0, <1>12
<1>16. \A a \in LinesIn(spool)' : a.seq < LogTop'
  <2>1. ASSUME NEW a \in LinesIn(spool)' PROVE a.seq < LogTop'
    <3>1. a \in LinesIn(spool) \cup LinesIn(sbuf)
      BY <1>10, <1>12
    <3>2. a.seq \in Nat
      BY <1>12, LinesInAt DEF Entry
    <3>3. CASE a.seq < LogTop
      BY <1>4, <1>5, <3>2, <3>3
    <3>4. CASE a \in LinesIn(nbuf)
      BY <1>14, <1>15, <3>4
    <3> QED
      BY <3>1, <3>3, <3>4 DEF OrderInv
  <2> QED
    BY <2>1
<1>17. OrderInv'
  BY <1>0, <1>3, <1>6, <1>12, <1>13, <1>16 DEF OrderInv
<1>18. ASSUME disk # NoSeq PROVE disk \in Nat /\ disk < LogTop'
  <2>1. Known(disk, LogTop, LinesIn(nbuf), spooled)
    BY <1>18 DEF KnownInv
  <2> QED
    BY <1>0, <1>4, <1>5, <1>14, <2>1 DEF Known
<1>19. KnownInv'
  BY <1>0, <1>2, <1>15, <1>18 DEF KnownInv, Known
<1>20. ShipInv'
  <2>1. ASSUME disk # NoSeq
        PROVE  Passes(disk, Done, LinesIn(spool)', {}, Top')
    <3>1. Passes(disk, Done, LinesIn(spool), LinesIn(sbuf), Top)
      BY <2>1 DEF ShipInv
    <3>2. \A b \in LinesIn(sbuf) : b.seq \in Nat
      BY <1>4, LinesInAt DEF Entry
    <3> QED
      BY <1>7, <1>10, <1>12, <1>18, <2>1, <3>1, <3>2 DEF Passes
  <2>2. Skips(0, Done, spool')
    BY <1>12 DEF Skips
  <2>3. spooled' \subseteq Done \cup {a.id : a \in LinesIn(spool)'}
    BY <1>0, <1>12 DEF ShipInv
  <2> QED
    BY <1>0, <1>2, <1>6, <2>1, <2>2, <2>3 DEF ShipInv
<1> QED
  BY <1>8, <1>17, <1>19, <1>20

LEMMA WriterRuns ==
  /\ Writer \/ Restart => Running'
  /\ Shipper /\ ShipInv => Running'
<1>1. Writer \/ Restart => Running'
  BY DEF Writer, Write, FlushNative, FlushSpool, Rotate, Restart, Running
<1>2. ASSUME Shipper, ShipInv PROVE Running'
  <2>1. wpc' = wpc
    BY <1>2 DEF Shipper, Trim, Read, ReadNothing, ExportOk, ExportFails, ExportUnanswered,
       Truncate, Advance, AdvanceFails, writerVars
  <2>2. Running
    BY <1>2 DEF Shipper, Trim, Read, ReadNothing, ExportOk, ExportFails, ExportUnanswered,
       Truncate, Advance, AdvanceFails, ShipInv, InFlight
  <2> QED
    BY <2>1, <2>2 DEF Running
<1> QED
  BY <1>1, <1>2

LEMMA InitExport == Init => ExportInv
<1> SUFFICES ASSUME Init PROVE ExportInv
  OBVIOUS
<1>1. ChainInv
  BY InitChain
<1>2. /\ nbuf = <<>> /\ sbuf = <<>> /\ spool = <<>> /\ cursor = NoSeq /\ disk = NoSeq
      /\ offset = 0 /\ stamped = 0 /\ spooled = {} /\ chain.seq = 0 /\ ~nativeTorn /\ ~spoolTorn
      /\ ~ragged /\ ship.pc = "idle" /\ "pc" \in DOMAIN ship /\ Running
      /\ native = << <<>> >>
  BY DEF Init, IdleShip, Running, ragged
<1>3. ~HasEnd(native) /\ LogTop = 0 /\ Len(nbuf) = 0 /\ Top = 0 /\ DOMAIN nbuf = {}
  BY <1>2 DEF HasEnd, LogTop, Top
<1>4. LinesIn(spool) = {} /\ LinesIn(sbuf) = {} /\ Rising(spool) /\ Rising(sbuf) /\ ~InFlight
      /\ spool \in Seq(Entry) /\ sbuf \in Seq(Entry) /\ Len(spool) = 0
  BY <1>2 DEF LinesIn, Rising, InFlight
<1>5. NumberInv
  BY <1>2, <1>3, AuditConstants DEF NumberInv
<1>6. OrderInv
  BY <1>2, <1>4 DEF OrderInv
<1>7. ShipInv
  BY <1>2, <1>4 DEF ShipInv, Skips, InFlight
<1>8. KnownInv
  BY <1>2, <1>4 DEF KnownInv
<1> QED
  BY <1>1, <1>2, <1>5, <1>6, <1>7, <1>8 DEF ExportInv

LEMMA StepKeepsExport ==
  ASSUME ExportInv, [Next]_vars
  PROVE  ExportInv'
<1>1. ChainInv'
  BY StepKeepsChain DEF ExportInv
<1>2. ragged => ragged'
  BY ZenonT(60) DEF ragged, Breaks, Next, Writer, Shipper, Write, FlushNative, FlushSpool, Rotate, Trim, Read,
     ReadNothing, ExportOk, ExportFails, ExportUnanswered, Truncate, Advance, AdvanceFails,
     Crash, Restart, RestartBroken, vars, historyVars
<1> SUFFICES ASSUME ~ragged' PROVE NumberInv' /\ OrderInv' /\ ShipInv' /\ KnownInv'
  BY <1>1, <1>2 DEF ExportInv
<1>3. ChainInv /\ NumberInv /\ OrderInv /\ ShipInv /\ KnownInv
  BY <1>2 DEF ExportInv
<1>4. CASE \E nKept, sKept \in Numbers, nHalf, sHalf \in BOOLEAN :
             Crash(nKept, nHalf, sKept, sHalf)
  BY <1>3, <1>4, CrashKeeps
<1>5. CASE Writer
  <2>1. \A extra \in 0..MaxRecords : extra \in Nat
    BY AuditConstants
  <2> QED
    BY <1>3, <1>5, <2>1, WriteKeepsExport, FlushNativeKeepsExport, FlushSpoolKeepsExport,
       RotateKeepsExport, WriterRuns, StepKeepsKnown DEF Writer, Next
<1>6. CASE Shipper
  BY <1>3, <1>6, TrimKeeps, ReadKeeps, ReadNothingKeeps, ExportKeeps, CursorKeeps,
     WriterRuns, StepKeepsKnown DEF Shipper, Next
<1>7. CASE Restart
  BY <1>3, <1>7, RestartKeeps, WriterRuns, StepKeepsKnown DEF Next
<1>8. CASE UNCHANGED vars
  <2>1. UNCHANGED <<native, nativeTorn, nbuf, chain, wpc, spool, spoolTorn, sbuf, offset, cursor,
                    disk, ship, received, stamped, spooled, dropped, skipped>>
    BY <1>8 DEF vars, writerVars, spoolVars, cursorVars, historyVars
  <2>2. Top' = Top /\ LogTop' = LogTop /\ Running' = Running /\ Done' = Done /\ InFlight' = InFlight
    BY <2>1 DEF Top, LogTop, Running, Done, InFlight
  <2> QED
    BY <1>3, <2>1, <2>2 DEF NumberInv, OrderInv, ShipInv, KnownInv
<1>9. ~RestartBroken
  BY <1>3, BrokenRestart
<1> QED
  BY <1>4, <1>5, <1>6, <1>7, <1>8, <1>9 DEF Next

-----------------------------------------------------------------------------
(* Type correctness. *)

\* A record of the first n, whose number is below its id: no number is given
\* twice before a break, so the numbers stay within the bound on the records.
Stamped(n) == {r \in Record : r.id <= n /\ r.seq < r.id}
StampedLine(n) == Stamped(n) \cup {Garbage}

FileTypes ==
  /\ native \in Seq(Seq(StampedLine(stamped))) /\ native # <<>>
  /\ nativeTorn \in BOOLEAN
  /\ nbuf \in Seq(Stamped(stamped))
  /\ chain \in [seq : 0..stamped, prev : Seqs \cup {Broken}]
  /\ wpc \in {"down", "idle", "batch", "spool", "rotate", "note", "notespool"}
  /\ spool \in Seq(StampedLine(stamped))
  /\ spoolTorn \in BOOLEAN
  /\ sbuf \in Seq(Stamped(stamped))
  /\ stamped \in Numbers

Ships ==
  [pc : {"idle", "read", "export", "truncate", "write"}, batch : SUBSET Ids,
   end : Nat, last : Seqs]

\* A shipper without a batch has no place in the spool, so that trims and
\* compactions, which come before a batch is read, leave none behind its end.
ShipTypes ==
  /\ offset \in Nat /\ offset <= Len(spool)
  /\ cursor \in Seqs \cup {NoSeq} /\ disk \in Seqs \cup {NoSeq}
  /\ ship \in Ships /\ ship.end <= Len(spool)
  /\ ship.pc \in {"idle", "read"} => ship.end = 0

HistoryTypes ==
  /\ startAt \in StartAts
  /\ received \subseteq Ids /\ spooled \subseteq Ids
  /\ dropped \subseteq Ids /\ skipped \subseteq Ids
  /\ whole \in Numbers \cup {NoSeq}
  /\ faults \in 0..MaxFaults

AuditTypes == FileTypes /\ ShipTypes /\ HistoryTypes

\* Records of the first n are records of the first m.
LEMMA StampedGrows ==
  ASSUME NEW n \in Numbers, NEW m \in Numbers, n <= m
  PROVE  /\ Stamped(n) \subseteq Stamped(m)
         /\ StampedLine(n) \subseteq StampedLine(m)
         /\ \A s \in Seq(Stamped(n)) : s \in Seq(Stamped(m))
         /\ \A s \in Seq(StampedLine(n)) : s \in Seq(StampedLine(m))
         /\ \A s \in Seq(Seq(StampedLine(n))) : s \in Seq(Seq(StampedLine(m)))
<1>1. \A r \in Record : r.id <= n => r.id <= m
  <2>1. \A r \in Record : r.id \in Nat
    BY DEF Record, Ids
  <2> QED
    BY <2>1 DEF Numbers
<1>2. Stamped(n) \subseteq Stamped(m) /\ StampedLine(n) \subseteq StampedLine(m)
  BY <1>1 DEF Stamped, StampedLine
<1>3. \A S, T : S \subseteq T => Seq(S) \subseteq Seq(T)
  BY SeqMonotonic
<1> QED
  BY <1>2, <1>3

\* The lines of a file are lines of TypeOK.
LEMMA StampedLines ==
  ASSUME NEW n
  PROVE  /\ Seq(Stamped(n)) \subseteq Seq(Record)
         /\ Seq(StampedLine(n)) \subseteq Seq(Line)
         /\ Seq(Seq(StampedLine(n))) \subseteq Seq(Seq(Line))
         /\ Stamped(n) \subseteq StampedLine(n) /\ Garbage \in StampedLine(n)
<1>1. Stamped(n) \subseteq Record /\ StampedLine(n) \subseteq Line
  BY DEF Stamped, StampedLine, Line
<1>2. \A S, T : S \subseteq T => Seq(S) \subseteq Seq(T)
  BY SeqMonotonic
<1> QED
  BY <1>1, <1>2 DEF StampedLine

\* The records of a file are records.
LEMMA InFileIds ==
  ASSUME NEW file \in Seq(Line)
  PROVE  InFile(file) \subseteq Ids
<1>1. \A i \in DOMAIN file : file[i] \in Line
  OBVIOUS
<1>2. \A a \in Line : a.id \in Ids \cup {0}
  BY DEF Line, Record, Garbage
<1> QED
  BY <1>1, <1>2 DEF InFile

\* A file that lines were appended to.
LEMMA AppendedFile ==
  ASSUME NEW T, NEW S, S \subseteq T, Garbage \in T,
         NEW file \in Seq(T), NEW torn \in BOOLEAN, NEW lines \in Seq(S)
  PROVE  /\ Appended(file, torn, lines) \in Seq(T)
         /\ Len(Appended(file, torn, lines)) = Len(file) + Len(lines)
<1>1. lines \in Seq(T)
  BY SeqMonotonic
<1>2. CASE torn /\ lines # <<>>
  <2>1. Tail(lines) \in Seq(T) /\ Len(Tail(lines)) = Len(lines) - 1
    BY <1>1, <1>2
  <2>2. file \o <<Garbage>> \in Seq(T) /\ Len(file \o <<Garbage>>) = Len(file) + 1
    OBVIOUS
  <2> DEFINE head == file \o <<Garbage>>
             rest == Tail(lines)
  <2>3. Appended(file, torn, lines) = head \o rest
    BY <1>2 DEF Appended
  <2> HIDE DEF head, rest
  <2>4. head \in Seq(T) /\ rest \in Seq(T) /\ Len(head) = Len(file) + 1
        /\ Len(rest) = Len(lines) - 1
    BY <2>1, <2>2 DEF head, rest
  <2>5. head \o rest \in Seq(T) /\ Len(head \o rest) = Len(head) + Len(rest)
    BY <2>4, ConcatProperties
  <2>6. Len(file) \in Nat /\ Len(lines) \in Nat
    BY <1>1
  <2> QED
    BY <2>3, <2>4, <2>5, <2>6
<1>3. CASE ~(torn /\ lines # <<>>)
  BY <1>1, <1>3, ConcatProperties DEF Appended
<1> QED
  BY <1>2, <1>3

\* A stamped record is one more, and goes into both buffers.
LEMMA StampTypes ==
  ASSUME FileTypes, NEW c \in [seq : 0..stamped, prev : Seqs \cup {Broken}], Stamp(c)
  PROVE  /\ stamped' \in Numbers /\ stamped <= stamped'
         /\ nbuf' \in Seq(Stamped(stamped')) /\ sbuf' \in Seq(Stamped(stamped'))
         /\ chain' \in [seq : 0..stamped', prev : Seqs \cup {Broken}]
<1> DEFINE r == [id |-> stamped + 1, seq |-> c.seq, prev |-> c.prev]
<1>1. /\ stamped < MaxRecords /\ stamped' = stamped + 1
      /\ chain' = [seq |-> c.seq + 1, prev |-> stamped + 1]
      /\ nbuf' = Append(nbuf, r) /\ sbuf' = Append(sbuf, r)
  BY DEF Stamp
<1>2. stamped \in Nat /\ MaxRecords \in Nat /\ c.seq \in 0..stamped
  BY AuditConstants DEF FileTypes, Numbers
<1>3. stamped' \in Numbers /\ stamped <= stamped' /\ stamped \in Numbers
  BY <1>1, <1>2 DEF Numbers
<1>4. r \in Stamped(stamped')
  <2>1. stamped + 1 \in Ids /\ c.seq \in Seqs /\ c.seq < stamped + 1
    BY <1>1, <1>2 DEF Ids, Seqs
  <2> QED
    BY <1>1, <1>2, <2>1 DEF Stamped, Record
<1> HIDE DEF r
<1>5. nbuf \in Seq(Stamped(stamped')) /\ sbuf \in Seq(Stamped(stamped'))
  BY <1>3, StampedGrows DEF FileTypes
<1>6. nbuf' \in Seq(Stamped(stamped')) /\ sbuf' \in Seq(Stamped(stamped'))
  BY <1>1, <1>4, <1>5, AppendProperties
<1>7. c.seq + 1 \in 0..stamped' /\ stamped + 1 \in Seqs
  BY <1>1, <1>2 DEF Seqs
<1> QED
  BY <1>1, <1>3, <1>6, <1>7

\* A part of a buffer.
LEMMA BufferPart ==
  ASSUME NEW S, NEW buf \in Seq(S), NEW k \in 0..Len(buf)
  PROVE  SubSeq(buf, 1, k) \in Seq(S)
<1>1. \A i \in 1..k : buf[i] \in S
  OBVIOUS
<1> QED
  BY <1>1, SubSeqProperties

\* The native log after a flush, or after what a crash leaves of one.
LEMMA NativeType ==
  ASSUME FileTypes, NEW lines \in Seq(Stamped(stamped)),
         native' = WithActive(Appended(Active, nativeTorn, lines))
  PROVE  native' \in Seq(Seq(StampedLine(stamped))) /\ native' # <<>>
<1> DEFINE L == StampedLine(stamped)
           file == Appended(Active, nativeTorn, lines)
<1>1. native \in Seq(Seq(L)) /\ native # <<>> /\ Len(native) \in 1..Len(native)
  BY DEF FileTypes
<1>2. Active \in Seq(L)
  BY <1>1, ElementOfSeq DEF Active
<1>3. file \in Seq(L)
  BY <1>2, StampedLines, AppendedFile DEF FileTypes
<1>4. native' = [native EXCEPT ![Len(native)] = file]
  BY DEF WithActive
<1> HIDE DEF file, L
<1>5. native' \in Seq(Seq(L)) /\ Len(native') = Len(native)
  BY <1>1, <1>3, <1>4, ExceptSeq
<1> QED
  BY <1>1, <1>5 DEF L

\* The spool after a flush, or after what a crash leaves of one.
LEMMA SpoolType ==
  ASSUME FileTypes, NEW lines \in Seq(Stamped(stamped)), NEW after,
         after = Appended(spool, spoolTorn, lines)
  PROVE  /\ after \in Seq(StampedLine(stamped))
         /\ Len(after) \in Nat /\ Len(spool) \in Nat /\ Len(spool) <= Len(after)
         /\ InFile(after) \subseteq Ids
<1> DEFINE L == StampedLine(stamped)
           K == Stamped(stamped)
<1>0. /\ spool \in Seq(L) /\ spoolTorn \in BOOLEAN /\ lines \in Seq(K)
      /\ K \subseteq L /\ Garbage \in L
  BY StampedLines DEF FileTypes
<1> HIDE DEF L, K
<1>a. Appended(spool, spoolTorn, lines) \in Seq(L)
  BY <1>0, AppendedFile
<1>b. Len(Appended(spool, spoolTorn, lines)) = Len(spool) + Len(lines)
  <2>1. Len(spool) \in Nat /\ Len(lines) \in Nat
    BY <1>0
  <2>2. CASE spoolTorn /\ lines # <<>>
    <3>1. Tail(lines) \in Seq(K) /\ Len(Tail(lines)) = Len(lines) - 1
      BY <1>0, <2>2
    <3> QED
      BY <1>0, <2>1, <2>2, <3>1, ConcatProperties DEF Appended
  <2>3. CASE ~(spoolTorn /\ lines # <<>>)
    BY <1>0, <2>1, <2>3 DEF Appended
  <2> QED
    BY <2>2, <2>3
<1>1. after \in Seq(StampedLine(stamped)) /\ Len(after) = Len(spool) + Len(lines)
  BY <1>a, <1>b DEF L
<1>2. after \in Seq(Line)
  BY <1>1, StampedLines
<1>3. Len(spool) \in Nat /\ Len(lines) \in Nat
  BY DEF FileTypes
<1> QED
  BY <1>1, <1>2, <1>3, InFileIds

\* The writer's steps.
LEMMA WriterTypes ==
  ASSUME AuditTypes, Writer
  PROVE  AuditTypes'
<1>0. FileTypes /\ ShipTypes /\ HistoryTypes
  BY DEF AuditTypes
<1>1. stamped \in Numbers /\ chain \in [seq : 0..stamped, prev : Seqs \cup {Broken}]
      /\ Len(spool) \in Nat
  BY <1>0 DEF FileTypes
<1>e. <<>> \in Seq(Stamped(stamped))
  OBVIOUS
<1>2. ASSUME UNCHANGED <<spool, offset, cursor, disk, ship, startAt, received, spooled, dropped,
                         skipped, whole, faults>>
      PROVE  ShipTypes' /\ HistoryTypes'
  BY <1>0, <1>2 DEF ShipTypes, HistoryTypes
<1>3. ASSUME Stamp(chain), native' \in Seq(Seq(StampedLine(stamped))), native' # <<>>,
             UNCHANGED <<nativeTorn, spool, spoolTorn>>, wpc' \in {"batch", "note"}
      PROVE  FileTypes'
  <2>1. /\ stamped' \in Numbers /\ stamped <= stamped'
        /\ nbuf' \in Seq(Stamped(stamped')) /\ sbuf' \in Seq(Stamped(stamped'))
        /\ chain' \in [seq : 0..stamped', prev : Seqs \cup {Broken}]
    BY <1>0, <1>1, <1>3, StampTypes
  <2>2. native' \in Seq(Seq(StampedLine(stamped'))) /\ spool \in Seq(StampedLine(stamped'))
    BY <1>0, <1>1, <1>3, <2>1, StampedGrows DEF FileTypes
  <2> QED
    BY <1>0, <1>3, <2>1, <2>2 DEF FileTypes
<1>4. CASE Write
  <2>1. /\ Stamp(chain) /\ UNCHANGED <<native, nativeTorn, spool, spoolTorn>> /\ wpc' = "batch"
        /\ UNCHANGED <<spool, offset, cursor, disk, ship, startAt, received, spooled, dropped,
                       skipped, whole, faults>>
    BY <1>4 DEF Write, cursorVars, historyVars
  <2>2. native' \in Seq(Seq(StampedLine(stamped))) /\ native' # <<>>
    BY <1>0, <2>1 DEF FileTypes
  <2> QED
    BY <1>2, <1>3, <2>1, <2>2 DEF AuditTypes
<1>5. CASE FlushNative
  <2>1. /\ native' = WithActive(Appended(Active, nativeTorn, nbuf))
        /\ nativeTorn' = FALSE /\ nbuf' = <<>> /\ wpc' \in {"spool", "notespool"}
        /\ UNCHANGED <<chain, spool, spoolTorn, sbuf, stamped>>
        /\ UNCHANGED <<spool, offset, cursor, disk, ship, startAt, received, spooled, dropped,
                       skipped, whole, faults>>
    BY <1>5 DEF FlushNative, cursorVars, historyVars, spoolVars
  <2>2. native' \in Seq(Seq(StampedLine(stamped))) /\ native' # <<>>
    BY <1>0, <2>1, NativeType DEF FileTypes
  <2>3. FileTypes'
    BY <1>0, <1>e, <2>1, <2>2 DEF FileTypes
  <2> QED
    BY <1>2, <2>1, <2>3 DEF AuditTypes
<1>6. CASE FlushSpool
  <2>1. /\ spool' = Appended(spool, spoolTorn, sbuf)
        /\ spooled' = spooled \cup InFile(spool')
        /\ spoolTorn' = (spoolTorn /\ sbuf = <<>>) /\ sbuf' = <<>>
        /\ wpc' \in {"rotate", "idle"}
        /\ UNCHANGED <<native, nativeTorn, nbuf, chain, stamped, offset, cursor, disk, ship,
                       startAt, received, dropped, skipped, whole, faults>>
    BY <1>6 DEF FlushSpool, FlushedSpool, cursorVars
  <2>2. /\ spool' \in Seq(StampedLine(stamped)) /\ Len(spool') \in Nat
        /\ Len(spool) <= Len(spool') /\ InFile(spool') \subseteq Ids
    BY <1>0, <2>1, SpoolType DEF FileTypes
  <2>3. FileTypes'
    BY <1>0, <1>e, <2>1, <2>2 DEF FileTypes
  <2>4. ShipTypes'
    <3>1. offset <= Len(spool') /\ ship.end <= Len(spool')
      BY <1>0, <1>1, <2>2 DEF ShipTypes, Ships
    <3> QED
      BY <1>0, <2>1, <3>1 DEF ShipTypes
  <2>5. HistoryTypes'
    BY <1>0, <2>1, <2>2 DEF HistoryTypes
  <2> QED
    BY <2>3, <2>4, <2>5 DEF AuditTypes
<1>7. ASSUME NEW extra \in 0..MaxRecords, Rotate(extra)
      PROVE  AuditTypes'
  <2> DEFINE L == Seq(StampedLine(stamped))
             full == Len(Active) >= MaxFile
             files == IF full THEN Append(native, <<>>) ELSE native
             rotated == Len(files) - 1
             excess == IF full /\ rotated > MaxFiles THEN rotated - MaxFiles ELSE 0
             gone == excess + extra
  <2>0. extra \in Nat /\ MaxFiles \in Nat \ {0}
    BY AuditConstants
  <2>1. files \in Seq(L) /\ Len(files) \in Nat \ {0}
    <3>1. native \in Seq(L) /\ native # <<>> /\ <<>> \in L
      BY <1>0 DEF FileTypes
    <3> HIDE DEF L
    <3>2. Append(native, <<>>) \in Seq(L) /\ Len(Append(native, <<>>)) = Len(native) + 1
      BY <3>1, AppendProperties
    <3> QED
      BY <3>1, <3>2
  <2>2. /\ extra > 0 => gone < rotated
        /\ native' = SubSeq(files, gone + 1, Len(files))
        /\ \/ Stamp(chain) /\ wpc' = "note"
           \/ wpc' = "idle" /\ UNCHANGED <<nbuf, sbuf, chain, stamped>>
        /\ UNCHANGED <<nativeTorn, spool, spoolTorn>>
        /\ UNCHANGED <<spool, offset, cursor, disk, ship, startAt, received, spooled, dropped,
                       skipped, whole, faults>>
    BY <1>7 DEF Rotate, cursorVars, historyVars
  <2> HIDE DEF L, full, files
  <2>3. gone \in Nat /\ gone + 1 <= Len(files)
    BY <2>0, <2>1, <2>2
  <2> HIDE DEF gone
  <2>4. \A i \in (gone + 1)..Len(files) : files[i] \in L
    BY <2>1, <2>3, ElementOfSeq
  <2>5. native' \in Seq(L) /\ Len(native') # 0
    BY <2>1, <2>2, <2>3, <2>4, SubSeqProperties
  <2>6. native' \in Seq(Seq(StampedLine(stamped))) /\ native' # <<>>
    BY <2>5 DEF L
  <2>7. FileTypes'
    <3>1. CASE Stamp(chain) /\ wpc' = "note"
      BY <1>3, <2>2, <2>6, <3>1
    <3>2. CASE wpc' = "idle" /\ UNCHANGED <<nbuf, sbuf, chain, stamped>>
      BY <1>0, <2>2, <2>6, <3>2 DEF FileTypes
    <3> QED
      BY <2>2, <3>1, <3>2
  <2> QED
    BY <1>2, <2>2, <2>7 DEF AuditTypes
<1> QED
  BY <1>4, <1>5, <1>6, <1>7 DEF Writer

\* What the shipper and a resume find in the spool.
LEMMA SpoolRecords ==
  ASSUME FileTypes
  PROVE  /\ \A i \in 1..Len(spool) : spool[i] # Garbage => spool[i] \in Record
         /\ \A r \in Record : r.id \in Ids /\ r.seq \in Seqs
         /\ InFile(spool) \subseteq Ids
         /\ Len(spool) \in Nat
<1>1. spool \in Seq(Line)
  BY StampedLines DEF FileTypes
<1>2. \A r \in Record : r.id \in Ids /\ r.seq \in Seqs
  BY DEF Record
<1>3. \A i \in 1..Len(spool) : spool[i] # Garbage => spool[i] \in Record
  BY <1>1, ElementOfSeq DEF Line
<1> QED
  BY <1>1, <1>2, <1>3, InFileIds

\* The trim of the spool at its cap.
LEMMA TrimTypes ==
  ASSUME AuditTypes, Trim
  PROVE  AuditTypes'
<1> DEFINE len == Len(spool)
           cut == IF len - offset > SpoolCap THEN len - SpoolCap \div 2 ELSE offset
           flushed == Appended(spool, spoolTorn, sbuf)
<1>0. FileTypes /\ ShipTypes /\ HistoryTypes
  BY DEF AuditTypes
<1>1. /\ ship.pc = "idle"
      /\ spool' = SubSeq(flushed, cut + 1, Len(flushed))
      /\ offset' = IF offset > cut THEN offset - cut ELSE 0
      /\ dropped' = dropped \cup {spool[i].id : i \in {j \in Fresh : j <= cut}}
      /\ spooled' = spooled \cup InFile(flushed)
      /\ spoolTorn' = (spoolTorn /\ sbuf = <<>>)
      /\ sbuf' = <<>>
      /\ ship' = [ship EXCEPT !.pc = "read"]
      /\ UNCHANGED <<native, nativeTorn, nbuf, chain, wpc, cursor, disk, startAt, received,
                     stamped, skipped, whole, faults>>
  BY DEF Trim, FlushedSpool, writerVars
<1>2. /\ flushed \in Seq(StampedLine(stamped)) /\ Len(flushed) \in Nat
      /\ len \in Nat /\ len <= Len(flushed) /\ InFile(flushed) \subseteq Ids
  BY <1>0, SpoolType DEF FileTypes
<1>3. offset \in Nat /\ offset <= len /\ SpoolCap \in Nat \ {0}
  BY <1>0, AuditConstants DEF ShipTypes
<1>4. cut \in Nat /\ offset <= cut /\ cut <= len
  <2>1. SpoolCap \div 2 \in Nat /\ SpoolCap \div 2 <= SpoolCap
    BY <1>3
  <2> DEFINE half == SpoolCap \div 2
  <2>2. half \in Nat /\ half <= SpoolCap /\ cut = IF len - offset > SpoolCap THEN len - half
                                                  ELSE offset
    BY <2>1
  <2> HIDE DEF half, cut, len
  <2> QED
    BY <1>2, <1>3, <2>2
<1> HIDE DEF cut, flushed, len
<1>5. offset' = 0
  BY <1>1, <1>3, <1>4
<1>6. spool' \in Seq(StampedLine(stamped)) /\ Len(spool') \in Nat
  <2>1. \A i \in (cut + 1)..Len(flushed) : flushed[i] \in StampedLine(stamped)
    BY <1>2, <1>4, ElementOfSeq
  <2>2. SubSeq(flushed, cut + 1, Len(flushed)) \in Seq(StampedLine(stamped))
    BY <1>2, <1>4, <2>1, SubSeqProperties
  <2> QED
    BY <1>1, <2>2
<1>7. FileTypes'
  <2>1. <<>> \in Seq(Stamped(stamped))
    OBVIOUS
  <2> QED
    BY <1>0, <1>1, <1>6, <2>1 DEF FileTypes
<1>8. ShipTypes'
  <2>1. ship' \in Ships /\ ship'.end = 0
    BY <1>0, <1>1 DEF ShipTypes, Ships
  <2> QED
    BY <1>0, <1>1, <1>5, <1>6, <2>1 DEF ShipTypes
<1>9. HistoryTypes'
  <2>1. \A i \in Fresh : spool[i].id \in Ids
    <3>1. \A i \in Fresh : i \in 1..Len(spool) /\ spool[i] # Garbage
      BY <1>3, <1>2 DEF Fresh, Unshipped
    <3> QED
      BY <1>0, <3>1, SpoolRecords
  <2>2. dropped' \subseteq Ids
    BY <1>0, <1>1, <2>1 DEF HistoryTypes
  <2>3. spooled' \subseteq Ids
    BY <1>0, <1>1, <1>2 DEF HistoryTypes
  <2> QED
    BY <1>0, <1>1, <2>2, <2>3 DEF HistoryTypes
<1> QED
  BY <1>7, <1>8, <1>9 DEF AuditTypes

\* A shipper at rest has no place in the spool.
LEMMA IdleShips == IdleShip \in Ships /\ IdleShip.end = 0
<1>1. 0 \in Seqs
  BY AuditConstants DEF Seqs
<1> QED
  BY <1>1 DEF IdleShip, Ships

\* The other steps of the shipper.
LEMMA ShipperTypes ==
  ASSUME AuditTypes, Shipper
  PROVE  AuditTypes'
<1>0. FileTypes /\ ShipTypes /\ HistoryTypes
  BY DEF AuditTypes
<1>1. /\ Len(spool) \in Nat /\ offset \in Nat /\ offset <= Len(spool)
      /\ ship \in Ships /\ ship.end <= Len(spool) /\ ship.end \in Nat /\ ship.last \in Seqs
      /\ ship.batch \subseteq Ids
  BY <1>0, SpoolRecords DEF ShipTypes, Ships
<1>2. ASSUME UNCHANGED <<native, nativeTorn, nbuf, chain, wpc, spool, spoolTorn, sbuf, stamped>>
      PROVE  FileTypes'
  BY <1>0, <1>2 DEF FileTypes
<1>3. CASE Read
  <2>1. PICK end \in 1..Len(spool), last \in Seqs :
          ship' = [pc |-> "export", batch |-> {spool[i].id : i \in {j \in Fresh : j <= end}},
                   end |-> end, last |-> last]
    BY <1>3 DEF Read
  <2>2. UNCHANGED <<native, nativeTorn, nbuf, chain, wpc, spool, spoolTorn, sbuf, stamped,
                    offset, cursor, disk, startAt, received, spooled, dropped, skipped, whole,
                    faults>>
    BY <1>3 DEF Read, writerVars, spoolVars, cursorVars, historyVars
  <2>3. \A i \in Fresh : spool[i].id \in Ids
    <3>1. \A i \in Fresh : i \in 1..Len(spool) /\ spool[i] # Garbage
      BY <1>1 DEF Fresh, Unshipped
    <3> QED
      BY <1>0, <3>1, SpoolRecords
  <2> DEFINE batch == {spool[i].id : i \in {j \in Fresh : j <= end}}
  <2>4. batch \subseteq Ids
    BY <2>3
  <2> HIDE DEF batch
  <2>5. ship' = [pc |-> "export", batch |-> batch, end |-> end, last |-> last]
    BY <2>1 DEF batch
  <2>6. ship' \in Ships /\ ship'.end = end /\ ship'.pc = "export"
    BY <1>1, <2>4, <2>5 DEF Ships
  <2>7. ShipTypes'
    BY <1>0, <1>1, <2>2, <2>6 DEF ShipTypes
  <2>8. HistoryTypes'
    BY <1>0, <2>2 DEF HistoryTypes
  <2> QED
    BY <1>2, <2>2, <2>7, <2>8 DEF AuditTypes
<1>4. CASE ReadNothing
  <2>1. /\ ship' = IdleShip
        /\ \/ spool' = <<>> /\ offset' = 0
           \/ UNCHANGED <<spool, offset>>
        /\ UNCHANGED <<native, nativeTorn, nbuf, chain, wpc, spoolTorn, sbuf, stamped,
                       cursor, disk, startAt, received, spooled, dropped, skipped, whole,
                       faults>>
    BY <1>4 DEF ReadNothing, writerVars, historyVars
  <2>2. <<>> \in Seq(StampedLine(stamped)) /\ Len(<<>>) = 0
    OBVIOUS
  <2>3. FileTypes'
    BY <1>0, <2>1, <2>2 DEF FileTypes
  <2>4. ShipTypes'
    BY <1>0, <1>1, <2>1, <2>2, IdleShips DEF ShipTypes
  <2>5. HistoryTypes'
    BY <1>0, <2>1 DEF HistoryTypes
  <2> QED
    BY <2>3, <2>4, <2>5 DEF AuditTypes
<1>5. CASE ExportOk \/ ExportFails \/ ExportUnanswered
  <2>1. /\ UNCHANGED <<native, nativeTorn, nbuf, chain, wpc, spool, spoolTorn, sbuf, stamped,
                       offset, cursor, disk, startAt, spooled, dropped, skipped, whole>>
        /\ ship' = IdleShip \/ ship' = [ship EXCEPT !.pc = "truncate"]
        /\ received' = received \/ received' = received \cup ship.batch
        /\ faults' = faults \/ (faults > 0 /\ faults' = faults - 1)
    BY <1>5 DEF ExportOk, ExportFails, ExportUnanswered, writerVars, spoolVars, cursorVars,
       historyVars
  <2>2. /\ ship' \in Ships /\ ship'.end <= Len(spool)
        /\ ship'.pc \in {"idle", "read"} => ship'.end = 0
    <3>1. CASE ship' = IdleShip
      BY <1>1, <3>1, IdleShips
    <3>2. CASE ship' = [ship EXCEPT !.pc = "truncate"]
      BY <1>1, <3>2 DEF Ships
    <3> QED
      BY <2>1, <3>1, <3>2
  <2>3. ShipTypes'
    BY <1>0, <2>1, <2>2 DEF ShipTypes
  <2>4. HistoryTypes'
    BY <1>0, <1>1, <2>1, AuditConstants DEF HistoryTypes
  <2> QED
    BY <1>2, <2>1, <2>3, <2>4 DEF AuditTypes
<1>6. CASE Truncate
  <2>1. /\ UNCHANGED <<native, nativeTorn, nbuf, chain, wpc, spool, spoolTorn, sbuf, stamped,
                       offset, cursor, startAt, received, spooled, dropped, skipped, whole,
                       faults>>
        /\ disk' = NoSeq /\ ship' = [ship EXCEPT !.pc = "write"]
    BY <1>6 DEF Truncate, writerVars, spoolVars, historyVars
  <2>2. ship' \in Ships /\ ship'.end = ship.end /\ ship'.pc = "write"
    BY <1>1, <2>1 DEF Ships
  <2>3. ShipTypes'
    BY <1>0, <1>1, <2>1, <2>2 DEF ShipTypes
  <2>4. HistoryTypes'
    BY <1>0, <2>1 DEF HistoryTypes
  <2> QED
    BY <1>2, <2>1, <2>3, <2>4 DEF AuditTypes
<1>7. CASE Advance \/ AdvanceFails
  <2>1. /\ UNCHANGED <<native, nativeTorn, nbuf, chain, wpc, spool, spoolTorn, sbuf, stamped,
                       startAt, received, spooled, dropped, skipped, whole>>
        /\ offset' = ship.end /\ ship' = IdleShip
        /\ disk' \in {disk, ship.last} /\ cursor' \in {cursor, ship.last}
        /\ faults' = faults \/ (faults > 0 /\ faults' = faults - 1)
    BY <1>7 DEF Advance, AdvanceFails, writerVars, spoolVars, historyVars
  <2>2. ShipTypes'
    BY <1>0, <1>1, <2>1, IdleShips DEF ShipTypes
  <2>3. HistoryTypes'
    BY <1>0, <2>1, AuditConstants DEF HistoryTypes
  <2> QED
    BY <1>2, <2>1, <2>2, <2>3 DEF AuditTypes
<1> QED
  BY <1>3, <1>4, <1>5, <1>6, <1>7, TrimTypes DEF Shipper

\* A crash, and what it leaves in the files.
LEMMA CrashTypes ==
  ASSUME AuditTypes, NEW nKept \in Numbers, NEW sKept \in Numbers,
         NEW nHalf \in BOOLEAN, NEW sHalf \in BOOLEAN, Crash(nKept, nHalf, sKept, sHalf)
  PROVE  AuditTypes'
<1> DEFINE nLines == SubSeq(nbuf, 1, nKept)
           sLines == SubSeq(sbuf, 1, sKept)
<1>0. FileTypes /\ ShipTypes /\ HistoryTypes
  BY DEF AuditTypes
<1>1. nLines \in Seq(Stamped(stamped)) /\ sLines \in Seq(Stamped(stamped))
  BY <1>0, BufferPart DEF Crash, FileTypes
<1>2. /\ native' = WithActive(Appended(Active, nativeTorn, nLines))
      /\ nativeTorn' = (nHalf \/ (nativeTorn /\ nLines = <<>>))
      /\ spool' = Appended(spool, spoolTorn, sLines)
      /\ spoolTorn' = (sHalf \/ (spoolTorn /\ sLines = <<>>))
      /\ spooled' = spooled \cup InFile(spool')
      /\ whole' \in {whole, stamped}
      /\ faults > 0 /\ faults' = faults - 1
      /\ wpc' = "down" /\ nbuf' = <<>> /\ sbuf' = <<>>
      /\ chain' = [seq |-> 0, prev |-> Genesis]
      /\ offset' = 0 /\ cursor' = NoSeq /\ ship' = IdleShip
      /\ UNCHANGED <<disk, startAt, received, stamped, dropped, skipped>>
  BY DEF Crash, Breaks
<1> HIDE DEF nLines, sLines
<1>3. native' \in Seq(Seq(StampedLine(stamped))) /\ native' # <<>>
  BY <1>0, <1>1, <1>2, NativeType
<1>4. /\ spool' \in Seq(StampedLine(stamped)) /\ Len(spool') \in Nat
      /\ InFile(spool') \subseteq Ids
  BY <1>0, <1>1, <1>2, SpoolType
<1>5. chain' \in [seq : 0..stamped, prev : Seqs \cup {Broken}]
  <2>1. 0 \in 0..stamped /\ Genesis \in Seqs
    BY <1>0, AuditConstants DEF FileTypes, Numbers, Genesis, Seqs
  <2> QED
    BY <1>2, <2>1
<1>6. FileTypes'
  <2>1. <<>> \in Seq(Stamped(stamped)) /\ nativeTorn' \in BOOLEAN /\ spoolTorn' \in BOOLEAN
    BY <1>0, <1>2 DEF FileTypes
  <2> QED
    BY <1>0, <1>2, <1>3, <1>4, <1>5, <2>1 DEF FileTypes
<1>7. ShipTypes'
  BY <1>0, <1>2, <1>4, IdleShips DEF ShipTypes
<1>8. HistoryTypes'
  BY <1>0, <1>2, <1>4, AuditConstants DEF HistoryTypes, FileTypes
<1> QED
  BY <1>6, <1>7, <1>8 DEF AuditTypes

\* The shipper of a new process.
LEMMA ResumeTypes ==
  ASSUME FileTypes, ShipTypes, HistoryTypes, ResumeShipper,
         UNCHANGED <<spool, ship, startAt, received, spooled, dropped, faults>>,
         whole' \in {whole, stamped}
  PROVE  ShipTypes' /\ HistoryTypes'
<1>1. Len(spool) \in Nat /\ InFile(spool) \subseteq Ids
  BY SpoolRecords
<1>2. /\ offset' \in {0, Len(spool)}
      /\ cursor' \in Seqs \cup {NoSeq} /\ disk' \in Seqs \cup {NoSeq}
      /\ skipped' = skipped \/ skipped' = skipped \cup InFile(spool)
  BY DEF ResumeShipper, ShipTypes
<1>3. ShipTypes'
  BY <1>1, <1>2 DEF ShipTypes
<1>4. HistoryTypes'
  BY <1>1, <1>2 DEF HistoryTypes, FileTypes
<1> QED
  BY <1>3, <1>4

\* The chain of a new process goes on from the last line of the log.
LEMMA RestartTypes ==
  ASSUME ChainInv, AuditTypes, Restart \/ RestartBroken
  PROVE  AuditTypes'
<1>0. FileTypes /\ ShipTypes /\ HistoryTypes /\ LogOK(native)
  BY DEF AuditTypes, ChainInv
<1>1. /\ ResumeShipper
      /\ UNCHANGED <<native, nativeTorn, spool, spoolTorn, ship, startAt, received, spooled,
                     dropped, faults>>
      /\ wpc' = "idle" /\ whole' \in {whole, stamped}
  BY DEF Restart, RestartBroken, Breaks, spoolVars
<1>2. ShipTypes' /\ HistoryTypes'
  BY <1>0, <1>1, ResumeTypes
<1>3. CASE Restart
  <2>1. /\ UNCHANGED <<nbuf, sbuf, stamped>> /\ Tip # Garbage
        /\ chain' = IF Tip.id = Genesis THEN [seq |-> 0, prev |-> Genesis]
                    ELSE [seq |-> Tip.seq + 1, prev |-> Tip.id]
    BY <1>3 DEF Restart, TornTip, spoolVars
  <2>2. stamped \in Nat /\ 0 \in 0..stamped /\ Genesis \in Seqs /\ MaxRecords \in Nat
        /\ stamped <= MaxRecords
    BY <1>0, AuditConstants DEF FileTypes, Numbers, Genesis, Seqs
  <2>3. CASE Tip.id = Genesis
    <3>1. chain' \in [seq : 0..stamped, prev : Seqs \cup {Broken}]
      BY <2>1, <2>2, <2>3
    <3>2. FileTypes'
      BY <1>0, <1>1, <2>1, <3>1 DEF FileTypes
    <3> QED
      BY <1>2, <3>2 DEF AuditTypes
  <2>4. CASE Tip.id # Genesis
    <3>1. Tip \in StampedLine(stamped)
      <4>1. HasEnd(native) /\ Tip = EndOf(native)
        BY <1>0, <2>4, TipIsEnd
      <4> DEFINE n == Len(native)
                 S == StampedLine(stamped)
      <4>2. /\ native \in Seq(Seq(S)) /\ n \in Nat \ {0}
            /\ \A f \in 1..n : f < n => native[f] # <<>>
        BY <1>0 DEF FileTypes, LogOK
      <4>3. PICK f \in 1..n : native[f] # <<>> /\ Tip = native[f][Len(native[f])]
        <5>1. CASE native[n] # <<>>
          BY <4>1, <4>2, <5>1 DEF EndOf
        <5>2. CASE ~(native[n] # <<>>)
          <6>1. n > 1 /\ n - 1 \in 1..n /\ n - 1 < n
            BY <4>1, <4>2, <5>2 DEF HasEnd
          <6> QED
            BY <4>1, <4>2, <5>2, <6>1 DEF EndOf
        <5> QED
          BY <5>1, <5>2
      <4> DEFINE file == native[f]
      <4>4. file \in Seq(S) /\ file # <<>>
        BY <4>2, <4>3, ElementOfSeq
      <4> HIDE DEF file, S
      <4>5. Len(file) \in 1..Len(file)
        BY <4>4
      <4>6. file[Len(file)] \in S
        BY <4>4, <4>5, ElementOfSeq
      <4> QED
        BY <4>3, <4>6 DEF file, S
    <3>2. Tip \in Record /\ Tip.id <= stamped /\ Tip.seq < Tip.id
      BY <2>1, <3>1 DEF StampedLine, Stamped
    <3>3. Tip.id \in Ids /\ Tip.seq \in Seqs
      BY <3>2 DEF Record
    <3>4. Tip.seq + 1 \in 0..stamped /\ Tip.id \in Seqs
      BY <2>2, <3>2, <3>3 DEF Ids, Seqs
    <3>5. chain' \in [seq : 0..stamped, prev : Seqs \cup {Broken}]
      BY <2>1, <2>4, <3>4
    <3>6. FileTypes'
      BY <1>0, <1>1, <2>1, <3>5 DEF FileTypes
    <3> QED
      BY <1>2, <3>6 DEF AuditTypes
  <2> QED
    BY <2>3, <2>4
<1>4. CASE RestartBroken
  <2> DEFINE c == [seq |-> 0, prev |-> Broken]
  <2>1. Stamp(c)
    BY <1>4 DEF RestartBroken
  <2>2. c \in [seq : 0..stamped, prev : Seqs \cup {Broken}] /\ stamped \in Numbers
    BY <1>0 DEF FileTypes, Numbers
  <2> HIDE DEF c
  <2>3. /\ stamped' \in Numbers /\ stamped <= stamped'
        /\ nbuf' \in Seq(Stamped(stamped')) /\ sbuf' \in Seq(Stamped(stamped'))
        /\ chain' \in [seq : 0..stamped', prev : Seqs \cup {Broken}]
    BY <1>0, <2>1, <2>2, StampTypes
  <2>4. /\ native \in Seq(Seq(StampedLine(stamped')))
        /\ spool \in Seq(StampedLine(stamped'))
    BY <1>0, <2>2, <2>3, StampedGrows DEF FileTypes
  <2>5. FileTypes'
    BY <1>0, <1>1, <2>3, <2>4 DEF FileTypes
  <2> QED
    BY <1>2, <2>5 DEF AuditTypes
<1> QED
  BY <1>3, <1>4

LEMMA InitTypes == Init => AuditTypes
<1> SUFFICES ASSUME Init PROVE AuditTypes
  OBVIOUS
<1>1. /\ 0 \in Numbers /\ 0 \in 0..stamped /\ Genesis \in Seqs /\ stamped = 0
      /\ MaxFaults \in 0..MaxFaults
  BY AuditConstants DEF Init, Numbers, Genesis, Seqs
<1> DEFINE empty == <<>>
<1>2. empty \in Seq(StampedLine(stamped)) /\ empty \in Seq(Stamped(stamped)) /\ Len(empty) = 0
  OBVIOUS
<1>3. << empty >> \in Seq(Seq(StampedLine(stamped))) /\ << empty >> # <<>>
  BY <1>2
<1>4. FileTypes
  BY <1>1, <1>2, <1>3 DEF Init, FileTypes
<1>5. ShipTypes
  BY <1>2, IdleShips DEF Init, ShipTypes
<1>6. HistoryTypes
  BY <1>1 DEF Init, HistoryTypes
<1> QED
  BY <1>4, <1>5, <1>6 DEF AuditTypes

LEMMA StepKeepsTypes ==
  ASSUME ChainInv, AuditTypes, [Next]_vars
  PROVE  AuditTypes'
<1>1. ASSUME UNCHANGED vars PROVE AuditTypes'
  <2> USE DEF vars, writerVars, spoolVars, cursorVars, historyVars
  <2>1. FileTypes'
    BY <1>1 DEF AuditTypes, FileTypes
  <2>2. ShipTypes'
    BY <1>1 DEF AuditTypes, ShipTypes
  <2>3. HistoryTypes'
    BY <1>1 DEF AuditTypes, HistoryTypes
  <2> QED
    BY <2>1, <2>2, <2>3 DEF AuditTypes
<1> QED
  BY <1>1, WriterTypes, ShipperTypes, RestartTypes, CrashTypes DEF Next

\* Every reachable state of the audit log and its export is well typed: the
\* committed offset and the batch in flight never point behind the end of the
\* spool, which trims and compactions cut, and no number passes the number of
\* records.
THEOREM AuditTypeCorrect == Spec => []TypeOK
<1>1. Init => ChainInv /\ AuditTypes
  BY InitChain, InitTypes
<1>2. ChainInv /\ AuditTypes /\ [Next]_vars => ChainInv' /\ AuditTypes'
  BY StepKeepsTypes, StepKeepsChain
<1>3. AuditTypes => TypeOK
  <2> SUFFICES ASSUME AuditTypes PROVE TypeOK
    OBVIOUS
  <2>1. FileTypes /\ ShipTypes /\ HistoryTypes
    BY DEF AuditTypes
  <2>2. /\ native \in Seq(Seq(Line)) /\ spool \in Seq(Line)
        /\ nbuf \in Seq(Record) /\ sbuf \in Seq(Record)
    BY <2>1, StampedLines DEF FileTypes
  <2>3. chain \in [seq : Seqs, prev : Seqs \cup {Broken}]
    <3>1. 0..stamped \subseteq Seqs
      BY <2>1, AuditConstants DEF FileTypes, Numbers, Seqs
    <3> QED
      BY <2>1, <3>1 DEF FileTypes
  <2>4. /\ offset \in 0..Len(spool) /\ ship.end \in 0..Len(spool)
        /\ ship.pc \in {"idle", "read", "export", "truncate", "write"}
        /\ ship.batch \subseteq Ids /\ ship.last \in Seqs
    BY <2>1, SpoolRecords DEF ShipTypes, Ships
  <2> QED
    BY <2>1, <2>2, <2>3, <2>4 DEF FileTypes, ShipTypes, HistoryTypes, TypeOK
<1> QED
  BY <1>1, <1>2, <1>3, PTL DEF Spec

-----------------------------------------------------------------------------
(* Nothing is lost: the records stamped before a break. *)

\* Where a file holds records of the first w.
OldIn(file, w) == {i \in 1..Len(file) : file[i].id \in 1..w}

\* They come first in it, and rise.
OldFirst(file, w) ==
  \A j \in OldIn(file, w) : \A i \in 1..(j - 1) :
    i \in OldIn(file, w) /\ file[i].seq < file[j].seq

\* A cursor at `last`, an offset of `end`, passes over none of them but these.
OldPassed(file, w, last, ids) ==
  \A i \in OldIn(file, w) : file[i].seq <= last => file[i].id \in ids
OldSkipped(file, w, end, ids) ==
  \A i \in OldIn(file, w) : i <= end => file[i].id \in ids

\* Behind the first `cut` lines the other file has the same of them.
OldKept(file, other, w, cut) ==
  /\ \A i \in OldIn(other, w) : i + cut \in 1..Len(file) /\ other[i] = file[i + cut]
  /\ \A k \in OldIn(file, w) : k > cut =>
       k - cut \in 1..Len(other) /\ other[k - cut] = file[k]

OldFiles ==
  /\ whole <= stamped
  /\ \A i \in 1..Len(sbuf) : sbuf[i].id > whole
  /\ OldFirst(spool, whole)
  /\ \A id \in spooled : id <= whole => id \in Done \cup InFile(spool)

OldShip ==
  /\ cursor # NoSeq => OldPassed(spool, whole, cursor, Done)
  /\ disk # NoSeq => OldPassed(spool, whole, disk, Done)
  /\ OldSkipped(spool, whole, offset, Done)
  /\ InFlight => /\ OldPassed(spool, whole, ship.last, Done \cup ship.batch)
                 /\ OldSkipped(spool, whole, ship.end, Done \cup ship.batch)
  /\ ship.pc \in {"truncate", "write"} => ship.batch \subseteq received
  /\ ~Running => cursor = NoSeq /\ offset = 0 /\ ~InFlight /\ sbuf = <<>>

\* After a break the numbers start again, and the cursor passes over new
\* records; the ones from before it are still in order in front of them.
OldInv == ragged => OldFiles /\ OldShip

LEMMA StampedEntries ==
  ASSUME FileTypes
  PROVE  /\ spool \in Seq(Lines) /\ sbuf \in Seq(Entry) /\ Len(spool) \in Nat
         /\ Len(sbuf) \in Nat /\ DOMAIN spool = 1..Len(spool)
         /\ \A i \in 1..Len(spool) : spool[i].id \in Nat /\ spool[i].seq \in Nat
         /\ \A i \in 1..Len(spool) : spool[i].id # 0 => spool[i] # Garbage
<1>1. \A r \in Record : r \in Entry
  BY AuditConstants DEF Record, Entry, Ids, Seqs, Broken
<1>2. Stamped(stamped) \subseteq Entry /\ StampedLine(stamped) \subseteq Lines
  BY <1>1 DEF Stamped, StampedLine, Lines
<1>3. \A S, T : S \subseteq T => Seq(S) \subseteq Seq(T)
  BY SeqMonotonic
<1>4. spool \in Seq(Lines) /\ sbuf \in Seq(Entry)
  BY <1>2, <1>3 DEF FileTypes
<1>5. \A i \in 1..Len(spool) : spool[i] \in Lines
  BY <1>4
<1>6. \A a \in Lines : a.id \in Nat /\ a.seq \in Nat
  BY DEF Lines, Entry, Garbage
<1>7. Garbage.id = 0
  BY DEF Garbage
<1> QED
  BY <1>4, <1>5, <1>6, <1>7

\* What the other file keeps of the first one's properties.
LEMMA OldKeeps ==
  ASSUME NEW file, NEW other, NEW w, NEW cut \in Nat, OldKept(file, other, w, cut),
         Len(file) \in Nat, Len(other) \in Nat
  PROVE  /\ \A i \in OldIn(other, w) : i + cut \in OldIn(file, w) /\ other[i] = file[i + cut]
         /\ OldFirst(file, w) => OldFirst(other, w)
         /\ \A last, ids, more : ids \subseteq more /\ OldPassed(file, w, last, ids) =>
              OldPassed(other, w, last, more)
         /\ cut = 0 => \A end, ids, more :
              ids \subseteq more /\ OldSkipped(file, w, end, ids) => OldSkipped(other, w, end, more)
<1>1. ASSUME NEW i \in OldIn(other, w)
      PROVE  i + cut \in OldIn(file, w) /\ other[i] = file[i + cut] /\ i \in 1..Len(other)
  BY DEF OldKept, OldIn
<1>2. ASSUME OldFirst(file, w), NEW j \in OldIn(other, w), NEW i \in 1..(j - 1)
      PROVE  i \in OldIn(other, w) /\ other[i].seq < other[j].seq
  <2>1. j + cut \in OldIn(file, w) /\ other[j] = file[j + cut] /\ j \in 1..Len(other)
    BY <1>1
  <2>2. i + cut \in 1..((j + cut) - 1) /\ i + cut > cut /\ (i + cut) - cut = i
    BY <2>1
  <2>3. i + cut \in OldIn(file, w) /\ file[i + cut].seq < file[j + cut].seq
    BY <1>2, <2>1, <2>2 DEF OldFirst
  <2>4. (i + cut) - cut \in 1..Len(other) /\ other[(i + cut) - cut] = file[i + cut]
    BY <2>2, <2>3 DEF OldKept
  <2>5. i \in 1..Len(other) /\ other[i] = file[i + cut]
    BY <2>2, <2>4
  <2>6. i \in OldIn(other, w)
    BY <2>3, <2>5 DEF OldIn
  <2> QED
    BY <2>1, <2>3, <2>5, <2>6
<1>3. ASSUME NEW last, NEW ids, NEW more, ids \subseteq more, OldPassed(file, w, last, ids)
      PROVE  OldPassed(other, w, last, more)
  BY <1>1, <1>3 DEF OldPassed
<1>4. ASSUME cut = 0, NEW end, NEW ids, NEW more, ids \subseteq more,
             OldSkipped(file, w, end, ids)
      PROVE  OldSkipped(other, w, end, more)
  <2>1. \A i \in OldIn(other, w) : i + cut = i
    BY <1>1, <1>4
  <2> QED
    BY <1>1, <1>4, <2>1 DEF OldSkipped
<1> QED
  BY <1>1, <1>2, <1>3, <1>4 DEF OldFirst

LEMMA OldSame ==
  ASSUME NEW file, NEW w, Len(file) \in Nat
  PROVE  OldKept(file, file, w, 0)
<1>1. \A i \in OldIn(file, w) : i \in 1..Len(file) /\ i + 0 = i /\ i - 0 = i
  BY DEF OldIn
<1> QED
  BY <1>1 DEF OldKept

\* New records, and garbage, behind a file.
LEMMA OldAppended ==
  ASSUME NEW file \in Seq(Lines), NEW torn \in BOOLEAN, NEW lines \in Seq(Entry), NEW w \in Nat,
         \A i \in 1..Len(lines) : lines[i].id > w
  PROVE  LET after == Appended(file, torn, lines)
         IN /\ OldKept(file, after, w, 0)
            /\ InFile(file) \subseteq InFile(after)
            /\ \A id \in InFile(after) : id <= w => id \in InFile(file)
            /\ Len(after) \in Nat /\ Len(after) = Len(file) + Len(lines)
            /\ after \in Seq(Lines)
            /\ \A i \in 1..Len(file) : after[i] = file[i]
<1> DEFINE after == Appended(file, torn, lines)
<1>1. /\ after \in Seq(Lines)
      /\ Len(after) = Len(file) + Len(lines)
      /\ \A i \in 1..Len(file) : after[i] = file[i]
      /\ \A i \in 1..Len(lines) : after[Len(file) + i] =
           IF torn /\ i = 1 THEN Garbage ELSE lines[i]
  BY AppendedAt
<1> HIDE DEF after
<1>2. Len(file) \in Nat /\ Len(lines) \in Nat /\ Len(after) \in Nat
      /\ DOMAIN file = 1..Len(file) /\ DOMAIN after = 1..Len(after)
  BY <1>1
<1>3. \A i \in 1..Len(lines) : lines[i] \in Entry
  OBVIOUS
<1>4. ASSUME NEW i \in 1..Len(after), i \notin 1..Len(file)
      PROVE  after[i].id = 0 \/ after[i].id > w
  <2> DEFINE k == i - Len(file)
  <2>1. k \in 1..Len(lines) /\ i = Len(file) + k
    BY <1>1, <1>2, <1>4
  <2> HIDE DEF k
  <2>2. after[i] = Garbage \/ after[i] = lines[k]
    BY <1>1, <2>1
  <2> QED
    BY <2>1, <2>2 DEF Garbage
<1>5. ASSUME NEW i \in OldIn(after, w) PROVE i \in 1..Len(file) /\ after[i] = file[i]
  <2>1. i \in 1..Len(after) /\ after[i].id \in 1..w
    BY DEF OldIn
  <2>2. i \in 1..Len(file)
    BY <1>4, <2>1
  <2> QED
    BY <1>1, <2>2
<1>6. OldKept(file, after, w, 0)
  <2>1. \A i \in OldIn(after, w) : i + 0 = i
    BY DEF OldIn
  <2>2. ASSUME NEW k \in OldIn(file, w)
        PROVE  k - 0 \in 1..Len(after) /\ after[k - 0] = file[k]
    <3>1. k \in 1..Len(file) /\ k - 0 = k
      BY DEF OldIn
    <3> QED
      BY <1>1, <1>2, <3>1
  <2> QED
    BY <1>5, <2>1, <2>2 DEF OldKept
<1>7. 1..Len(file) \subseteq 1..Len(after)
  BY <1>1, <1>2
<1>8. InFile(file) \subseteq InFile(after)
  BY <1>1, <1>2, <1>7 DEF InFile
<1>9. ASSUME NEW id \in InFile(after), id <= w PROVE id \in InFile(file)
  <2>1. PICK i \in 1..Len(after) : id = after[i].id /\ id # 0
    BY <1>2 DEF InFile
  <2>2. after[i] \in Lines
    BY <1>1, <1>2
  <2>3. after[i].id \in Nat
    BY <2>2 DEF Lines, Entry, Garbage
  <2>4. i \in 1..Len(file)
    BY <1>4, <1>9, <2>1, <2>3
  <2> QED
    BY <1>1, <1>2, <2>1, <2>4 DEF InFile
<1> QED
  BY <1>1, <1>2, <1>6, <1>8, <1>9 DEF after

\* A step that keeps the files: it leaves the spool, or adds what is new.
LEMMA OldFilesKept ==
  ASSUME FileTypes, FileTypes', HistoryTypes, ragged, OldFiles, whole' = whole,
         stamped <= stamped', Done \subseteq Done',
         \A i \in 1..Len(sbuf') : sbuf'[i].id > whole,
         OldKept(spool, spool', whole, 0),
         InFile(spool) \subseteq InFile(spool'),
         \A id \in spooled' : id <= whole => id \in spooled \cup InFile(spool)
  PROVE  OldFiles'
<1>1. whole \in Nat /\ stamped \in Nat /\ stamped' \in Nat
  BY AuditConstants DEF HistoryTypes, FileTypes, Numbers, NoSeq
<1>2. whole' <= stamped'
  BY <1>1 DEF OldFiles
<1>3. Len(spool) \in Nat /\ Len(spool') \in Nat
  BY DEF FileTypes
<1>4. OldFirst(spool', whole)
  BY <1>3, OldKeeps DEF OldFiles
<1>5. \A id \in spooled' : id <= whole => id \in Done' \cup InFile(spool')
  BY DEF OldFiles
<1> QED
  BY <1>2, <1>4, <1>5 DEF OldFiles

\* The shipper does not move while they are kept.
LEMMA OldShipKept ==
  ASSUME FileTypes, FileTypes', OldShip, whole' = whole, Running, Running',
         UNCHANGED <<cursor, disk, offset, ship, received, dropped, skipped>>,
         OldKept(spool, spool', whole, 0)
  PROVE  OldShip'
<1>1. Len(spool) \in Nat /\ Len(spool') \in Nat
  BY DEF FileTypes
<1>2. /\ \A last, ids : OldPassed(spool, whole, last, ids) => OldPassed(spool', whole, last, ids)
      /\ \A end, ids : OldSkipped(spool, whole, end, ids) => OldSkipped(spool', whole, end, ids)
  BY <1>1, OldKeeps
<1>3. Done' = Done /\ InFlight' = InFlight
  BY DEF Done, InFlight
<1> QED
  BY <1>2, <1>3 DEF OldShip

\* The numbers are sets of naturals, for the leaves below.
LEMMA OldNumbers ==
  ASSUME FileTypes, HistoryTypes, ragged
  PROVE  whole \in Nat /\ stamped \in Nat /\ whole <= MaxRecords
BY AuditConstants DEF HistoryTypes, FileTypes, Numbers, NoSeq, ragged

LEMMA WriterKeepsOld ==
  ASSUME AuditTypes, AuditTypes', ragged, OldFiles, OldShip, Writer
  PROVE  OldFiles' /\ OldShip'
<1>0. FileTypes /\ FileTypes' /\ HistoryTypes /\ ShipTypes
  BY DEF AuditTypes
<1>1. /\ spool \in Seq(Lines) /\ sbuf \in Seq(Entry) /\ Len(spool) \in Nat
      /\ Len(sbuf) \in Nat /\ whole \in Nat /\ stamped \in Nat /\ spoolTorn \in BOOLEAN
  BY <1>0, StampedEntries, OldNumbers DEF FileTypes
<1>2. Running /\ Running' /\ whole' = whole
      /\ UNCHANGED <<cursor, disk, offset, ship, received, dropped, skipped>>
  BY DEF Writer, Write, FlushNative, FlushSpool, Rotate, Running, historyVars, cursorVars
<1>3. Done' = Done
  BY <1>2 DEF Done
<1>4. ASSUME UNCHANGED <<spool, spooled>>, stamped <= stamped',
             \A i \in 1..Len(sbuf') : sbuf'[i].id > whole
      PROVE  OldFiles' /\ OldShip'
  <2>1. OldKept(spool, spool', whole, 0)
    BY <1>1, <1>4, OldSame
  <2> QED
    BY <1>0, <1>2, <1>3, <1>4, <2>1, OldFilesKept, OldShipKept
<1>5. CASE Stamp(chain) /\ UNCHANGED <<spool, spooled>>
  <2> DEFINE r == [id |-> stamped + 1, seq |-> chain.seq, prev |-> chain.prev]
  <2>1. sbuf' = Append(sbuf, r) /\ stamped' = stamped + 1 /\ r.id = stamped + 1
    BY <1>5 DEF Stamp
  <2> HIDE DEF r
  <2>2. /\ Len(sbuf') = Len(sbuf) + 1 /\ sbuf'[Len(sbuf) + 1] = r
        /\ \A i \in 1..Len(sbuf) : sbuf'[i] = sbuf[i]
    BY <1>1, <2>1, AppendProperties
  <2>3. whole < stamped + 1
    BY <1>1 DEF OldFiles
  <2>4. ASSUME NEW i \in 1..Len(sbuf') PROVE sbuf'[i].id > whole
    <3>1. CASE i \in 1..Len(sbuf)
      BY <2>2, <3>1 DEF OldFiles
    <3>2. CASE i \notin 1..Len(sbuf)
      <4>1. i = Len(sbuf) + 1
        BY <1>1, <2>2, <3>2
      <4> QED
        BY <2>1, <2>2, <2>3, <4>1
    <3> QED
      BY <3>1, <3>2
  <2> QED
    BY <1>1, <1>4, <1>5, <2>1, <2>4
<1>6. CASE UNCHANGED <<spool, spooled, sbuf, stamped>>
  BY <1>1, <1>4, <1>6 DEF OldFiles
<1>7. CASE FlushSpool
  <2>1. /\ spool' = Appended(spool, spoolTorn, sbuf) /\ sbuf' = <<>> /\ stamped' = stamped
        /\ spooled' = spooled \cup InFile(spool')
    BY <1>7 DEF FlushSpool, FlushedSpool
  <2>2. /\ OldKept(spool, spool', whole, 0) /\ InFile(spool) \subseteq InFile(spool')
        /\ \A id \in InFile(spool') : id <= whole => id \in InFile(spool)
    BY <1>1, <2>1, OldAppended DEF OldFiles
  <2>3. \A id \in spooled' : id <= whole => id \in spooled \cup InFile(spool)
    BY <2>1, <2>2
  <2>4. \A i \in 1..Len(sbuf') : sbuf'[i].id > whole
    BY <2>1
  <2> QED
    BY <1>0, <1>1, <1>2, <1>3, <2>1, <2>2, <2>3, <2>4, OldFilesKept, OldShipKept
<1>8. ASSUME NEW extra \in 0..MaxRecords, Rotate(extra)
      PROVE  \/ Stamp(chain) /\ UNCHANGED <<spool, spooled>>
             \/ UNCHANGED <<spool, spooled, sbuf, stamped>>
  BY <1>8 DEF Rotate, historyVars
<1>9. Write => Stamp(chain) /\ UNCHANGED <<spool, spooled>>
  BY DEF Write, historyVars
<1>10. FlushNative => UNCHANGED <<spool, spooled, sbuf, stamped>>
  BY DEF FlushNative, historyVars, spoolVars
<1> QED
  BY <1>5, <1>6, <1>7, <1>8, <1>9, <1>10 DEF Writer

\* A line from before the break that the shipper would not send is done.
LEMMA OldFreshOrDone ==
  ASSUME AuditTypes, OldShip, NEW i \in OldIn(spool, whole)
  PROVE  i \in Fresh \/ spool[i].id \in Done
<1>0. FileTypes /\ ShipTypes /\ i \in 1..Len(spool) /\ Len(spool) \in Nat /\ spool[i].id # 0
  BY StampedEntries DEF AuditTypes, OldIn
<1>1. CASE i <= offset
  BY <1>1 DEF OldShip, OldSkipped
<1>2. CASE CoveredBy(cursor, spool[i].seq)
  BY <1>2 DEF OldShip, OldPassed, CoveredBy
<1>3. CASE ~(i <= offset) /\ ~CoveredBy(cursor, spool[i].seq)
  <2>1. i \in (offset + 1)..Len(spool)
    BY <1>0, <1>3 DEF ShipTypes
  <2>2. spool[i] # Garbage
    BY <1>0, StampedEntries
  <2> QED
    BY <1>3, <2>1, <2>2 DEF Fresh, Unshipped
<1> QED
  BY <1>1, <1>2, <1>3

LEMMA TrimKeepsOld ==
  ASSUME AuditTypes, AuditTypes', ragged, OldFiles, OldShip, Trim
  PROVE  OldFiles' /\ OldShip'
<1> DEFINE len == Len(spool)
           half == SpoolCap \div 2
           cut == IF len - offset > SpoolCap THEN len - half ELSE offset
           flushed == Appended(spool, spoolTorn, sbuf)
<1>0. FileTypes /\ FileTypes' /\ HistoryTypes /\ ShipTypes
  BY DEF AuditTypes
<1>1. /\ spool \in Seq(Lines) /\ sbuf \in Seq(Entry) /\ len \in Nat
      /\ whole \in Nat /\ stamped \in Nat /\ spoolTorn \in BOOLEAN
      /\ \A i \in 1..Len(spool) : spool[i].id \in Nat
  BY <1>0, StampedEntries, OldNumbers DEF FileTypes
<1>2. /\ ship.pc = "idle" /\ Running
      /\ spool' = SubSeq(flushed, cut + 1, Len(flushed))
      /\ offset' = IF offset > cut THEN offset - cut ELSE 0
      /\ dropped' = dropped \cup {spool[i].id : i \in {j \in Fresh : j <= cut}}
      /\ spooled' = spooled \cup InFile(flushed)
      /\ sbuf' = <<>>
      /\ ship' = [ship EXCEPT !.pc = "read"]
      /\ UNCHANGED <<wpc, cursor, disk, received, stamped, skipped, whole>>
  BY DEF Trim, FlushedSpool, writerVars
<1>3. offset \in Nat /\ offset <= len /\ SpoolCap \in Nat \ {0} /\ ship \in Ships
  BY <1>0, AuditConstants DEF ShipTypes
<1>4. half \in Nat /\ half <= SpoolCap
  BY <1>3
<1> HIDE DEF half
<1>5. cut \in Nat /\ offset <= cut /\ cut <= len
  BY <1>1, <1>3, <1>4
<1>6. /\ OldKept(spool, flushed, whole, 0)
      /\ \A id \in InFile(flushed) : id <= whole => id \in InFile(spool)
      /\ flushed \in Seq(Lines) /\ Len(flushed) \in Nat /\ len <= Len(flushed)
      /\ \A i \in 1..len : flushed[i] = spool[i]
  BY <1>1, OldAppended DEF OldFiles
<1> HIDE DEF cut, flushed
<1>7. /\ Len(spool') = Len(flushed) - cut
      /\ \A i \in 1..(Len(flushed) - cut) : spool'[i] = flushed[i + cut]
  <2>1. \A i \in (cut + 1)..Len(flushed) : flushed[i] \in Lines
    BY <1>5, <1>6
  <2>2. /\ Len(spool') = IF cut + 1 <= Len(flushed) THEN Len(flushed) - (cut + 1) + 1 ELSE 0
        /\ \A i \in 1..(Len(flushed) - (cut + 1) + 1) : spool'[i] = flushed[(cut + 1) + i - 1]
    BY <1>2, <1>5, <1>6, <2>1, SubSeqProperties
  <2>3. Len(spool') = Len(flushed) - cut
    BY <1>1, <1>5, <1>6, <2>2
  <2>4. ASSUME NEW i \in 1..(Len(flushed) - cut) PROVE spool'[i] = flushed[i + cut]
    <3>1. i \in 1..(Len(flushed) - (cut + 1) + 1) /\ (cut + 1) + i - 1 = i + cut
      BY <1>5, <1>6
    <3>2. spool'[i] = flushed[(cut + 1) + i - 1]
      BY <2>2, <3>1
    <3> QED
      BY <3>1, <3>2
  <2> QED
    BY <2>3, <2>4
<1>8. OldKept(spool, spool', whole, cut)
  <2>1. ASSUME NEW i \in OldIn(spool', whole)
        PROVE  i + cut \in 1..len /\ spool'[i] = spool[i + cut]
    <3>1. i \in 1..Len(spool') /\ i + cut \in 1..Len(flushed) /\ spool'[i] = flushed[i + cut]
      BY <1>5, <1>6, <1>7 DEF OldIn
    <3>2. i + cut \in OldIn(flushed, whole)
      BY <3>1 DEF OldIn
    <3>3. (i + cut) + 0 \in 1..len /\ flushed[i + cut] = spool[(i + cut) + 0]
      BY <1>6, <3>2 DEF OldKept
    <3>4. (i + cut) + 0 = i + cut
      BY <1>5, <3>1
    <3> QED
      BY <3>1, <3>3, <3>4
  <2>2. ASSUME NEW k \in OldIn(spool, whole), k > cut
        PROVE  k - cut \in 1..Len(spool') /\ spool'[k - cut] = spool[k]
    <3>1. k \in 1..len
      BY DEF OldIn
    <3>2. k - cut \in 1..(Len(flushed) - cut) /\ (k - cut) + cut = k
      BY <1>1, <1>5, <1>6, <2>2, <3>1
    <3>3. spool'[k - cut] = flushed[(k - cut) + cut]
      BY <1>7, <3>2
    <3> QED
      BY <1>6, <1>7, <3>1, <3>2, <3>3
  <2> QED
    BY <2>1, <2>2 DEF OldKept
<1>9. Len(spool') \in Nat
  BY <1>0 DEF FileTypes
<1>10. Done \subseteq Done' /\ ~InFlight'
  BY <1>2, <1>3 DEF Done, InFlight, Ships
<1>11. ASSUME NEW k \in OldIn(spool, whole), k <= cut PROVE spool[k].id \in Done'
  <2>1. CASE k \in Fresh
    BY <1>2, <1>11, <2>1 DEF Done
  <2> QED
    BY <1>10, <2>1, OldFreshOrDone
<1>12. ASSUME NEW id \in InFile(spool), id <= whole PROVE id \in Done' \cup InFile(spool')
  <2>1. PICK k \in 1..len : id = spool[k].id /\ id # 0
    BY <1>1 DEF InFile
  <2>2. k \in OldIn(spool, whole)
    BY <1>1, <1>12, <2>1 DEF OldIn
  <2>3. CASE k <= cut
    BY <1>11, <2>1, <2>2, <2>3
  <2>4. CASE k > cut
    <3>1. k - cut \in 1..Len(spool') /\ spool'[k - cut] = spool[k]
      BY <1>8, <2>2, <2>4 DEF OldKept
    <3>2. DOMAIN spool' = 1..Len(spool')
      BY <1>0 DEF FileTypes
    <3> QED
      BY <2>1, <3>1, <3>2 DEF InFile
  <2> QED
    BY <1>1, <1>5, <2>3, <2>4
<1>13. OldFiles'
  <2>1. OldFirst(spool', whole)
    BY <1>1, <1>5, <1>8, <1>9, OldKeeps DEF OldFiles
  <2>2. \A id \in spooled' : id <= whole => id \in Done' \cup InFile(spool')
    BY <1>2, <1>6, <1>10, <1>12 DEF OldFiles
  <2>3. \A i \in 1..Len(sbuf') : sbuf'[i].id > whole
    BY <1>2
  <2> QED
    BY <1>2, <2>1, <2>2, <2>3 DEF OldFiles
<1>14. OldShip'
  <2>1. \A last : OldPassed(spool, whole, last, Done) => OldPassed(spool', whole, last, Done')
    BY <1>1, <1>5, <1>8, <1>9, <1>10, OldKeeps
  <2>2. offset' = 0
    BY <1>2, <1>3, <1>5
  <2>3. OldSkipped(spool', whole, 0, Done')
    BY DEF OldSkipped, OldIn
  <2>4. ship'.pc = "read"
    BY <1>2, <1>3 DEF Ships
  <2> QED
    BY <1>2, <1>10, <2>1, <2>2, <2>3, <2>4 DEF OldShip, Running
<1> QED
  BY <1>13, <1>14

LEMMA ReadKeepsOld ==
  ASSUME AuditTypes, AuditTypes', ragged, OldFiles, OldShip, Read
  PROVE  OldShip'
<1>1. PICK end \in 1..Len(spool), last \in Seqs :
        LET lines == {i \in Fresh : i <= end}
        IN /\ Highest(last, {spool[i].seq : i \in lines})
           /\ ship' = [pc |-> "export", batch |-> {spool[i].id : i \in lines},
                       end |-> end, last |-> last]
  BY DEF Read
<1>2. UNCHANGED <<spool, sbuf, cursor, disk, offset, received, dropped, skipped, whole, wpc>>
      /\ Running
  BY DEF Read, historyVars, cursorVars, spoolVars, writerVars
<1> DEFINE batch == {spool[i].id : i \in {j \in Fresh : j <= end}}
<1>3. ship'.pc = "export" /\ ship'.batch = batch /\ ship'.end = end /\ ship'.last = last
  BY <1>1
<1> HIDE DEF batch
<1>4. FileTypes /\ ShipTypes /\ last \in Nat /\ end \in Nat
  BY AuditConstants DEF AuditTypes, Seqs
<1>5. ASSUME NEW i \in OldIn(spool, whole), i <= end PROVE spool[i].id \in Done \cup batch
  BY <1>5, OldFreshOrDone DEF batch
<1>6. ASSUME NEW i \in OldIn(spool, whole), spool[i].seq <= last
      PROVE  spool[i].id \in Done \cup batch
  <2>1. PICK j \in Fresh : j <= end /\ spool[j].seq = last
    BY <1>1 DEF Highest
  <2>2. j \in 1..Len(spool) /\ i \in 1..Len(spool) /\ Len(spool) \in Nat
        /\ spool[i].seq \in Nat
    BY <1>4, StampedEntries DEF Fresh, ShipTypes, OldIn
  <2>3. CASE i > end
    <3>1. j \in 1..(i - 1)
      BY <1>4, <2>1, <2>2, <2>3
    <3>2. spool[j].seq < spool[i].seq
      BY <3>1 DEF OldFiles, OldFirst
    <3> QED
      BY <1>4, <1>6, <2>1, <2>2, <3>2
  <2> QED
    BY <1>4, <1>5, <2>2, <2>3
<1>7. Done' = Done /\ Running' = Running
  BY <1>2 DEF Done, Running
<1>8. OldPassed(spool, whole, last, Done \cup batch) /\ OldSkipped(spool, whole, end, Done \cup batch)
  BY <1>5, <1>6 DEF OldPassed, OldSkipped
<1> QED
  BY <1>2, <1>3, <1>7, <1>8 DEF OldShip

LEMMA ReadNothingKeepsOld ==
  ASSUME AuditTypes, AuditTypes', ragged, OldFiles, OldShip, ReadNothing
  PROVE  OldFiles' /\ OldShip'
<1>0. FileTypes /\ FileTypes' /\ ShipTypes /\ HistoryTypes /\ Len(spool) \in Nat
      /\ \A i \in 1..Len(spool) : spool[i].id \in Nat
  BY StampedEntries DEF AuditTypes
<1>1. /\ UNCHANGED <<sbuf, cursor, disk, received, dropped, skipped, whole, wpc, stamped, spooled>>
      /\ ship' = IdleShip /\ Running
      /\ \/ offset = Len(spool) /\ spool' = <<>> /\ offset' = 0
         \/ UNCHANGED <<spool, offset>>
  BY DEF ReadNothing, historyVars, writerVars
<1>2. Done' = Done /\ Running' /\ ship'.pc = "idle" /\ ~InFlight'
  BY <1>1 DEF Done, Running, IdleShip, InFlight
<1>3. CASE UNCHANGED <<spool, offset>>
  <2>1. OldFiles'
    BY <1>1, <1>2, <1>3 DEF OldFiles
  <2> QED
    BY <1>1, <1>2, <1>3, <2>1 DEF OldShip
<1>4. CASE offset = Len(spool) /\ spool' = <<>> /\ offset' = 0
  <2>1. OldIn(spool', whole) = {} /\ InFile(spool') = {}
    BY <1>4 DEF OldIn, InFile
  <2>2. ASSUME NEW id \in InFile(spool), id <= whole PROVE id \in Done
    <3>1. PICK k \in 1..Len(spool) : id = spool[k].id /\ id # 0
      BY <1>0 DEF InFile, FileTypes
    <3>2. k \in OldIn(spool, whole) /\ k <= offset
      BY <1>0, <1>4, <2>2, <3>1, OldNumbers DEF OldIn
    <3> QED
      BY <3>1, <3>2 DEF OldShip, OldSkipped
  <2>3. OldFiles'
    BY <1>1, <1>2, <2>1, <2>2 DEF OldFiles, OldFirst
  <2>4. OldShip'
    BY <1>1, <1>2, <1>4, <2>1 DEF OldShip, OldPassed, OldSkipped
  <2> QED
    BY <2>3, <2>4
<1> QED
  BY <1>1, <1>3, <1>4

LEMMA ShipperKeepsOld ==
  ASSUME AuditTypes, AuditTypes', ragged, OldFiles, OldShip, Shipper
  PROVE  OldFiles' /\ OldShip'
<1>1. CASE Trim \/ ReadNothing
  BY <1>1, TrimKeepsOld, ReadNothingKeepsOld
<1>2. CASE Read
  <2>1. UNCHANGED <<spool, sbuf, stamped, spooled, received, dropped, skipped, whole>>
    BY <1>2 DEF Read, historyVars, spoolVars
  <2>2. OldFiles'
    BY <2>1 DEF OldFiles, Done
  <2> QED
    BY <1>2, <2>2, ReadKeepsOld
<1>3. CASE ExportOk \/ ExportFails \/ ExportUnanswered \/ Truncate \/ Advance \/ AdvanceFails
  <2>1. /\ UNCHANGED <<spool, sbuf, stamped, spooled, dropped, skipped, whole, wpc>>
        /\ received \subseteq received'
    BY <1>3 DEF ExportOk, ExportFails, ExportUnanswered, Truncate, Advance, AdvanceFails,
       historyVars, spoolVars, writerVars
  <2>2. Done \subseteq Done' /\ Running' = Running /\ InFlight /\ Running
    BY <1>3, <2>1 DEF Done, Running, OldShip, InFlight, ExportOk, ExportFails,
       ExportUnanswered, Truncate, Advance, AdvanceFails
  <2>3. OldFiles'
    BY <2>1, <2>2 DEF OldFiles
  <2>4. /\ \A last, ids, more : ids \subseteq more /\ OldPassed(spool, whole, last, ids) =>
             OldPassed(spool, whole, last, more)
        /\ \A end, ids, more : ids \subseteq more /\ OldSkipped(spool, whole, end, ids) =>
             OldSkipped(spool, whole, end, more)
    BY DEF OldPassed, OldSkipped
  <2>5. ship \in Ships /\ IdleShip.pc = "idle"
    BY DEF AuditTypes, ShipTypes, IdleShip
  <2>6. CASE ExportOk
    <3>1. /\ received' = received \cup ship.batch /\ UNCHANGED <<cursor, disk, offset>>
          /\ ship' = [ship EXCEPT !.pc = "truncate"]
      BY <2>6 DEF ExportOk, cursorVars
    <3>2. /\ ship'.batch = ship.batch /\ ship'.last = ship.last /\ ship'.end = ship.end
      BY <2>5, <3>1 DEF Ships
    <3>3. Done \cup ship.batch \subseteq Done' \cup ship.batch
      BY <2>2
    <3> QED
      BY <2>1, <2>2, <2>3, <2>4, <3>1, <3>2, <3>3 DEF OldShip
  <2>7. CASE ExportFails \/ ExportUnanswered
    <3>1. UNCHANGED <<cursor, disk, offset>> /\ ship' = IdleShip
      BY <2>7 DEF ExportFails, ExportUnanswered, cursorVars
    <3> QED
      BY <2>1, <2>2, <2>3, <2>4, <2>5, <3>1 DEF OldShip, InFlight
  <2>8. CASE Truncate
    <3>1. /\ UNCHANGED <<cursor, offset, received>> /\ disk' = NoSeq /\ ship.pc = "truncate"
          /\ ship' = [ship EXCEPT !.pc = "write"]
      BY <2>8 DEF Truncate
    <3>2. /\ ship'.batch = ship.batch /\ ship'.last = ship.last /\ ship'.end = ship.end
      BY <2>5, <3>1 DEF Ships
    <3>3. Done' = Done
      BY <2>1, <3>1 DEF Done
    <3> QED
      BY <2>1, <2>2, <2>3, <3>1, <3>2, <3>3 DEF OldShip
  <2>9. CASE Advance \/ AdvanceFails
    <3>1. /\ ship' = IdleShip /\ ship.pc \in {"truncate", "write"} /\ offset' = ship.end
          /\ cursor' \in {cursor, ship.last} /\ disk' \in {disk, ship.last}
          /\ UNCHANGED received
      BY <2>9 DEF Advance, AdvanceFails
    <3>2. Done' = Done /\ Done \cup ship.batch = Done
      BY <2>1, <3>1 DEF Done, OldShip
    <3> QED
      BY <2>1, <2>2, <2>3, <2>5, <3>1, <3>2 DEF OldShip, InFlight
  <2> QED
    BY <1>3, <2>6, <2>7, <2>8, <2>9
<1> QED
  BY <1>1, <1>2, <1>3 DEF Shipper

\* The shipper of a new process: a start at Now has passed over every line.
LEMMA ResumeKeepsOld ==
  ASSUME AuditTypes, ResumeShipper, ~InFlight, UNCHANGED <<spool, ship, received, dropped>>,
         whole' \in Nat, Running',
         OldFirst(spool, whole'),
         disk # NoSeq => OldPassed(spool, whole', disk, Done),
         ship.pc \notin {"truncate", "write"}
  PROVE  OldShip' /\ Done \subseteq Done'
<1>0. FileTypes /\ Len(spool) \in Nat /\ DOMAIN spool = 1..Len(spool)
  BY StampedEntries DEF AuditTypes
<1>1. ~InFlight' /\ ship' = ship
  BY DEF InFlight
<1>2. CASE startAt = "now" /\ disk = NoSeq
  <2>1. skipped' = skipped \cup InFile(spool)
    BY <1>2 DEF ResumeShipper
  <2>2. \A i \in OldIn(spool, whole') : spool[i].id \in InFile(spool)
    BY <1>0 DEF OldIn, InFile
  <2>3. /\ \A last : OldPassed(spool', whole', last, Done')
        /\ \A end : OldSkipped(spool', whole', end, Done')
    BY <2>1, <2>2 DEF OldPassed, OldSkipped, Done
  <2>4. Done \subseteq Done'
    BY <2>1 DEF Done
  <2> QED
    BY <1>1, <2>3, <2>4 DEF OldShip
<1>3. CASE ~(startAt = "now" /\ disk = NoSeq)
  <2>1. offset' = 0 /\ cursor' = disk /\ UNCHANGED <<disk, skipped>>
    BY <1>3 DEF ResumeShipper
  <2>2. Done' = Done
    BY <2>1 DEF Done
  <2>3. OldSkipped(spool, whole', 0, Done)
    BY DEF OldSkipped, OldIn
  <2> QED
    BY <1>1, <2>1, <2>2, <2>3 DEF OldShip
<1> QED
  BY <1>2, <1>3

LEMMA RestartKeepsOld ==
  ASSUME AuditTypes, AuditTypes', ragged, OldFiles, OldShip, Restart \/ RestartBroken
  PROVE  OldFiles' /\ OldShip'
<1>0. /\ FileTypes /\ FileTypes' /\ HistoryTypes
      /\ Len(spool) \in Nat /\ Len(sbuf) \in Nat /\ whole \in Nat /\ stamped \in Nat
  BY StampedEntries, OldNumbers DEF AuditTypes
<1>1. /\ ResumeShipper /\ ~Running /\ Running' /\ whole' = whole
      /\ UNCHANGED <<spool, ship, received, dropped, spooled>>
  BY DEF Restart, RestartBroken, Breaks, spoolVars, Running
<1>2. sbuf = <<>> /\ ~InFlight /\ ship.pc \notin {"truncate", "write"}
  BY <1>1 DEF OldShip, InFlight
<1>3. OldShip' /\ Done \subseteq Done'
  BY <1>0, <1>1, <1>2, ResumeKeepsOld DEF OldShip, OldFiles
<1>4. stamped <= stamped' /\ \A i \in 1..Len(sbuf') : sbuf'[i].id > whole
  <2>1. CASE Restart
    BY <1>0, <1>2, <2>1 DEF Restart, spoolVars
  <2>2. CASE RestartBroken
    <3> DEFINE r == [id |-> stamped + 1, seq |-> 0, prev |-> Broken]
    <3>1. sbuf' = Append(<<>>, r) /\ stamped' = stamped + 1 /\ r.id = stamped + 1
      BY <1>2, <2>2 DEF RestartBroken, Stamp
    <3> HIDE DEF r
    <3>2. sbuf' = <<r>> /\ Len(sbuf') = 1 /\ sbuf'[1] = r
      BY <3>1
    <3>3. whole < stamped + 1
      BY <1>0 DEF OldFiles
    <3> QED
      BY <1>0, <3>1, <3>2, <3>3
  <2> QED
    BY <2>1, <2>2
<1>5. OldKept(spool, spool', whole, 0)
  BY <1>0, <1>1, OldSame
<1>6. OldFiles'
  BY <1>0, <1>1, <1>3, <1>4, <1>5, OldFilesKept
<1> QED
  BY <1>3, <1>6

LEMMA CrashKeepsOld ==
  ASSUME AuditTypes, AuditTypes', ragged, OldFiles, OldShip,
         NEW nKept, NEW nHalf \in BOOLEAN, NEW sKept, NEW sHalf \in BOOLEAN,
         Crash(nKept, nHalf, sKept, sHalf)
  PROVE  OldFiles' /\ OldShip'
<1> DEFINE sLines == SubSeq(sbuf, 1, sKept)
<1>0. /\ FileTypes /\ FileTypes' /\ HistoryTypes
      /\ spool \in Seq(Lines) /\ sbuf \in Seq(Entry) /\ spoolTorn \in BOOLEAN
      /\ Len(spool) \in Nat /\ Len(spool') \in Nat /\ Len(sbuf) \in Nat
      /\ whole \in Nat /\ stamped \in Nat
  BY StampedEntries, OldNumbers DEF AuditTypes, FileTypes
<1>1. /\ sKept \in 0..Len(sbuf)
      /\ spool' = Appended(spool, spoolTorn, sLines)
      /\ spooled' = spooled \cup InFile(spool')
      /\ wpc' = "down" /\ sbuf' = <<>> /\ offset' = 0 /\ cursor' = NoSeq /\ ship' = IdleShip
      /\ UNCHANGED <<disk, received, stamped, dropped, skipped>> /\ whole' = whole
  BY DEF Crash, Breaks
<1>2. /\ sLines \in Seq(Entry) /\ Len(sLines) = sKept
      /\ \A i \in 1..sKept : sLines[i] = sbuf[i]
  <2>1. sKept \in Nat /\ \A i \in 1..sKept : sbuf[i] \in Entry
    BY <1>0, <1>1
  <2>2. /\ sLines \in Seq(Entry) /\ Len(sLines) = (IF 1 <= sKept THEN sKept - 1 + 1 ELSE 0)
        /\ \A i \in 1..(sKept - 1 + 1) : sLines[i] = sbuf[1 + i - 1]
    BY <1>0, <1>1, <2>1, SubSeqProperties
  <2>3. sKept - 1 + 1 = sKept /\ \A i \in 1..sKept : 1 + i - 1 = i
    BY <2>1
  <2> QED
    BY <2>1, <2>2, <2>3
<1> HIDE DEF sLines
<1>3. \A i \in 1..Len(sLines) : sLines[i].id > whole
  BY <1>0, <1>1, <1>2 DEF OldFiles
<1>4. /\ OldKept(spool, spool', whole, 0) /\ InFile(spool) \subseteq InFile(spool')
      /\ \A id \in InFile(spool') : id <= whole => id \in InFile(spool)
  BY <1>0, <1>1, <1>2, <1>3, OldAppended
<1>5. Done' = Done /\ ~InFlight' /\ ~Running' /\ ship'.pc = "idle"
  BY <1>1 DEF Done, InFlight, Running, IdleShip
<1>6. OldFiles'
  <2>1. \A i \in 1..Len(sbuf') : sbuf'[i].id > whole
    BY <1>1
  <2>2. \A id \in spooled' : id <= whole => id \in spooled \cup InFile(spool)
    BY <1>1, <1>4
  <2> QED
    BY <1>0, <1>1, <1>4, <1>5, <2>1, <2>2, OldFilesKept
<1>7. OldShip'
  <2>1. disk # NoSeq => OldPassed(spool', whole, disk, Done)
    BY <1>0, <1>4, OldKeeps DEF OldShip
  <2>2. OldSkipped(spool', whole, 0, Done)
    BY DEF OldSkipped, OldIn
  <2> QED
    BY <1>1, <1>5, <2>1, <2>2 DEF OldShip
<1> QED
  BY <1>6, <1>7

\* At a break every line is from before it, and they rise.
LEMMA RisingOld ==
  ASSUME NEW w \in Nat, NEW file \in Seq(Entry), file \in Seq(StampedLine(w)), Rising(file)
  PROVE  OldFirst(file, w) /\ OldIn(file, w) = 1..Len(file) /\ Len(file) \in Nat
<1>1. Len(file) \in Nat /\ DOMAIN file = 1..Len(file)
  OBVIOUS
<1>2. ASSUME NEW i \in 1..Len(file) PROVE file[i].id \in 1..w
  <2>1. file[i] \in Entry /\ file[i] \in StampedLine(w)
    BY <1>1
  <2>2. file[i] # Garbage
    BY <2>1, Entries
  <2>3. file[i].id <= w /\ file[i].id \in Nat \ {0}
    BY <2>1, <2>2 DEF StampedLine, Stamped, Entry
  <2> QED
    BY <2>3
<1>3. OldIn(file, w) = 1..Len(file)
  BY <1>2 DEF OldIn
<1>4. ASSUME NEW j \in 1..Len(file), NEW i \in 1..(j - 1)
      PROVE  i \in 1..Len(file) /\ file[i].seq < file[j].seq
  <2>1. i \in 1..Len(file) /\ i < j
    BY <1>1
  <2> QED
    BY <1>1, <2>1 DEF Rising
<1> QED
  BY <1>1, <1>3, <1>4 DEF OldFirst

LEMMA RestartBreaks ==
  ASSUME ExportInv, AuditTypes, AuditTypes', ~ragged, RestartBroken
  PROVE  OldFiles' /\ OldShip'
<1> DEFINE r == [id |-> stamped + 1, seq |-> 0, prev |-> Broken]
<1>0. NumberInv /\ OrderInv /\ ShipInv /\ FileTypes /\ stamped \in Nat
  BY AuditConstants DEF ExportInv, AuditTypes, FileTypes, Numbers
<1>1. /\ ResumeShipper /\ ~Running /\ Running' /\ whole' = stamped
      /\ UNCHANGED <<spool, ship, received, dropped, spooled>>
      /\ sbuf' = Append(sbuf, r) /\ stamped' = stamped + 1 /\ r.id = stamped + 1
  BY DEF RestartBroken, Breaks, Stamp, Running
<1> HIDE DEF r
<1>2. sbuf = <<>> /\ ~InFlight /\ ship.pc \notin {"truncate", "write"}
  BY <1>0, <1>1 DEF ShipInv, OrderInv, InFlight
<1>3. spool \in Seq(Entry) /\ spool \in Seq(StampedLine(stamped)) /\ Rising(spool)
  BY <1>0 DEF OrderInv, FileTypes
<1>4. /\ OldFirst(spool, stamped) /\ OldIn(spool, stamped) = 1..Len(spool)
      /\ LinesIn(spool) = {spool[i] : i \in 1..Len(spool)}
  BY <1>0, <1>3, RisingOld DEF LinesIn
<1>5. disk # NoSeq => OldPassed(spool, stamped, disk, Done)
  BY <1>0, <1>4 DEF ShipInv, Passes, OldPassed
<1>6. OldShip' /\ Done \subseteq Done'
  BY <1>0, <1>1, <1>2, <1>4, <1>5, ResumeKeepsOld
<1>7. \A id \in spooled : id \in Done' \cup InFile(spool)
  BY <1>0, <1>3, <1>6, IdsOf DEF ShipInv
<1>8. \A i \in 1..Len(sbuf') : sbuf'[i].id > whole'
  <2>1. sbuf' = Append(<<>>, r)
    BY <1>1, <1>2
  <2>2. Len(sbuf') = 1 /\ sbuf'[1] = r
    BY <2>1
  <2> QED
    BY <1>0, <1>1, <2>2
<1>9. OldFiles'
  BY <1>0, <1>1, <1>4, <1>7, <1>8 DEF OldFiles
<1> QED
  BY <1>6, <1>9

LEMMA CrashBreaks ==
  ASSUME ExportInv, AuditTypes, AuditTypes', ~ragged, ragged',
         NEW nKept, NEW nHalf \in BOOLEAN, NEW sKept, NEW sHalf \in BOOLEAN,
         Crash(nKept, nHalf, sKept, sHalf)
  PROVE  OldFiles' /\ OldShip'
<1> DEFINE sLines == SubSeq(sbuf, 1, sKept)
<1>0. NumberInv /\ OrderInv /\ ShipInv /\ FileTypes /\ FileTypes' /\ stamped \in Nat
  BY AuditConstants DEF ExportInv, AuditTypes, FileTypes, Numbers
<1>1. /\ sKept \in 0..Len(sbuf)
      /\ spool' = Appended(spool, spoolTorn, sLines)
      /\ spooled' = spooled \cup InFile(spool')
      /\ wpc' = "down" /\ sbuf' = <<>> /\ offset' = 0 /\ cursor' = NoSeq /\ ship' = IdleShip
      /\ UNCHANGED <<disk, received, stamped, dropped, skipped>> /\ whole' = stamped
  BY DEF Crash, Breaks, ragged
<1>2. /\ spool \in Seq(Entry) /\ sbuf \in Seq(Entry) /\ Rising(spool) /\ Rising(sbuf)
      /\ ~spoolTorn /\ \A a \in LinesIn(spool), b \in LinesIn(sbuf) : a.seq < b.seq
  BY <1>0 DEF OrderInv
<1>3. sLines \in Seq(Entry) /\ LinesIn(sLines) \subseteq LinesIn(sbuf) /\ Rising(sLines)
  <2>1. 1 \in Nat \ {0} /\ sKept \in Nat /\ sKept <= Len(sbuf)
    BY <1>1, <1>2
  <2> QED
    BY <1>2, <2>1, RisingPart
<1> HIDE DEF sLines
<1>4. spool' = spool \o sLines
  BY <1>1, <1>2 DEF Appended
<1>5. /\ spool' \in Seq(Entry) /\ LinesIn(spool)' = LinesIn(spool) \cup LinesIn(sLines)
      /\ Rising(spool') /\ InFile(spool') = {a.id : a \in LinesIn(spool)'}
  BY <1>2, <1>3, <1>4, LinesInConcat, RisingConcat, IdsOf
<1>6. spool' \in Seq(StampedLine(stamped))
  BY <1>0, <1>1 DEF FileTypes
<1>7. /\ OldFirst(spool', stamped) /\ OldIn(spool', stamped) = 1..Len(spool')
      /\ \A i \in 1..Len(spool') : spool'[i] \in LinesIn(spool)'
  BY <1>0, <1>5, <1>6, RisingOld, LinesInAt
<1>8. Done' = Done /\ ~InFlight' /\ ~Running' /\ ship'.pc = "idle"
  BY <1>1 DEF Done, InFlight, Running, IdleShip
<1>9. OldFiles'
  <2>1. \A id \in spooled' : id \in Done \cup InFile(spool')
    BY <1>0, <1>1, <1>5 DEF ShipInv
  <2>2. \A i \in 1..Len(sbuf') : sbuf'[i].id > whole'
    BY <1>1
  <2> QED
    BY <1>0, <1>1, <1>7, <1>8, <2>1, <2>2 DEF OldFiles
<1>10. OldShip'
  <2>1. ASSUME disk # NoSeq, NEW i \in 1..Len(spool'), spool'[i].seq <= disk
        PROVE  spool'[i].id \in Done
    <3>1. Passes(disk, Done, LinesIn(spool), LinesIn(sbuf), Top)
      BY <1>0, <2>1 DEF ShipInv
    <3>2. spool'[i] \in LinesIn(spool) \cup LinesIn(sbuf) /\ spool'[i].seq \in Nat
      <4>1. spool'[i] \in Entry
        BY <1>5
      <4> QED
        BY <1>3, <1>5, <1>7, <4>1 DEF Entry
    <3> QED
      BY <2>1, <3>1, <3>2 DEF Passes
  <2>2. disk # NoSeq => OldPassed(spool', stamped, disk, Done)
    BY <1>7, <2>1 DEF OldPassed
  <2>3. OldSkipped(spool', stamped, 0, Done)
    BY DEF OldSkipped, OldIn
  <2> QED
    BY <1>1, <1>8, <2>2, <2>3 DEF OldShip
<1> QED
  BY <1>9, <1>10

LEMMA StepKeepsOld ==
  ASSUME ExportInv, AuditTypes, AuditTypes', OldInv, [Next]_vars
  PROVE  OldInv'
<1> SUFFICES ASSUME ragged' PROVE OldFiles' /\ OldShip'
  BY DEF OldInv
<1>1. CASE UNCHANGED vars
  <2>1. UNCHANGED <<wpc, spool, sbuf, offset, cursor, disk, ship, received, stamped, spooled,
                    dropped, skipped, whole>>
    BY <1>1 DEF vars, writerVars, spoolVars, cursorVars, historyVars
  <2>2. Done' = Done /\ Running' = Running /\ InFlight' = InFlight /\ ragged
    BY <2>1 DEF Done, Running, InFlight, ragged
  <2> QED
    BY <2>1, <2>2 DEF OldInv, OldFiles, OldShip
<1>2. CASE Writer \/ Shipper \/ Restart
  <2>1. whole' = whole
    BY <1>2, ZenonT(60) DEF Writer, Shipper, Write, FlushNative, FlushSpool, Rotate, Trim, Read,
       ReadNothing, ExportOk, ExportFails, ExportUnanswered, Truncate, Advance, AdvanceFails,
       Restart, historyVars
  <2>2. ragged
    BY <2>1 DEF ragged
  <2> QED
    BY <1>2, <2>2, WriterKeepsOld, ShipperKeepsOld, RestartKeepsOld DEF OldInv
<1>3. CASE RestartBroken
  BY <1>3, RestartKeepsOld, RestartBreaks DEF OldInv
<1>4. CASE \E nKept, sKept \in Numbers, nHalf, sHalf \in BOOLEAN :
             Crash(nKept, nHalf, sKept, sHalf)
  BY <1>4, CrashKeepsOld, CrashBreaks DEF OldInv
<1> QED
  BY <1>1, <1>2, <1>3, <1>4 DEF Next

LEMMA ExportLosesNothing ==
  ASSUME ExportInv, AuditTypes, OldInv
  PROVE  NothingLost
<1> SUFFICES ASSUME NEW id \in spooled, id <= whole,
                    id \notin received \cup dropped \cup skipped
             PROVE  id \in Pending
  BY DEF NothingLost
<1>1. CASE ~ragged
  <2>0. OrderInv /\ ShipInv
    BY <1>1 DEF ExportInv
  <2>1. PICK a \in LinesIn(spool) : id = a.id
    BY <2>0 DEF ShipInv, Done
  <2>2. PICK i \in 1..Len(spool) : a = spool[i]
    BY <2>0, LinesInAt DEF OrderInv
  <2>3. i \in DOMAIN spool /\ i > offset
    BY <2>0, <2>1, <2>2, LinesInAt DEF OrderInv, ShipInv, Skips, Done
  <2>4. ~CoveredBy(cursor, a.seq) /\ ~CoveredBy(disk, a.seq)
    BY <2>0, <2>1 DEF ShipInv, CoveredBy, Passes, Done
  <2> QED
    BY <2>1, <2>2, <2>3, <2>4 DEF Pending
<1>2. CASE ragged
  <2>0. OldFiles /\ OldShip /\ FileTypes /\ ShipTypes /\ HistoryTypes
    BY <1>2 DEF OldInv, AuditTypes
  <2>1. PICK i \in 1..Len(spool) : id = spool[i].id /\ id # 0
    BY <2>0, StampedEntries DEF OldFiles, Done, InFile
  <2>2. i \in OldIn(spool, whole) /\ i \in DOMAIN spool /\ id \in Nat
    BY <1>2, <2>0, <2>1, StampedEntries, OldNumbers DEF OldIn
  <2>3. i > offset
    BY <2>0, <2>1, <2>2 DEF OldShip, OldSkipped, Done, ShipTypes
  <2>4. ~CoveredBy(cursor, spool[i].seq) /\ ~CoveredBy(disk, spool[i].seq)
    BY <2>0, <2>1, <2>2 DEF OldShip, OldPassed, CoveredBy, Done
  <2> QED
    BY <2>1, <2>2, <2>3, <2>4 DEF Pending
<1> QED
  BY <1>1, <1>2

\* No record is lost between the spool and the collector (shipper.rs,
\* cursor.rs): for every cap, batch size and sequence of crashes, torn lines,
\* restarts that do not find the end of the log, lost answers and failed
\* cursor writes a record that reached the spool, stamped before the first
\* break of the chain, is still ahead of the cursor, with the collector,
\* counted as dropped or skipped on purpose.
THEOREM ExportNeverLoses == Spec => []NothingLost
<1>1. Init => ExportInv /\ AuditTypes /\ OldInv
  <2>1. Init => ~ragged
    BY DEF Init, ragged
  <2> QED
    BY <2>1, InitExport, InitTypes DEF OldInv
<1>2. ExportInv /\ AuditTypes /\ OldInv /\ [Next]_vars => ExportInv' /\ AuditTypes' /\ OldInv'
  BY StepKeepsExport, StepKeepsTypes, StepKeepsOld DEF ExportInv
<1> QED
  BY <1>1, <1>2, ExportLosesNothing, PTL DEF Spec
=============================================================================
