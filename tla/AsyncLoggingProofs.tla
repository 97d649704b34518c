------------------------- MODULE AsyncLoggingProofs -------------------------
(***************************************************************************)
(* AsyncLogging and LogFile for buffers, files and numbers of messages of  *)
(* any size: files roll as they should, every message is logged once and   *)
(* in order or dropped with a notice, and the spare buffers return.        *)
(***************************************************************************)
EXTENDS AsyncLogging, SequenceTheorems, TLAPS

File == [data : Seq(Nat), flushed : Nat, name : Nat]

Log == [closed : Seq(File), file : File, count : Nat, lastRoll : Nat, lastFlush : Nat,
        startOfPeriod : Nat, late : Nat, last : Nat]

\* The state of a LogFile that was appended to no later than now.  count_ also
\* counts the appends after the end of the period, so it bounds them; and once
\* there was one the period has ended for good.
FileRolls(o, t) ==
    /\ o.file.name = o.lastRoll /\ o.startOfPeriod = Period(o.lastRoll)
    /\ o.lastRoll <= o.last /\ o.last <= t
    /\ o.late <= o.count /\ o.count <= CheckTimeRoll + 1
    /\ o.late > 0 => Period(o.last) > o.startOfPeriod
    /\ Len(o.file.data) > RollSize => o.last = o.file.name
    /\ \A i \in DOMAIN o.closed : o.closed[i].name < o.file.name
-----------------------------------------------------------------------------
(* Periods follow each other.                                              *)
LEMMA PeriodMonotone ==
    ASSUME NEW s \in Nat, NEW t \in Nat, s <= t
    PROVE  Period(s) \in Nat /\ Period(t) \in Nat /\ Period(s) <= Period(t)
<1>. DEFINE n == RollPerSeconds
            q == s \div RollPerSeconds
            r == t \div RollPerSeconds
<1>1. n \in Nat /\ n > 0
  BY LogFileAssumption
<1>2. q \in Nat /\ r \in Nat
  BY <1>1
<1>3. q * n <= s /\ t < (r + 1) * n
  BY <1>1
<1>4. q <= r
  <2>1. SUFFICES ASSUME r + 1 <= q PROVE FALSE
    BY <1>2
  <2>2. (r + 1) * n <= q * n
    BY <1>1, <1>2, <2>1
  <2>. QED  BY <1>1, <1>2, <1>3, <2>2
<1>5. q * n <= r * n
  BY <1>1, <1>2, <1>4
<1>. QED  BY <1>1, <1>2, <1>5 DEF Period

-----------------------------------------------------------------------------
(* The types of the fields of a file and of a log.                         *)
LEMMA Fields ==
    /\ \A f \in File : f.data \in Seq(Nat) /\ f.flushed \in Nat /\ f.name \in Nat
    /\ \A o \in Log : /\ o.closed \in Seq(File) /\ o.file \in File /\ o.count \in Nat
                      /\ o.lastRoll \in Nat /\ o.lastFlush \in Nat
                      /\ o.startOfPeriod \in Nat /\ o.late \in Nat /\ o.last \in Nat
<1>1. ASSUME NEW f \in File PROVE f.data \in Seq(Nat) /\ f.flushed \in Nat /\ f.name \in Nat
  BY DEF File
<1>2. ASSUME NEW o \in Log
      PROVE  /\ o.closed \in Seq(File) /\ o.file \in File /\ o.count \in Nat
             /\ o.lastRoll \in Nat /\ o.lastFlush \in Nat
             /\ o.startOfPeriod \in Nat /\ o.late \in Nat /\ o.last \in Nat
  BY DEF Log
<1>. QED  BY <1>1, <1>2

(* A file that is appended to.                                             *)
LEMMA FileAppendIs ==
    ASSUME NEW f \in File, NEW data \in Seq(Nat)
    PROVE  /\ FileAppend(f, data) \in File
           /\ FileAppend(f, data).data = f.data \o data /\ FileAppend(f, data).name = f.name
<1>. f.data \o data \in Seq(Nat)
  BY Fields, ConcatProperties
<1>1. PICK x \in Seq(Nat) : x = f.data \o data
  OBVIOUS
<1>2. /\ [f EXCEPT !.data = x] \in File
      /\ [f EXCEPT !.data = x].data = x /\ [f EXCEPT !.data = x].name = f.name
  BY DEF File
<1>. QED  BY <1>1, <1>2, Zenon DEF FileAppend

(* A file that is flushed.                                                 *)
LEMMA FileFlushIs ==
    ASSUME NEW f \in File
    PROVE  FileFlush(f) \in File /\ FileFlush(f).data = f.data /\ FileFlush(f).name = f.name
<1>1. PICK n \in Nat : n = Len(f.data)
  BY Fields
<1>2. /\ [f EXCEPT !.flushed = n] \in File
      /\ [f EXCEPT !.flushed = n].data = f.data /\ [f EXCEPT !.flushed = n].name = f.name
  BY DEF File
<1>. QED  BY <1>1, <1>2, Zenon DEF FileFlush

\* p is o, but for its file and what the history says of it
SameButFile(o, p) ==
    /\ p.closed = o.closed /\ p.count = o.count /\ p.lastRoll = o.lastRoll
    /\ p.lastFlush = o.lastFlush /\ p.startOfPeriod = o.startOfPeriod

(* The fields of a log whose file was appended to.                         *)
LEMMA GrownIs ==
    ASSUME NEW o \in Log, NEW data \in Seq(Nat), NEW t \in Nat
    PROVE  /\ Grown(o, data, t) \in Log /\ SameButFile(o, Grown(o, data, t))
           /\ Grown(o, data, t).file = FileAppend(o.file, data)
           /\ Grown(o, data, t).last = t
           /\ Grown(o, data, t).late = IF Period(t) # o.startOfPeriod THEN o.late + 1 ELSE o.late
<1>1. PICK f \in File : f = FileAppend(o.file, data)
  BY Fields, FileAppendIs
<1>2. PICK a \in Log : a = [o EXCEPT !.file = f]
  BY DEF Log
<1>3. PICK b \in Log : b = [a EXCEPT !.last = t]
  BY DEF Log
<1>4. o.late \in Nat /\ o.late + 1 \in Nat
  BY Fields
<1>5. (IF Period(t) # o.startOfPeriod THEN o.late + 1 ELSE o.late) \in Nat
  BY <1>4, Zenon
<1>6. PICK n \in Nat : n = IF Period(t) # o.startOfPeriod THEN o.late + 1 ELSE o.late
  BY <1>5, Zenon
<1>7. Grown(o, data, t) = [b EXCEPT !.late = n]
  BY <1>1, <1>2, <1>3, <1>6, Zenon DEF Grown
<1>8. [b EXCEPT !.late = n] \in Log /\ [b EXCEPT !.late = n].late = n
  BY DEF Log
<1>9. SameButFile(o, [b EXCEPT !.late = n])
  BY <1>2, <1>3 DEF Log, SameButFile
<1>10. [b EXCEPT !.late = n].file = f /\ [b EXCEPT !.late = n].last = t
  BY <1>2, <1>3 DEF Log
<1>. QED  BY <1>1, <1>6, <1>7, <1>8, <1>9, <1>10, Zenon

(* The fields of a log that was flushed.                                   *)
LEMMA FlushIs ==
    ASSUME NEW o \in Log
    PROVE  /\ Flush(o) \in Log /\ SameButFile(o, Flush(o))
           /\ Flush(o).file.data = o.file.data /\ Flush(o).file.name = o.file.name
           /\ Flush(o).last = o.last /\ Flush(o).late = o.late
<1>1. PICK f \in File : f = FileFlush(o.file)
  BY Fields, FileFlushIs
<1>2. f.data = o.file.data /\ f.name = o.file.name
  BY <1>1, Fields, FileFlushIs
<1>3. Flush(o) = [o EXCEPT !.file = f]
  BY <1>1, Zenon DEF Flush
<1>4. [o EXCEPT !.file = f] \in Log /\ SameButFile(o, [o EXCEPT !.file = f])
  BY DEF Log, SameButFile
<1>5. /\ [o EXCEPT !.file = f].file = f
      /\ [o EXCEPT !.file = f].last = o.last /\ [o EXCEPT !.file = f].late = o.late
  BY DEF Log
<1>. QED  BY <1>2, <1>3, <1>4, <1>5

(* The fields of a log that has rolled.                                    *)
LEMMA RolledIs ==
    ASSUME NEW o \in Log, NEW t \in Nat, RollsNow(o, t)
    PROVE  /\ RollFile(o, t) \in Log
           /\ RollFile(o, t).closed = Append(o.closed, o.file)
           /\ RollFile(o, t).file = EmptyFile(t) /\ EmptyFile(t) \in File
           /\ RollFile(o, t).lastRoll = t /\ RollFile(o, t).startOfPeriod = Period(t)
           /\ RollFile(o, t).late = 0
           /\ RollFile(o, t).count = o.count /\ RollFile(o, t).last = o.last
<1>1. EmptyFile(t) \in File
  BY DEF EmptyFile, File
<1>2. PICK e \in File : e = EmptyFile(t)
  BY <1>1
<1>. Append(o.closed, o.file) \in Seq(File)
  BY Fields, AppendProperties
<1>3. PICK c \in Seq(File) : c = Append(o.closed, o.file)
  OBVIOUS
<1>4. PICK q \in Nat : q = Period(t)
  BY PeriodMonotone
<1>5. PICK a1 \in Log : a1 = [o EXCEPT !.closed = c]
  BY DEF Log
<1>6. PICK a2 \in Log : a2 = [a1 EXCEPT !.file = e]
  BY DEF Log
<1>7. PICK a3 \in Log : a3 = [a2 EXCEPT !.lastRoll = t]
  BY DEF Log
<1>8. PICK a4 \in Log : a4 = [a3 EXCEPT !.lastFlush = t]
  BY DEF Log
<1>9. PICK a5 \in Log : a5 = [a4 EXCEPT !.startOfPeriod = q]
  BY DEF Log
<1>10. PICK p \in Log : p = [a5 EXCEPT !.late = 0]
  BY DEF Log
<1>11. RollFile(o, t) = p
  BY <1>2, <1>3, <1>4, <1>5, <1>6, <1>7, <1>8, <1>9, <1>10, Zenon DEF RollFile
<1>12. p.closed = c /\ p.file = e /\ p.lastRoll = t
  BY <1>5, <1>6, <1>7, <1>8, <1>9, <1>10 DEF Log
<1>13. p.startOfPeriod = q /\ p.late = 0 /\ p.count = o.count /\ p.last = o.last
  BY <1>5, <1>6, <1>7, <1>8, <1>9, <1>10 DEF Log
<1>. QED  BY <1>1, <1>2, <1>3, <1>4, <1>11, <1>12, <1>13, Zenon
-----------------------------------------------------------------------------
\* p is the log o after data was appended; a new file may have been opened
Extended(o, data, p) ==
    \/ p.closed = o.closed /\ p.file.data = o.file.data \o data
    \/ \E f \in File : /\ p.closed = Append(o.closed, f)
                       /\ f.data = o.file.data \o data
                       /\ p.file.data = <<>>

\* a log between the append to its file and the decision to roll
JustGrown(o, t) ==
    /\ o.file.name = o.lastRoll /\ o.startOfPeriod = Period(o.lastRoll)
    /\ o.lastRoll <= o.last /\ o.last = t
    /\ o.count <= CheckTimeRoll + 1
    /\ o.late > 0 => Period(t) > o.startOfPeriod
    /\ \A i \in DOMAIN o.closed : o.closed[i].name < o.file.name

(* rollFile(), called after an append at time t: a new file has a name of  *)
(* its own, and an old one is kept only in the second it was opened in.    *)
LEMMA RollFileKeeps ==
    ASSUME NEW o \in Log, NEW t \in Nat, JustGrown(o, t)
    PROVE  /\ RollFile(o, t) \in Log /\ FileRolls(RollFile(o, t), t)
           /\ \/ RollFile(o, t) = o
              \/ /\ RollFile(o, t).closed = Append(o.closed, o.file)
                 /\ RollFile(o, t).file.data = <<>>
<1>0. RollSize \in Nat /\ CheckTimeRoll \in Nat
  BY LogFileAssumption
<1>1. CASE RollsNow(o, t)
  <2>1. PICK p \in Log : p = RollFile(o, t)
    BY <1>1, RolledIs
  <2>2. /\ p.closed = Append(o.closed, o.file) /\ p.file = EmptyFile(t)
        /\ p.lastRoll = t /\ p.startOfPeriod = Period(t) /\ p.late = 0
        /\ p.count = o.count /\ p.last = o.last
    BY <1>1, <2>1, RolledIs
  <2>3. t > o.file.name
    BY <1>1 DEF RollsNow, JustGrown
  <2>4. ASSUME NEW i \in DOMAIN p.closed PROVE p.closed[i].name < t
    <3>1. o.closed \in Seq(File) /\ o.file \in File
      BY Fields
    <3>2. CASE i \in DOMAIN o.closed
      <4>1. p.closed[i] = o.closed[i] /\ o.closed[i] \in File
        BY <2>2, <3>1, <3>2, AppendProperties
      <4>. QED  BY <2>3, <3>1, <3>2, <4>1, Fields DEF JustGrown
    <3>3. CASE i \notin DOMAIN o.closed
      <4>1. p.closed[i] = o.file
        BY <2>2, <2>4, <3>1, <3>3, AppendProperties
      <4>. QED  BY <2>3, <4>1
    <3>. QED  BY <3>2, <3>3
  <2>5. p.file.data = <<>> /\ p.file.name = t
    BY <2>2 DEF EmptyFile
  <2>6. FileRolls(p, t)
    <3>1. Len(p.file.data) = 0 /\ p.count \in Nat
      BY <2>5, Fields
    <3>. QED  BY <1>0, <2>2, <2>4, <2>5, <3>1 DEF FileRolls, JustGrown
  <2>. QED  BY <2>1, <2>2, <2>5, <2>6
<1>2. CASE ~ RollsNow(o, t)
  <2>1. RollFile(o, t) = o
    BY <1>2 DEF RollFile
  <2>2. o.lastRoll = t
    BY <1>2, Fields DEF RollsNow, JustGrown
  <2>3. Period(t) \in Nat
    BY PeriodMonotone
  <2>4. o.late = 0 /\ o.count \in Nat
    BY <2>2, <2>3, Fields DEF JustGrown
  <2>. QED  BY <1>0, <2>1, <2>2, <2>4 DEF FileRolls, JustGrown
<1>. QED  BY <1>1, <1>2

(* A log to which data was appended, before it may roll: JustGrown, and    *)
(* the late appends are at most one more than count_.                      *)
LEMMA GrownKeeps ==
    ASSUME NEW o \in Log, NEW data \in Seq(Nat), NEW t \in Nat, FileRolls(o, t)
    PROVE  /\ JustGrown(Grown(o, data, t), t)
           /\ Grown(o, data, t).late <= Grown(o, data, t).count + 1
           /\ Period(t) = Grown(o, data, t).startOfPeriod => Grown(o, data, t).late = 0
           /\ Grown(o, data, t).file.data = o.file.data \o data
<1>1. PICK w \in Log : w = Grown(o, data, t)
  BY GrownIs
<1>2. /\ w.closed = o.closed /\ w.count = o.count /\ w.lastRoll = o.lastRoll
      /\ w.startOfPeriod = o.startOfPeriod /\ w.last = t
      /\ w.late = IF Period(t) # o.startOfPeriod THEN o.late + 1 ELSE o.late
      /\ w.file = FileAppend(o.file, data)
  BY <1>1, GrownIs DEF SameButFile
<1>3. w.file.data = o.file.data \o data /\ w.file.name = o.file.name
  BY <1>2, Fields, FileAppendIs
<1>4. /\ o.lastRoll \in Nat /\ o.last \in Nat /\ o.late \in Nat /\ o.count \in Nat
      /\ o.startOfPeriod \in Nat
  BY Fields
<1>5. o.lastRoll <= o.last /\ o.last <= t /\ o.startOfPeriod = Period(o.lastRoll)
  BY DEF FileRolls
<1>6. /\ Period(o.lastRoll) <= Period(o.last) /\ Period(o.last) <= Period(t)
      /\ Period(t) \in Nat /\ Period(o.last) \in Nat
  BY <1>4, <1>5, PeriodMonotone
<1>7. w.late > 0 => Period(t) > w.startOfPeriod
  BY <1>2, <1>4, <1>5, <1>6 DEF FileRolls
<1>8. w.late <= w.count + 1 /\ (Period(t) = w.startOfPeriod => w.late = 0)
  BY <1>2, <1>4, <1>5, <1>6 DEF FileRolls
<1>9. JustGrown(w, t)
  BY <1>2, <1>3, <1>4, <1>5, <1>7 DEF JustGrown, FileRolls
<1>. QED  BY <1>1, <1>3, <1>8, <1>9

(* append_unlocked() keeps the state of a LogFile in order, whichever of   *)
(* its ways it takes, and what it is given comes after all the rest.       *)
LEMMA AppendKeeps ==
    ASSUME NEW o \in Log, NEW data \in Seq(Nat), NEW t \in Nat, FileRolls(o, t)
    PROVE  /\ AppendUnlocked(o, data, t) \in Log
           /\ FileRolls(AppendUnlocked(o, data, t), t)
           /\ Extended(o, data, AppendUnlocked(o, data, t))
<1>. DEFINE p == AppendUnlocked(o, data, t)
<1>0. RollSize \in Nat /\ CheckTimeRoll \in Nat
  BY LogFileAssumption
<1>1. PICK w \in Log : w = Grown(o, data, t)
  BY GrownIs
<1>2. /\ JustGrown(w, t) /\ w.late <= w.count + 1 /\ (Period(t) = w.startOfPeriod => w.late = 0)
      /\ w.file.data = o.file.data \o data /\ w.closed = o.closed
  BY <1>1, GrownKeeps, GrownIs DEF SameButFile
<1>3. PICK checked \in Log : checked = [w EXCEPT !.count = 0]
  BY DEF Log
<1>4. /\ checked.count = 0 /\ checked.closed = w.closed /\ checked.file = w.file
      /\ checked.lastRoll = w.lastRoll /\ checked.startOfPeriod = w.startOfPeriod
      /\ checked.late = w.late /\ checked.last = w.last
  BY <1>3 DEF Log
<1>5. w.count \in Nat /\ w.late \in Nat /\ w.file \in File /\ Len(w.file.data) \in Nat
  BY Fields
<1>6. /\ Len(w.file.data) > RollSize => p = RollFile(w, t)
      /\ Len(w.file.data) <= RollSize /\ w.count <= CheckTimeRoll => p = [w EXCEPT !.count = @ + 1]
      /\ Len(w.file.data) <= RollSize /\ w.count > CheckTimeRoll =>
           p = CASE Period(t) # w.startOfPeriod -> RollFile(checked, t)
                 [] Period(t) = w.startOfPeriod /\ t - w.lastFlush > FlushInterval
                      -> [Flush(checked) EXCEPT !.lastFlush = t]
                 [] OTHER -> checked
  BY <1>0, <1>1, <1>3, <1>5 DEF AppendUnlocked
<1>7. CASE Len(w.file.data) > RollSize
  <2>1. p = RollFile(w, t)
    BY <1>6, <1>7
  <2>2. p \in Log /\ FileRolls(p, t)
    BY <1>2, <2>1, RollFileKeeps
  <2>3. p = w \/ (p.closed = Append(w.closed, w.file) /\ p.file.data = <<>>)
    BY <1>2, <2>1, RollFileKeeps
  <2>. HIDE DEF p
  <2>4. Extended(o, data, p)
    BY <1>2, <1>5, <2>3 DEF Extended
  <2>. QED  BY <2>2, <2>4 DEF p
<1>8. CASE Len(w.file.data) <= RollSize /\ w.count <= CheckTimeRoll
  <2>0. PICK n \in Nat : n = w.count + 1
    BY <1>5
  <2>1. PICK q \in Log : q = [w EXCEPT !.count = n]
    BY DEF Log
  <2>2. /\ q.count = w.count + 1 /\ q.closed = w.closed /\ q.file = w.file
        /\ q.lastRoll = w.lastRoll /\ q.startOfPeriod = w.startOfPeriod /\ q.late = w.late
        /\ q.last = w.last
    BY <2>0, <2>1 DEF Log
  <2>3. FileRolls(q, t)
    <3>1. q.late <= q.count /\ q.count <= CheckTimeRoll + 1
      BY <1>0, <1>2, <1>5, <1>8, <2>2
    <3>2. Len(q.file.data) <= RollSize /\ Len(q.file.data) \in Nat
      BY <1>5, <1>8, <2>2
    <3>3. ~ (Len(q.file.data) > RollSize)
      BY <1>0, <3>2
    <3>. QED  BY <1>2, <2>2, <3>1, <3>3, t <= t DEF FileRolls, JustGrown
  <2>4. p = q
    BY <1>6, <1>8, <2>0, <2>1
  <2>. QED  BY <1>2, <2>2, <2>3, <2>4 DEF Extended
<1>9. CASE Len(w.file.data) <= RollSize /\ w.count > CheckTimeRoll
  <2>1. JustGrown(checked, t)
    BY <1>0, <1>2, <1>4 DEF JustGrown
  <2>2. CASE Period(t) # w.startOfPeriod
    <3>1. p = RollFile(checked, t)
      BY <1>6, <1>9, <2>2
    <3>2. p \in Log /\ FileRolls(p, t)
      BY <2>1, <3>1, RollFileKeeps
    <3>3. p = checked \/ (p.closed = Append(checked.closed, checked.file) /\ p.file.data = <<>>)
      BY <2>1, <3>1, RollFileKeeps
    <3>. HIDE DEF p
    <3>4. Extended(o, data, p)
      BY <1>2, <1>4, <1>5, <3>3 DEF Extended
    <3>. QED  BY <3>2, <3>4 DEF p
  <2>3. CASE Period(t) = w.startOfPeriod /\ t - w.lastFlush > FlushInterval
    <3>1. p = [Flush(checked) EXCEPT !.lastFlush = t]
      BY <1>6, <1>9, <2>3
    <3>2. PICK g \in Log : g = Flush(checked)
      BY FlushIs
    <3>3. /\ g.closed = w.closed /\ g.count = 0 /\ g.lastRoll = w.lastRoll
          /\ g.startOfPeriod = w.startOfPeriod /\ g.late = w.late /\ g.last = w.last
          /\ g.file.data = w.file.data /\ g.file.name = w.file.name
      BY <1>4, <3>2, FlushIs DEF SameButFile
    <3>4. PICK q \in Log : q = [g EXCEPT !.lastFlush = t]
      BY DEF Log
    <3>5. /\ q.closed = g.closed /\ q.count = g.count /\ q.lastRoll = g.lastRoll
          /\ q.startOfPeriod = g.startOfPeriod /\ q.late = g.late /\ q.last = g.last
          /\ q.file = g.file
      BY <3>4 DEF Log
    <3>6. FileRolls(q, t)
      BY <1>0, <1>2, <1>9, <2>3, <3>3, <3>5 DEF FileRolls, JustGrown
    <3>. QED  BY <1>2, <3>1, <3>2, <3>3, <3>4, <3>5, <3>6 DEF Extended
  <2>4. CASE Period(t) = w.startOfPeriod /\ ~ (t - w.lastFlush > FlushInterval)
    <3>1. p = checked
      BY <1>6, <1>9, <2>4
    <3>2. FileRolls(checked, t)
      BY <1>0, <1>2, <1>4, <1>9, <2>4 DEF FileRolls, JustGrown
    <3>. QED  BY <1>2, <1>4, <3>1, <3>2 DEF Extended
  <2>. QED  BY <2>2, <2>3, <2>4
<1>. QED  BY <1>0, <1>5, <1>7, <1>8, <1>9
-----------------------------------------------------------------------------
(* The buffers and the back end.                                           *)

Phases == {"unborn", "begun", "opening", "test", "take", "waiting", "woken", "write", "done"}

Types ==
    /\ current \in Seq(Nat) /\ buffers \in Seq(Seq(Nat)) /\ toWrite \in Seq(Seq(Nat))
    /\ next \in {None, <<>>} /\ new1 \in {None, <<>>} /\ new2 \in {None, <<>>}
    /\ written \in 0 .. Len(toWrite)
    /\ bpc \in [{0} -> Phases]
    /\ output \in Log
    /\ now \in Nat /\ appended \in Nat

\* buffersToWrite holds something only after the exchange, and nothing was
\* written of a vector that is too long
WritesLocally ==
    /\ backEnd # "write" => toWrite = <<>>
    /\ Len(toWrite) > MaxBuffers => written = 0

\* the log file is new until the back end has opened it
Unopened ==
    backEnd \in {"unborn", "begun", "opening"} => output.closed = <<>> /\ output.file.data = <<>>

\* what the state of the buffers and of the log needs to go on as it should
Sound == Types /\ SparesReturn /\ WritesLocally /\ Unopened /\ FileRolls(output, now)

(* Condition::notify() wakes the back end if it waits.                     *)
LEMMA NotifyIs ==
    ASSUME bpc \in [{0} -> Phases], bpc' \in Notify(bpc)
    PROVE  /\ bpc' \in [{0} -> Phases]
           /\ backEnd' = backEnd \/ (backEnd = "waiting" /\ backEnd' = "woken")
<1>1. CASE Waiting(bpc) = {}
  BY <1>1 DEF Notify, backEnd
<1>2. CASE Waiting(bpc) # {}
  <2>1. PICK t \in Waiting(bpc) : bpc' = [bpc EXCEPT ![t] = "woken"]
    BY <1>2 DEF Notify
  <2>2. t = 0 /\ bpc[0] = "waiting"
    BY DEF Waiting
  <2>. QED  BY <2>1, <2>2 DEF backEnd, Phases
<1>. QED  BY <1>1, <1>2

(* A step of the back end to another point.                                *)
LEMMA GoesIs ==
    ASSUME bpc \in [{0} -> Phases], NEW from, NEW to \in Phases, BackEndGoes(from, to)
    PROVE  bpc' \in [{0} -> Phases] /\ backEnd = from /\ backEnd' = to
BY DEF BackEndGoes, backEnd

\* a step that moves no buffer, message or file
Idle == UNCHANGED <<front, new1, new2, toWrite, written, output, now, history>>

(* Steps that move no buffer.                                              *)
LEMMA IdleKeeps ==
    ASSUME Sound, Idle, bpc' \in [{0} -> Phases],
           \/ backEnd' = backEnd
           \/ {backEnd, backEnd'} \subseteq {"test", "take", "waiting", "woken", "done"} /\ backEnd # "done"
           \/ {backEnd, backEnd'} \subseteq {"unborn", "begun", "opening"}
    PROVE  Sound'
BY DEF Sound, Idle, Types, SparesReturn, WritesLocally, Unopened, FileRolls, front, history

(* The front end.                                                          *)
LEMMA AppendToCurrentKeeps == Sound /\ AppendToCurrent => Sound'
<1> SUFFICES ASSUME Sound, AppendToCurrent PROVE Sound'
  OBVIOUS
<1>1. current' \in Seq(Nat) /\ appended' \in Nat
  BY DEF AppendToCurrent, Sound, Types
<1>. QED
  BY <1>1 DEF Sound, AppendToCurrent, Types, SparesReturn, WritesLocally, Unopened, FileRolls,
              back, backEnd

LEMMA AppendToNextKeeps == Sound /\ AppendToNext => Sound'
<1> SUFFICES ASSUME Sound, AppendToNext PROVE Sound'
  OBVIOUS
<1>0. (IF next # None THEN next ELSE <<>>) = <<>>
  BY DEF Sound, Types
<1>1. current' \in Seq(Nat) /\ appended' \in Nat /\ next' = None
  <2>1. current' = Append(<<>>, appended + 1) /\ appended' = appended + 1 /\ next' = None
    BY <1>0, Zenon DEF AppendToNext
  <2>. QED  BY <2>1 DEF Sound, Types
<1>2. buffers' \in Seq(Seq(Nat)) /\ buffers' # <<>>
  BY DEF AppendToNext, Sound, Types
<1>3. bpc' \in [{0} -> Phases] /\ (backEnd' = backEnd \/ (backEnd = "waiting" /\ backEnd' = "woken"))
  BY NotifyIs DEF AppendToNext, Sound, Types
<1>4. UNCHANGED <<new1, new2, toWrite, written, output, now>>
  BY DEF AppendToNext
<1>. QED
  BY <1>1, <1>2, <1>3, <1>4 DEF Sound, Types, SparesReturn, WritesLocally, Unopened, FileRolls

(* The back end opens the log file.                                        *)
LEMMA OpenKeeps == Sound /\ Open => Sound'
<1> SUFFICES ASSUME Sound, Open PROVE Sound'
  OBVIOUS
<1>1. bpc' \in [{0} -> Phases] /\ backEnd = "opening" /\ backEnd' = "test"
  BY GoesIs DEF Open, Sound, Types, Phases
<1>2. NewLogFile(now) \in Log /\ FileRolls(NewLogFile(now), now)
  <2>1. EmptyFile(now) \in File /\ Period(now) \in Nat
    BY PeriodMonotone DEF EmptyFile, File, Sound, Types
  <2>2. NewLogFile(now) \in Log
    BY <2>1 DEF NewLogFile, Log, Sound, Types
  <2>3. Len(EmptyFile(now).data) = 0 /\ EmptyFile(now).name = now
    BY DEF EmptyFile
  <2>. QED  BY <2>2, <2>3, LogFileAssumption DEF NewLogFile, FileRolls, Sound, Types
<1>3. /\ output' = NewLogFile(now) /\ new1' = <<>> /\ new2' = <<>>
      /\ UNCHANGED <<current, next, buffers, toWrite, written, now, appended>>
  BY DEF Open, front, history
<1>. QED
  BY <1>1, <1>2, <1>3 DEF Sound, Types, SparesReturn, WritesLocally, Unopened

(* A log that is flushed is as it was, for what we ask of it.              *)
LEMMA FlushKeeps ==
    ASSUME NEW o \in Log, NEW t \in Nat, FileRolls(o, t)
    PROVE  Flush(o) \in Log /\ FileRolls(Flush(o), t)
BY FlushIs DEF FileRolls, SameButFile

(* The back end looks at running_.                                         *)
LEMMA TestKeeps == Sound /\ Test => Sound'
<1> SUFFICES ASSUME Sound, Test PROVE Sound'
  OBVIOUS
<1>1. /\ bpc' \in [{0} -> Phases] /\ backEnd = "test" /\ backEnd' \in {"take", "done"}
      /\ output' = output \/ output' = Flush(output)
      /\ UNCHANGED <<current, next, buffers, new1, new2, toWrite, written, now, appended>>
  BY GoesIs DEF Test, Sound, Types, Phases, front, history
<1>2. output' \in Log /\ FileRolls(output', now)
  BY <1>1, FlushKeeps DEF Sound, Types
<1>. QED
  BY <1>1, <1>2 DEF Sound, Types, SparesReturn, WritesLocally, Unopened

(* The exchange: the back end gives away as many empty buffers as it takes *)
(* full ones, or fewer.                                                    *)
LEMMA SwapKeeps == Sound /\ Swap => Sound'
<1> SUFFICES ASSUME Sound, Swap PROVE Sound'
  OBVIOUS
<1>1. /\ bpc' \in [{0} -> Phases] /\ backEnd \in {"take", "woken"} /\ backEnd' = "write"
      /\ new1 = <<>> /\ new2 = <<>> /\ toWrite = <<>> /\ written = 0
  BY DEF Swap, Sound, Types, Phases, SparesReturn, backEnd
<1>2. /\ toWrite' \in Seq(Seq(Nat)) /\ Len(toWrite') = Len(buffers) + 1
      /\ written' = 0 /\ written' \in 0 .. Len(toWrite')
  BY <1>1 DEF Swap, Sound, Types
<1>3. /\ current' = <<>> /\ current' \in Seq(Nat) /\ new1' = None
      /\ next' = <<>> /\ new2' = IF next = None THEN None ELSE <<>>
  BY <1>1, AsyncAssumption DEF Swap, SpareAfterSwap, Sound, Types
<1>4. next = None => Len(buffers) >= 1
  BY DEF Sound, SparesReturn, Types
<1>5. Len(toWrite') >= IF new2' = None THEN 2 ELSE 1
  BY <1>2, <1>3, <1>4, AsyncAssumption DEF Sound, Types
<1>6. /\ buffers' = <<>> /\ buffers' \in Seq(Seq(Nat))
      /\ UNCHANGED <<output, now, appended>>
  BY DEF Swap, history
<1>7. Types'
  BY <1>1, <1>2, <1>3, <1>6 DEF Sound, Types
<1>8. SparesReturn' /\ WritesLocally' /\ Unopened'
  BY <1>1, <1>2, <1>3, <1>5, AsyncAssumption DEF SparesReturn, WritesLocally, Unopened
<1>. QED
  BY <1>6, <1>7, <1>8 DEF Sound

(* Too many buffers: two are left, enough for the spare ones.              *)
LEMMA DropKeeps == Sound /\ Drop => Sound'
<1> SUFFICES ASSUME Sound, Drop PROVE Sound'
  OBVIOUS
<1>1. <<Notice>> \in Seq(Nat)
  BY DEF Notice
<1>2. output' \in Log /\ FileRolls(output', now)
  BY <1>1, AppendKeeps DEF Drop, Sound, Types
<1>3. toWrite' \in Seq(Seq(Nat)) /\ Len(toWrite') = 2
  BY AsyncAssumption, SubSeqProperties DEF Drop, Kept, Sound, Types
<1>4. /\ written = 0
      /\ UNCHANGED <<current, next, buffers, bpc, new1, new2, written, now, appended>>
  BY DEF Drop, Sound, WritesLocally, front
<1>5. backEnd = "write" /\ backEnd' = "write"
  BY <1>4 DEF Drop, backEnd
<1>. QED
  BY <1>2, <1>3, <1>4, <1>5, AsyncAssumption DEF Sound, Types, SparesReturn, WritesLocally, Unopened

(* One buffer is written.                                                  *)
LEMMA WriteKeeps == Sound /\ Write => Sound'
<1> SUFFICES ASSUME Sound, Write PROVE Sound'
  OBVIOUS
<1>1. toWrite[written + 1] \in Seq(Nat) /\ written' \in 0 .. Len(toWrite)
  BY DEF Write, Sound, Types
<1>2. output' \in Log /\ FileRolls(output', now)
  BY <1>1, AppendKeeps DEF Write, Sound, Types
<1>3. /\ Len(toWrite) <= MaxBuffers
      /\ UNCHANGED <<current, next, buffers, bpc, new1, new2, toWrite, now, appended>>
  BY DEF Write, front, history
<1>4. backEnd = "write" /\ backEnd' = "write"
  BY <1>3 DEF Write, backEnd
<1>. QED
  BY <1>1, <1>2, <1>3, <1>4, AsyncAssumption DEF Sound, Types, SparesReturn, WritesLocally, Unopened

(* Without its last element a sequence of two or more is not empty.        *)
LEMMA FrontNotEmpty ==
    ASSUME NEW S, NEW s \in Seq(S), Len(s) >= 2
    PROVE  Front(s) # <<>>
<1>1. Len(s) \in Nat /\ \A i \in 1 .. Len(s) - 1 : s[i] \in S
  OBVIOUS
<1>2. Front(s) \in Seq(S) /\ Len(Front(s)) >= 1
  BY <1>1, SubSeqProperties DEF Front
<1>. QED  BY <1>2, EmptySeq

(* The written buffers become the spare ones again.                        *)
LEMMA RecycleKeeps == Sound /\ Recycle => Sound'
<1> SUFFICES ASSUME Sound, Recycle PROVE Sound'
  OBVIOUS
<1>1. bpc' \in [{0} -> Phases] /\ backEnd = "write" /\ backEnd' = "test"
  BY GoesIs DEF Recycle, Sound, Types, Phases
<1>. DEFINE bs == IF Len(toWrite) > 2 THEN SubSeq(toWrite, 1, 2) ELSE toWrite
<1>2. bs \in Seq(Seq(Nat)) /\ Len(bs) >= IF new2 = None THEN 2 ELSE 1
  BY <1>1, SubSeqProperties DEF Sound, Types, SparesReturn
<1>3. new1 = None /\ bs # <<>>
  BY <1>1, <1>2 DEF Sound, SparesReturn
<1>4. ASSUME new2 = None PROVE Front(bs) # <<>>
  <2>1. PICK s \in Seq(Seq(Nat)) : s = bs
    BY <1>2
  <2>2. Len(s) >= 2
    BY <1>2, <1>4, <2>1
  <2>. QED  BY <2>1, <2>2, FrontNotEmpty
<1>5. new1' = <<>>
  BY <1>3 DEF Recycle, Reset
<1>6. new2' = <<>>
  BY <1>3, <1>4 DEF Recycle, Reset, Sound, Types
<1>7. output' \in Log /\ FileRolls(output', now)
  BY FlushKeeps DEF Recycle, Sound, Types
<1>8. /\ toWrite' = <<>> /\ written' = 0
      /\ UNCHANGED <<current, next, buffers, now, appended>>
  BY DEF Recycle, front, history
<1>. QED
  BY <1>1, <1>5, <1>6, <1>7, <1>8, AsyncAssumption
  DEF Sound, Types, SparesReturn, WritesLocally, Unopened

(* Every step keeps the buffers and the log sound.                         *)
LEMMA SoundStep == Sound /\ [Next]_vars => Sound'
<1> SUFFICES ASSUME Sound, [Next]_vars PROVE Sound'
  OBVIOUS
<1>0. bpc \in [{0} -> Phases]
  BY DEF Sound, Types
<1>1. CASE CountDown \/ Wait \/ WaitEnds \/ Start
  <2>1. Idle
    BY <1>1 DEF CountDown, Wait, WaitEnds, Start, Idle, front, history
  <2>2. /\ bpc' \in [{0} -> Phases]
        /\ \/ backEnd = "begun" /\ backEnd' = "opening"
           \/ backEnd = "take" /\ backEnd' = "waiting"
           \/ backEnd = "waiting" /\ backEnd' = "woken"
           \/ backEnd = "unborn" /\ backEnd' = "begun"
    BY <1>0, <1>1, GoesIs DEF CountDown, Wait, WaitEnds, Start, Phases
  <2>. QED  BY <2>1, <2>2, IdleKeeps
<1>2. CASE Started \/ Stop \/ Join \/ UNCHANGED vars
  <2>1. Idle /\ bpc' = bpc
    BY <1>2 DEF Started, Stop, Join, Idle, front, back, history, vars
  <2>. QED  BY <1>0, <2>1, IdleKeeps DEF backEnd
<1>3. CASE StopNotifies
  <2>1. Idle /\ bpc' \in [{0} -> Phases]
    BY <1>0, <1>3, NotifyIs DEF StopNotifies, Idle, front, history
  <2>2. backEnd' = backEnd \/ (backEnd = "waiting" /\ backEnd' = "woken")
    BY <1>0, <1>3, NotifyIs DEF StopNotifies
  <2>. QED  BY <2>1, <2>2, IdleKeeps
<1>4. CASE Tick
  <2>1. now' = now + 1 /\ UNCHANGED <<front, back, history>>
    BY <1>4 DEF Tick
  <2>2. FileRolls(output, now + 1)
    BY Fields DEF Sound, Types, FileRolls
  <2>. QED
    BY <2>1, <2>2 DEF Sound, Types, SparesReturn, WritesLocally, Unopened, front, back, history, backEnd
<1>. QED
  BY <1>1, <1>2, <1>3, <1>4, AppendToCurrentKeeps, AppendToNextKeeps, OpenKeeps, TestKeeps,
     SwapKeeps, DropKeeps, WriteKeeps, RecycleKeeps
  DEF Next, BackEndStep, OwnerStep

(* So they are in the initial state.                                       *)
LEMMA SoundInit == Init => Sound
<1> SUFFICES ASSUME Init PROVE Sound
  OBVIOUS
<1>1. EmptyFile(1) \in File /\ Period(1) \in Nat
  BY PeriodMonotone DEF EmptyFile, File
<1>2. NewLogFile(1) \in Log
  BY <1>1 DEF NewLogFile, Log
<1>3. Len(EmptyFile(1).data) = 0 /\ EmptyFile(1).name = 1 /\ EmptyFile(1).data = <<>>
  BY DEF EmptyFile
<1>4. FileRolls(output, now) /\ Unopened
  BY <1>2, <1>3, LogFileAssumption DEF Init, NewLogFile, FileRolls, Unopened
<1>5. Types
  BY <1>2 DEF Init, Types, Phases
<1>. QED
  BY <1>4, <1>5, AsyncAssumption DEF Init, Sound, SparesReturn, WritesLocally, backEnd

(* And in every reachable one.                                             *)
LEMMA SoundInvariant == Spec => []Sound
BY SoundInit, SoundStep, PTL DEF Spec

(* Whatever the sizes and the times of the appends, a log file that is too *)
(* large takes appends only in the second of its name, no two files share  *)
(* a name, and rollFile comes within kCheckTimeRoll_ + 2 appends of the    *)
(* end of a period.                                                        *)
THEOREM LogFilesRoll == Spec => []FilesRoll
<1>1. Sound => FilesRoll
  <2>1. Sound => output.late \in Nat /\ output.count \in Nat /\ CheckTimeRoll \in Nat
    BY Fields, LogFileAssumption DEF Sound, Types
  <2>. QED  BY <2>1 DEF Sound, FileRolls, FilesRoll
<1>. QED  BY <1>1, SoundInvariant, PTL
-----------------------------------------------------------------------------
(* Order and contents of a stream of messages that is cut into pieces.     *)

Pieces == Seq(Seq(Nat))

\* the messages in the pieces bs are older than those in cs
Before(bs, cs) ==
    \A m \in Messages(bs) \ {Notice}, n \in Messages(cs) \ {Notice} : m < n

(* What a message of some pieces is.                                       *)
LEMMA MessagesOf ==
    ASSUME NEW bs, NEW m
    PROVE  m \in Messages(bs) <=> \E j \in DOMAIN bs : \E a \in DOMAIN bs[j] : m = bs[j][a]
BY DEF Messages

(* Messages are numbers.                                                   *)
LEMMA MessagesType ==
    ASSUME NEW bs \in Pieces
    PROVE  Messages(bs) \subseteq Nat
<1> SUFFICES ASSUME NEW m \in Messages(bs) PROVE m \in Nat
  OBVIOUS
<1>1. PICK j \in DOMAIN bs : \E a \in DOMAIN bs[j] : m = bs[j][a]
  BY MessagesOf
<1>2. bs[j] \in Seq(Nat)
  BY DEF Pieces
<1>. QED  BY <1>1, <1>2

(* A piece of a concatenation is a piece of one of its parts.              *)
LEMMA JoinIndex ==
    ASSUME NEW S, NEW x \in Seq(S), NEW y \in Seq(S)
    PROVE  /\ \A i \in DOMAIN x : i \in DOMAIN (x \o y) /\ (x \o y)[i] = x[i]
           /\ \A i \in DOMAIN y : Len(x) + i \in DOMAIN (x \o y) /\ (x \o y)[Len(x) + i] = y[i]
           /\ \A i \in DOMAIN (x \o y) : i \notin DOMAIN x =>
                 i - Len(x) \in DOMAIN y /\ (x \o y)[i] = y[i - Len(x)]
BY ConcatProperties

(* The messages of two runs of pieces.                                     *)
LEMMA JoinMessages ==
    ASSUME NEW x \in Pieces, NEW y \in Pieces
    PROVE  Messages(x \o y) = Messages(x) \cup Messages(y)
<1>0. PICK z : z = x \o y
  OBVIOUS
<1>1. ASSUME NEW m \in Messages(z) PROVE m \in Messages(x) \cup Messages(y)
  <2>1. PICK j \in DOMAIN z : \E a \in DOMAIN z[j] : m = z[j][a]
    BY <1>1, MessagesOf
  <2>2. CASE j \in DOMAIN x
    <3>1. z[j] = x[j]
      BY <1>0, <2>2, JoinIndex DEF Pieces
    <3>. QED  BY <2>1, <2>2, <3>1, MessagesOf
  <2>3. CASE j \notin DOMAIN x
    <3>1. j - Len(x) \in DOMAIN y /\ z[j] = y[j - Len(x)]
      BY <1>0, <2>3, JoinIndex DEF Pieces
    <3>. QED  BY <2>1, <3>1, MessagesOf
  <2>. QED  BY <2>2, <2>3
<1>2. ASSUME NEW m \in Messages(x) PROVE m \in Messages(z)
  <2>1. PICK j \in DOMAIN x : \E a \in DOMAIN x[j] : m = x[j][a]
    BY <1>2, MessagesOf
  <2>2. j \in DOMAIN z /\ z[j] = x[j]
    BY <1>0, JoinIndex DEF Pieces
  <2>. QED  BY <2>1, <2>2, MessagesOf
<1>3. ASSUME NEW m \in Messages(y) PROVE m \in Messages(z)
  <2>1. PICK j \in DOMAIN y : \E a \in DOMAIN y[j] : m = y[j][a]
    BY <1>3, MessagesOf
  <2>2. Len(x) + j \in DOMAIN z /\ z[Len(x) + j] = y[j]
    BY <1>0, JoinIndex DEF Pieces
  <2>. QED  BY <2>1, <2>2, MessagesOf
<1>. QED  BY <1>0, <1>1, <1>2, <1>3

(* Two runs of pieces are in order when each is and the first is older.    *)
LEMMA JoinOrder ==
    ASSUME NEW x \in Pieces, NEW y \in Pieces
    PROVE  InOrder(x \o y) <=> InOrder(x) /\ InOrder(y) /\ Before(x, y)
<1>. DEFINE z == x \o y
<1>0. /\ Len(x) \in Nat /\ DOMAIN x = 1 .. Len(x)
      /\ Len(y) \in Nat /\ DOMAIN y = 1 .. Len(y)
      /\ DOMAIN z = 1 .. Len(x) + Len(y)
      /\ \A i \in DOMAIN x : i \in DOMAIN z /\ z[i] = x[i]
      /\ \A i \in DOMAIN y : Len(x) + i \in DOMAIN z /\ z[Len(x) + i] = y[i]
      /\ \A i \in DOMAIN z : i \notin DOMAIN x =>
            i - Len(x) \in DOMAIN y /\ z[i] = y[i - Len(x)]
  BY JoinIndex, ConcatProperties, LenProperties DEF Pieces
<1>. HIDE DEF z
<1>1. ASSUME InOrder(z) PROVE InOrder(x)
  BY <1>0, <1>1 DEF InOrder
<1>2. ASSUME InOrder(z) PROVE InOrder(y)
  <2> SUFFICES ASSUME NEW j \in DOMAIN y, NEW k \in DOMAIN y,
                      NEW a \in DOMAIN y[j], NEW b \in DOMAIN y[k],
                      j < k \/ (j = k /\ a < b), y[j][a] # Notice, y[k][b] # Notice
               PROVE  y[j][a] < y[k][b]
    BY DEF InOrder
  <2>1. /\ Len(x) + j \in DOMAIN z /\ Len(x) + k \in DOMAIN z
        /\ z[Len(x) + j] = y[j] /\ z[Len(x) + k] = y[k]
    BY <1>0
  <2>2. Len(x) + j < Len(x) + k \/ (Len(x) + j = Len(x) + k /\ a < b)
    BY <1>0
  <2>. QED  BY <1>2, <2>1, <2>2 DEF InOrder
<1>3. ASSUME InOrder(z) PROVE Before(x, y)
  <2> SUFFICES ASSUME NEW m \in Messages(x), NEW n \in Messages(y), m # Notice, n # Notice
               PROVE  m < n
    BY DEF Before
  <2>1. PICK j \in DOMAIN x : \E a \in DOMAIN x[j] : m = x[j][a]
    BY MessagesOf
  <2>2. PICK a \in DOMAIN x[j] : m = x[j][a]
    BY <2>1
  <2>3. PICK k \in DOMAIN y : \E b \in DOMAIN y[k] : n = y[k][b]
    BY MessagesOf
  <2>4. PICK b \in DOMAIN y[k] : n = y[k][b]
    BY <2>3
  <2>5. j \in DOMAIN z /\ z[j] = x[j] /\ Len(x) + k \in DOMAIN z /\ z[Len(x) + k] = y[k]
    BY <1>0
  <2>6. j < Len(x) + k
    BY <1>0
  <2>. QED  BY <1>3, <2>2, <2>4, <2>5, <2>6 DEF InOrder
<1>4. ASSUME InOrder(x), InOrder(y), Before(x, y) PROVE InOrder(z)
  <2> SUFFICES ASSUME NEW j \in DOMAIN z, NEW k \in DOMAIN z,
                      NEW a \in DOMAIN z[j], NEW b \in DOMAIN z[k],
                      j < k \/ (j = k /\ a < b), z[j][a] # Notice, z[k][b] # Notice
               PROVE  z[j][a] < z[k][b]
    BY DEF InOrder
  <2>1. CASE k \in DOMAIN x
    <3>1. j \in DOMAIN x /\ z[j] = x[j] /\ z[k] = x[k]
      BY <1>0, <2>1
    <3>. QED  BY <1>4, <2>1, <3>1 DEF InOrder
  <2>2. CASE j \notin DOMAIN x
    <3>1. /\ j - Len(x) \in DOMAIN y /\ k - Len(x) \in DOMAIN y
          /\ z[j] = y[j - Len(x)] /\ z[k] = y[k - Len(x)]
      BY <1>0, <2>2
    <3>2. j - Len(x) < k - Len(x) \/ (j - Len(x) = k - Len(x) /\ a < b)
      BY <1>0
    <3>. QED  BY <1>4, <3>1, <3>2 DEF InOrder
  <2>3. CASE j \in DOMAIN x /\ k \notin DOMAIN x
    <3>1. z[j] = x[j] /\ k - Len(x) \in DOMAIN y /\ z[k] = y[k - Len(x)]
      BY <1>0, <2>3
    <3>2. z[j][a] \in Messages(x) /\ z[k][b] \in Messages(y)
      BY <2>3, <3>1, MessagesOf
    <3>. QED  BY <1>4, <3>2 DEF Before
  <2>. QED  BY <2>1, <2>2, <2>3
<1>. QED  BY <1>1, <1>2, <1>3, <1>4 DEF z

(* One piece, and the piece with nothing in it.                            *)
LEMMA OnePiece ==
    ASSUME NEW d \in Seq(Nat)
    PROVE  /\ <<d>> \in Pieces
           /\ Messages(<<d>>) = {d[a] : a \in DOMAIN d}
           /\ InOrder(<<d>>) <=>
                \A a, b \in DOMAIN d : a < b /\ d[a] # Notice /\ d[b] # Notice => d[a] < d[b]
<1>1. <<d>> \in Pieces /\ DOMAIN <<d>> = {1} /\ <<d>>[1] = d
  BY DEF Pieces
<1>2. Messages(<<d>>) = {d[a] : a \in DOMAIN d}
  <2>1. ASSUME NEW m PROVE m \in Messages(<<d>>) <=> \E a \in DOMAIN d : m = d[a]
    BY <1>1, MessagesOf
  <2>. QED  BY <2>1
<1>3. InOrder(<<d>>) <=>
        \A a, b \in DOMAIN d : a < b /\ d[a] # Notice /\ d[b] # Notice => d[a] < d[b]
  BY <1>1 DEF InOrder
<1>. QED  BY <1>1, <1>2, <1>3

(* The empty piece.                                                        *)
LEMMA EmptyPiece ==
    /\ <<>> \in Seq(Nat) /\ <<<<>>>> \in Pieces
    /\ Messages(<<<<>>>>) = {} /\ InOrder(<<<<>>>>)
<1>1. <<>> \in Seq(Nat) /\ DOMAIN <<>> = {}
  OBVIOUS
<1>. QED  BY <1>1, OnePiece

(* Two pieces become one.                                                  *)
LEMMA MergePieces ==
    ASSUME NEW d \in Seq(Nat), NEW e \in Seq(Nat)
    PROVE  /\ d \o e \in Seq(Nat)
           /\ Messages(<<d \o e>>) = Messages(<<d>>) \cup Messages(<<e>>)
           /\ InOrder(<<d>>) /\ InOrder(<<e>>) /\ Before(<<d>>, <<e>>) => InOrder(<<d \o e>>)
<1>1. PICK f \in Seq(Nat) : f = d \o e
  BY ConcatProperties
<1>2. /\ Len(d) \in Nat /\ DOMAIN d = 1 .. Len(d) /\ Len(e) \in Nat /\ DOMAIN e = 1 .. Len(e)
      /\ DOMAIN f = 1 .. Len(d) + Len(e)
      /\ \A i \in DOMAIN d : i \in DOMAIN f /\ f[i] = d[i]
      /\ \A i \in DOMAIN e : Len(d) + i \in DOMAIN f /\ f[Len(d) + i] = e[i]
      /\ \A i \in DOMAIN f : i \notin DOMAIN d => i - Len(d) \in DOMAIN e /\ f[i] = e[i - Len(d)]
  BY <1>1, JoinIndex, ConcatProperties, LenProperties
<1>3. /\ Messages(<<d>>) = {d[a] : a \in DOMAIN d} /\ Messages(<<e>>) = {e[a] : a \in DOMAIN e}
      /\ Messages(<<f>>) = {f[a] : a \in DOMAIN f}
  BY OnePiece
<1>4. Messages(<<f>>) = Messages(<<d>>) \cup Messages(<<e>>)
  <2>1. ASSUME NEW a \in DOMAIN f PROVE f[a] \in Messages(<<d>>) \cup Messages(<<e>>)
    BY <1>2, <1>3
  <2>2. ASSUME NEW a \in DOMAIN d PROVE d[a] \in Messages(<<f>>)
    BY <1>2, <1>3
  <2>3. ASSUME NEW a \in DOMAIN e PROVE e[a] \in Messages(<<f>>)
    BY <1>2, <1>3
  <2>. QED  BY <1>3, <2>1, <2>2, <2>3
<1>5. ASSUME InOrder(<<d>>), InOrder(<<e>>), Before(<<d>>, <<e>>) PROVE InOrder(<<f>>)
  <2> SUFFICES ASSUME NEW a \in DOMAIN f, NEW b \in DOMAIN f, a < b, f[a] # Notice, f[b] # Notice
               PROVE  f[a] < f[b]
    BY OnePiece
  <2>1. CASE b \in DOMAIN d
    <3>1. a \in DOMAIN d /\ f[a] = d[a] /\ f[b] = d[b]
      BY <1>2, <2>1
    <3>. QED  BY <1>5, <2>1, <3>1, OnePiece
  <2>2. CASE a \notin DOMAIN d
    <3>0. b \notin DOMAIN d /\ a \in Int /\ b \in Int
      BY <1>2, <2>2
    <3>1. /\ a - Len(d) \in DOMAIN e /\ b - Len(d) \in DOMAIN e /\ a - Len(d) < b - Len(d)
          /\ f[a] = e[a - Len(d)] /\ f[b] = e[b - Len(d)]
      BY <1>2, <2>2, <3>0
    <3>. QED  BY <1>5, <3>1, OnePiece
  <2>3. CASE a \in DOMAIN d /\ b \notin DOMAIN d
    <3>1. f[a] \in Messages(<<d>>) /\ f[b] \in Messages(<<e>>)
      BY <1>2, <1>3, <2>3
    <3>. QED  BY <1>5, <3>1 DEF Before
  <2>. QED  BY <2>1, <2>2, <2>3
<1>. QED  BY <1>1, <1>4, <1>5

(* A sequence is the concatenation of two parts of it.                     *)
LEMMA CutSeq ==
    ASSUME NEW S, NEW s \in Seq(S), NEW m \in Nat, NEW k \in Nat, m <= k, k <= Len(s)
    PROVE  /\ SubSeq(s, m + 1, k) \in Seq(S) /\ SubSeq(s, k + 1, Len(s)) \in Seq(S)
           /\ SubSeq(s, m + 1, Len(s)) = SubSeq(s, m + 1, k) \o SubSeq(s, k + 1, Len(s))
<1>0. /\ Len(s) \in Int /\ m + 1 \in Int /\ k \in Int /\ k + 1 \in Int
      /\ \A i \in m + 1 .. k : s[i] \in S
      /\ \A i \in k + 1 .. Len(s) : s[i] \in S
      /\ \A i \in m + 1 .. Len(s) : s[i] \in S
  OBVIOUS
<1>1. PICK u \in Seq(S) : u = SubSeq(s, m + 1, k)
  BY <1>0, SubSeqProperties
<1>2. PICK v \in Seq(S) : v = SubSeq(s, k + 1, Len(s))
  BY <1>0, SubSeqProperties
<1>3. PICK w \in Seq(S) : w = SubSeq(s, m + 1, Len(s))
  BY <1>0, SubSeqProperties
<1>4. Len(u) = k - m /\ Len(v) = Len(s) - k /\ Len(w) = Len(s) - m
  BY <1>0, <1>1, <1>2, <1>3, SubSeqProperties
<1>5. /\ \A i \in 1 .. k - m : u[i] = s[m + i]
      /\ \A i \in 1 .. Len(s) - k : v[i] = s[k + i]
      /\ \A i \in 1 .. Len(s) - m : w[i] = s[m + i]
  BY <1>0, <1>1, <1>2, <1>3, SubSeqProperties
<1>6. /\ u \o v \in Seq(S) /\ Len(u \o v) = Len(u) + Len(v)
      /\ \A i \in 1 .. Len(u) + Len(v) : (u \o v)[i] = IF i <= Len(u) THEN u[i] ELSE v[i - Len(u)]
  BY ConcatProperties
<1>7. ASSUME NEW i \in 1 .. Len(w) PROVE w[i] = (u \o v)[i]
  <2>1. i \in 1 .. Len(u) + Len(v) /\ w[i] = s[m + i]
    BY <1>0, <1>4, <1>5
  <2>2. CASE i <= Len(u)
    BY <1>0, <1>4, <1>5, <1>6, <2>1, <2>2
  <2>3. CASE i > Len(u)
    <3>1. i - Len(u) \in 1 .. Len(s) - k /\ k + (i - Len(u)) = m + i
      BY <1>0, <1>4, <2>1, <2>3
    <3>2. (u \o v)[i] = v[i - Len(u)]
      BY <1>0, <1>4, <1>6, <2>1, <2>3
    <3>. QED  BY <1>5, <2>1, <3>1, <3>2
  <2>. QED  BY <1>4, <2>2, <2>3
<1>8. w = u \o v
  <2>1. PICK z \in Seq(S) : z = u \o v
    BY <1>6
  <2>2. Len(z) = Len(u) + Len(v)
    BY <1>6, <2>1
  <2>3. Len(z) = Len(w)
    BY <1>0, <1>4, <2>2
  <2>. QED  BY <1>7, <2>1, <2>3, SeqEqual
<1>. QED  BY <1>1, <1>2, <1>3, <1>8

(* No piece at all.                                                        *)
LEMMA NoPiece == <<>> \in Pieces /\ Messages(<<>>) = {} /\ InOrder(<<>>)
<1>1. <<>> \in Pieces /\ DOMAIN <<>> = {}
  BY DEF Pieces
<1>. QED  BY <1>1 DEF Messages, InOrder

(* Order and messages of what is on its way: the rest of buffersToWrite,   *)
(* buffers_ and currentBuffer_.                                            *)
LEMMA WayIs ==
    ASSUME NEW t \in Pieces, NEW bs \in Pieces, NEW c \in Seq(Nat)
    PROVE  /\ t \o bs \o <<c>> \in Pieces
           /\ Messages(t \o bs \o <<c>>) = Messages(t) \cup Messages(bs) \cup Messages(<<c>>)
           /\ InOrder(t \o bs \o <<c>>) <=>
                /\ InOrder(t) /\ InOrder(bs) /\ InOrder(<<c>>)
                /\ Before(t, bs) /\ Before(t, <<c>>) /\ Before(bs, <<c>>)
<1>1. PICK d \in Pieces : d = <<c>>
  BY OnePiece
<1>2. PICK u \in Pieces : u = t \o bs
  BY ConcatProperties DEF Pieces
<1>3. u \o d \in Pieces
  BY ConcatProperties DEF Pieces
<1>4. Messages(u) = Messages(t) \cup Messages(bs) /\ Messages(u \o d) = Messages(u) \cup Messages(d)
  BY <1>2, JoinMessages
<1>5. Before(u, d) <=> Before(t, d) /\ Before(bs, d)
  BY <1>4 DEF Before
<1>6. InOrder(u) <=> InOrder(t) /\ InOrder(bs) /\ Before(t, bs)
  BY <1>2, JoinOrder
<1>7. InOrder(u \o d) <=> InOrder(u) /\ InOrder(d) /\ Before(u, d)
  BY JoinOrder
<1>. QED  BY <1>1, <1>2, <1>3, <1>4, <1>5, <1>6, <1>7

(* The files of a log are pieces.                                          *)
LEMMA WrittenIs ==
    ASSUME NEW o \in Log
    PROVE  /\ [i \in DOMAIN o.closed |-> o.closed[i].data] \in Pieces
           /\ o.file.data \in Seq(Nat)
           /\ Written(o) \in Pieces
           /\ Written(o) = [i \in DOMAIN o.closed |-> o.closed[i].data] \o <<o.file.data>>
<1>1. o.closed \in Seq(File) /\ o.file.data \in Seq(Nat)
  BY Fields
<1>2. PICK f \in Pieces : f = [i \in DOMAIN o.closed |-> o.closed[i].data]
  <2>1. ASSUME NEW i \in 1 .. Len(o.closed) PROVE o.closed[i].data \in Seq(Nat)
    BY <1>1, Fields
  <2>2. Len(o.closed) \in Nat /\ DOMAIN o.closed = 1 .. Len(o.closed)
    BY <1>1
  <2>3. PICK f : f = [i \in DOMAIN o.closed |-> o.closed[i].data]
    OBVIOUS
  <2>4. f \in [1 .. Len(o.closed) -> Seq(Nat)]
    BY <2>1, <2>2, <2>3
  <2>5. f \in UNION {[1 .. n -> Seq(Nat)] : n \in Nat}
    BY <2>2, <2>4
  <2>. QED  BY <2>3, <2>5, SeqDef, Zenon DEF Pieces
<1>3. Append(f, o.file.data) = f \o <<o.file.data>> /\ Append(f, o.file.data) \in Pieces
  BY <1>1, AppendProperties, AppendIsConcat DEF Pieces
<1>. QED  BY <1>1, <1>2, <1>3 DEF Written

(* What append_unlocked() does to the stream: data is added to its end,    *)
(* in the file in use or, with that file closed, before an empty one.      *)
LEMMA ExtendedIs ==
    ASSUME NEW o \in Log, NEW p \in Log, NEW data \in Seq(Nat), Extended(o, data, p)
    PROVE  /\ Messages(Written(p)) = Messages(Written(o)) \cup Messages(<<data>>)
           /\ InOrder(Written(o)) /\ InOrder(<<data>>) /\ Before(Written(o), <<data>>)
                => InOrder(Written(p))
<1>1. PICK f \in Pieces : f = [i \in DOMAIN o.closed |-> o.closed[i].data]
  BY WrittenIs
<1>2. PICK d \in Seq(Nat) : d = o.file.data
  BY Fields
<1>3. PICK e \in Seq(Nat) : e = d \o data
  BY MergePieces
<1>4. <<d>> \in Pieces /\ <<data>> \in Pieces /\ <<e>> \in Pieces
  BY OnePiece
<1>5. Written(o) = f \o <<d>>
  BY <1>1, <1>2, WrittenIs
<1>6. /\ Messages(Written(o)) = Messages(f) \cup Messages(<<d>>)
      /\ InOrder(Written(o)) <=> InOrder(f) /\ InOrder(<<d>>) /\ Before(f, <<d>>)
  BY <1>4, <1>5, JoinMessages, JoinOrder
<1>7. /\ Messages(<<e>>) = Messages(<<d>>) \cup Messages(<<data>>)
      /\ InOrder(<<d>>) /\ InOrder(<<data>>) /\ Before(<<d>>, <<data>>) => InOrder(<<e>>)
  BY <1>3, MergePieces
<1>8. PICK g \in Pieces : g = f \o <<e>>
  BY <1>4, ConcatProperties DEF Pieces
<1>9. /\ Messages(g) = Messages(Written(o)) \cup Messages(<<data>>)
      /\ InOrder(Written(o)) /\ InOrder(<<data>>) /\ Before(Written(o), <<data>>) => InOrder(g)
  <2>1. Messages(g) = Messages(f) \cup Messages(<<e>>)
    BY <1>4, <1>8, JoinMessages
  <2>2. InOrder(g) <=> InOrder(f) /\ InOrder(<<e>>) /\ Before(f, <<e>>)
    BY <1>4, <1>8, JoinOrder
  <2>3. Before(Written(o), <<data>>) => Before(<<d>>, <<data>>) /\ Before(f, <<data>>)
    BY <1>6 DEF Before
  <2>4. Before(f, <<d>>) /\ Before(f, <<data>>) => Before(f, <<e>>)
    BY <1>7 DEF Before
  <2>. QED  BY <1>6, <1>7, <2>1, <2>2, <2>3, <2>4
<1>10. CASE p.closed = o.closed /\ p.file.data = o.file.data \o data
  <2>1. Written(p) = g
    BY <1>1, <1>2, <1>3, <1>8, <1>10, WrittenIs
  <2>. QED  BY <1>9, <2>1
<1>11. ASSUME NEW h \in File, p.closed = Append(o.closed, h), h.data = o.file.data \o data,
              p.file.data = <<>>
       PROVE  Messages(Written(p)) = Messages(g) /\ (InOrder(g) => InOrder(Written(p)))
  <2>1. [i \in DOMAIN p.closed |-> p.closed[i].data] = g
    <3>1. PICK q \in Pieces : q = [i \in DOMAIN p.closed |-> p.closed[i].data]
      BY WrittenIs
    <3>2. o.closed \in Seq(File) /\ p.closed \in Seq(File) /\ Len(p.closed) = Len(o.closed) + 1
      BY <1>11, Fields, AppendProperties
    <3>3. Len(f) = Len(o.closed) /\ Len(q) = Len(o.closed) + 1 /\ Len(g) = Len(o.closed) + 1
      BY <1>1, <1>4, <1>8, <3>1, <3>2, ConcatProperties DEF Pieces
    <3>4. ASSUME NEW i \in 1 .. Len(q) PROVE q[i] = g[i]
      <4>1. CASE i <= Len(o.closed)
        <5>1. p.closed[i] = o.closed[i]
          BY <1>11, <3>2, <3>3, <4>1, AppendProperties
        <5>2. f[i] = o.closed[i].data /\ q[i] = p.closed[i].data
          BY <1>1, <3>1, <3>2, <3>3, <4>1
        <5>3. g[i] = f[i]
          BY <1>4, <1>8, <3>2, <3>3, <4>1, ConcatProperties DEF Pieces
        <5>. QED  BY <5>1, <5>2, <5>3
      <4>2. CASE i = Len(o.closed) + 1
        <5>1. p.closed[i] = h
          BY <1>11, <3>2, <4>2, AppendProperties
        <5>2. q[i] = h.data
          BY <3>1, <3>2, <3>3, <5>1
        <5>3. g[i] = e
          <6>1. PICK x \in Pieces : x = <<e>>
            BY <1>4
          <6>2. Len(x) = 1 /\ x[1] = e /\ i \in 1 .. Len(f) + Len(x) /\ i - Len(f) = 1 /\ ~ (i <= Len(f))
            BY <3>2, <3>3, <4>2, <6>1
          <6>3. g[i] = x[i - Len(f)]
            BY <1>8, <6>1, <6>2, ConcatProperties DEF Pieces
          <6>. QED  BY <6>2, <6>3
        <5>. QED  BY <1>2, <1>3, <1>11, <5>2, <5>3
      <4>. QED  BY <3>2, <3>3, <4>1, <4>2
    <3>5. q \in Seq(Seq(Nat)) /\ g \in Seq(Seq(Nat)) /\ Len(q) = Len(g)
      BY <3>3 DEF Pieces
    <3>6. q = g
      BY <3>4, <3>5, SeqEqual
    <3>. QED  BY <3>1, <3>6
  <2>2. Written(p) = g \o <<<<>>>>
    BY <1>11, <2>1, WrittenIs
  <2>3. PICK x \in Pieces : x = <<<<>>>>
    BY EmptyPiece
  <2>4. Messages(x) = {} /\ InOrder(x) /\ Before(g, x)
    BY <2>3, EmptyPiece DEF Before
  <2>5. Messages(g \o x) = Messages(g)
    <3>1. Messages(g \o x) = Messages(g) \cup Messages(x)
      BY JoinMessages
    <3>. QED  BY <2>4, <3>1
  <2>6. InOrder(g) => InOrder(g \o x)
    BY <2>4, JoinOrder
  <2>. QED  BY <2>2, <2>3, <2>5, <2>6
<1>. QED  BY <1>9, <1>10, <1>11 DEF Extended
-----------------------------------------------------------------------------
(* The stream of messages from append() to the files.                      *)

\* The stream is w in the files, then t of buffersToWrite, then bs of buffers_,
\* then the current buffer c; n messages were appended and those in dr dropped.
\* This is EachMessageOnce, said part by part, and that notices are in files
\* only.
Flow(w, t, bs, c, n, dr) ==
    /\ InOrder(w) /\ InOrder(t) /\ InOrder(bs) /\ InOrder(<<c>>)
    /\ Before(w, t) /\ Before(w, bs) /\ Before(w, <<c>>)
    /\ Before(t, bs) /\ Before(t, <<c>>) /\ Before(bs, <<c>>)
    /\ (Messages(w) \cup Messages(t) \cup Messages(bs) \cup Messages(<<c>>)) \ {Notice}
         = (1 .. n) \ dr
    /\ Notice \notin Messages(t) \cup Messages(bs) \cup Messages(<<c>>)
    /\ dr \subseteq 1 .. n
    /\ dr # {} => Notice \in Messages(w)

\* the buffers that were taken over and not written yet
Unwritten == SubSeq(toWrite, written + 1, Len(toWrite))

Stream == Flow(Written(output), Unwritten, buffers, current, appended, dropped)

(* The parts of the stream are pieces.                                     *)
LEMMA StreamTypes ==
    ASSUME Types
    PROVE  /\ Written(output) \in Pieces /\ Unwritten \in Pieces /\ buffers \in Pieces
           /\ current \in Seq(Nat) /\ <<current>> \in Pieces
<1>1. Unwritten \in Pieces
  BY CutSeq DEF Types, Unwritten, Pieces
<1>2. buffers \in Pieces /\ current \in Seq(Nat)
  BY DEF Types, Pieces
<1>. QED  BY <1>1, <1>2, OnePiece, WrittenIs DEF Types

(* The stream is EachMessageOnce.                                          *)
LEMMA StreamIsOnce ==
    ASSUME Types, Stream
    PROVE  EachMessageOnce
<1>1. PICK w \in Pieces : w = Written(output)
  BY StreamTypes
<1>2. PICK q \in Pieces : q = OnTheWay
  BY StreamTypes, WayIs DEF OnTheWay, Unwritten
<1>3. /\ Messages(q) = Messages(Unwritten) \cup Messages(buffers) \cup Messages(<<current>>)
      /\ InOrder(q)
  BY <1>2, StreamTypes, WayIs DEF OnTheWay, Unwritten, Stream, Flow
<1>4. Before(w, q)
  BY <1>1, <1>3 DEF Before, Stream, Flow
<1>5. InOrder(w \o q)
  BY <1>1, <1>3, <1>4, JoinOrder DEF Stream, Flow
<1>6. Messages(w \o q) = Messages(w) \cup Messages(q)
  BY JoinMessages
<1>7. Messages(w \o q) \ {Notice} = (1 .. appended) \ dropped
  BY <1>1, <1>3, <1>6 DEF Stream, Flow
<1>. QED  BY <1>1, <1>2, <1>5, <1>7 DEF Stream, Flow, EachMessageOnce

(* A message that is younger than all the others may join the last piece.  *)
LEMMA YoungestLast ==
    ASSUME NEW c \in Seq(Nat), NEW m \in Nat, \A n \in Messages(<<c>>) : n < m, InOrder(<<c>>)
    PROVE  /\ InOrder(<<Append(c, m)>>)
           /\ Messages(<<Append(c, m)>>) = Messages(<<c>>) \cup {m}
<1>0. <<m>> \in Seq(Nat)
  OBVIOUS
<1>1. PICK e \in Seq(Nat) : e = <<m>>
  BY <1>0
<1>2. DOMAIN e = {1} /\ e[1] = m
  BY <1>1
<1>3. Messages(<<e>>) = {m} /\ InOrder(<<e>>)
  BY <1>2, OnePiece
<1>4. Append(c, m) = c \o e
  BY <1>1, AppendIsConcat
<1>5. Before(<<c>>, <<e>>)
  BY <1>3 DEF Before
<1>. QED  BY <1>3, <1>4, <1>5, MergePieces

(* append() to the current buffer.                                         *)
LEMMA FlowGrows ==
    ASSUME NEW w, NEW t, NEW bs, NEW c \in Seq(Nat), NEW n \in Nat, NEW dr,
           Flow(w, t, bs, c, n, dr)
    PROVE  Flow(w, t, bs, Append(c, n + 1), n + 1, dr)
<1>0. PICK m \in Nat : m = n + 1
  OBVIOUS
<1>1. /\ \A x \in Messages(w) \ {Notice} : x \in 1 .. n
      /\ \A x \in Messages(t) \cup Messages(bs) \cup Messages(<<c>>) : x \in 1 .. n
  BY DEF Flow
<1>2. \A x \in Messages(<<c>>) : x < m
  BY <1>0, <1>1
<1>3. InOrder(<<Append(c, m)>>) /\ Messages(<<Append(c, m)>>) = Messages(<<c>>) \cup {m}
  BY <1>2, YoungestLast DEF Flow
<1>4. PICK d : d = <<Append(c, m)>>
  OBVIOUS
<1>5. InOrder(d) /\ Messages(d) = Messages(<<c>>) \cup {m}
  BY <1>3, <1>4
<1>6. Before(w, d) /\ Before(t, d) /\ Before(bs, d)
  BY <1>0, <1>1, <1>5 DEF Flow, Before
<1>7. /\ 1 .. m = (1 .. n) \cup {m} /\ m \notin 1 .. n /\ m # Notice
  BY <1>0 DEF Notice
<1>8. (Messages(w) \cup Messages(t) \cup Messages(bs) \cup Messages(d)) \ {Notice} = (1 .. m) \ dr
  BY <1>5, <1>7 DEF Flow
<1>9. Notice \notin Messages(t) \cup Messages(bs) \cup Messages(d) /\ dr \subseteq 1 .. m
  BY <1>5, <1>7 DEF Flow
<1>10. Flow(w, t, bs, Append(c, m), m, dr)
  BY <1>4, <1>5, <1>6, <1>8, <1>9 DEF Flow
<1>. QED  BY <1>0, <1>10

(* The full buffer goes to buffers_.                                       *)
LEMMA FlowFills ==
    ASSUME NEW w, NEW t, NEW bs \in Pieces, NEW c \in Seq(Nat), NEW n \in Nat, NEW dr,
           Flow(w, t, bs, c, n, dr)
    PROVE  Flow(w, t, Append(bs, c), <<>>, n, dr)
<1>1. PICK d \in Pieces : d = <<c>>
  BY OnePiece
<1>2. PICK e \in Pieces : e = <<<<>>>>
  BY EmptyPiece
<1>3. Append(bs, c) = bs \o d
  BY <1>1, AppendIsConcat DEF Pieces
<1>4. Messages(bs \o d) = Messages(bs) \cup Messages(d) /\ Messages(e) = {} /\ InOrder(e)
  BY <1>2, EmptyPiece, JoinMessages
<1>5. InOrder(bs \o d)
  BY <1>1, JoinOrder DEF Flow
<1>6. PICK g : g = bs \o d
  OBVIOUS
<1>7. Before(w, g) /\ Before(t, g) /\ Before(w, e) /\ Before(t, e) /\ Before(g, e)
  BY <1>1, <1>4, <1>6 DEF Flow, Before
<1>8. Flow(w, t, g, <<>>, n, dr)
  BY <1>1, <1>2, <1>4, <1>5, <1>6, <1>7 DEF Flow
<1>. QED  BY <1>3, <1>6, <1>8

(* The exchange: buffers_ becomes buffersToWrite.                          *)
LEMMA FlowSwaps ==
    ASSUME NEW w, NEW bs, NEW c, NEW n, NEW dr, Flow(w, <<>>, bs, c, n, dr)
    PROVE  Flow(w, bs, <<>>, c, n, dr)
BY NoPiece DEF Flow, Before

(* The first of the buffers goes to the file.                              *)
LEMMA FlowWrites ==
    ASSUME NEW w, NEW x \in Pieces, NEW y \in Pieces, NEW bs, NEW c, NEW n, NEW dr, NEW v,
           Flow(w, x \o y, bs, c, n, dr),
           InOrder(w) /\ InOrder(x) /\ Before(w, x) => InOrder(v),
           Messages(v) = Messages(w) \cup Messages(x)
    PROVE  Flow(v, y, bs, c, n, dr)
<1>1. PICK z : z = x \o y
  OBVIOUS
<1>2. Flow(w, z, bs, c, n, dr)
  BY <1>1
<1>3. Messages(z) = Messages(x) \cup Messages(y)
  BY <1>1, JoinMessages
<1>4. InOrder(x) /\ InOrder(y) /\ Before(x, y)
  BY <1>1, <1>2, JoinOrder DEF Flow
<1>5. Before(w, x) /\ Before(y, bs) /\ Before(y, <<c>>)
  BY <1>2, <1>3 DEF Flow, Before
<1>6. Before(v, y) /\ Before(v, bs) /\ Before(v, <<c>>)
  BY <1>2, <1>3, <1>4 DEF Flow, Before
<1>7. (Messages(v) \cup Messages(y) \cup Messages(bs) \cup Messages(<<c>>)) \ {Notice}
         = (1 .. n) \ dr
  BY <1>2, <1>3 DEF Flow
<1>8. Notice \notin Messages(y) \cup Messages(bs) \cup Messages(<<c>>)
  BY <1>2, <1>3 DEF Flow
<1>. QED  BY <1>2, <1>3, <1>4, <1>5, <1>6, <1>7, <1>8 DEF Flow

(* A notice goes to the file, and all buffers but the first ones are       *)
(* dropped.                                                                *)
LEMMA FlowDrops ==
    ASSUME NEW w, NEW x \in Pieces, NEW y \in Pieces, NEW bs, NEW c, NEW n \in Nat, NEW dr,
           NEW v, Flow(w, x \o y, bs, c, n, dr),
           InOrder(v), Messages(v) = Messages(w) \cup {Notice}
    PROVE  Flow(v, x, bs, c, n, dr \cup (Messages(x \o y) \ Messages(x)))
<1>1. PICK z : z = x \o y
  OBVIOUS
<1>2. PICK g : g = Messages(z) \ Messages(x)
  OBVIOUS
<1>3. Flow(w, z, bs, c, n, dr)
  BY <1>1
<1>4. Messages(z) = Messages(x) \cup Messages(y)
  BY <1>1, JoinMessages
<1>5. InOrder(x)
  BY <1>1, <1>3, JoinOrder DEF Flow
<1>6. Before(v, x) /\ Before(v, bs) /\ Before(v, <<c>>) /\ Before(x, bs) /\ Before(x, <<c>>)
  BY <1>3, <1>4 DEF Flow, Before
<1>7. ASSUME NEW m \in g
      PROVE  m \in 1 .. n /\ m # Notice /\ m \notin Messages(w) \cup Messages(bs) \cup Messages(<<c>>)
  <2>1. m \in Messages(z) /\ m # Notice /\ m \in 1 .. n
    BY <1>2, <1>3 DEF Flow
  <2>2. ~ (m < m)
    BY <2>1
  <2>. QED  BY <1>3, <2>1, <2>2 DEF Flow, Before
<1>8. (Messages(v) \cup Messages(x) \cup Messages(bs) \cup Messages(<<c>>)) \ {Notice}
         = (1 .. n) \ (dr \cup g)
  <2>1. (Messages(w) \cup Messages(z) \cup Messages(bs) \cup Messages(<<c>>)) \ {Notice}
           = (1 .. n) \ dr
    BY <1>3 DEF Flow
  <2>. QED  BY <1>2, <1>4, <1>7, <2>1
<1>9. Notice \notin Messages(x) \cup Messages(bs) \cup Messages(<<c>>)
  BY <1>3, <1>4 DEF Flow
<1>10. dr \cup g \subseteq 1 .. n /\ Notice \in Messages(v)
  BY <1>3, <1>7 DEF Flow
<1>11. Flow(v, x, bs, c, n, dr \cup g)
  BY <1>3, <1>5, <1>6, <1>8, <1>9, <1>10 DEF Flow
<1>. QED  BY <1>1, <1>2, <1>11
-----------------------------------------------------------------------------
(* Every step keeps the stream.                                            *)

\* a step that writes nothing to a file and leaves buffersToWrite alone
BackEndRests == Written(output)' = Written(output) /\ Unwritten' = Unwritten

(* Steps that move no message.                                             *)
LEMMA RestKeepsStream ==
    ASSUME Stream, BackEndRests, UNCHANGED <<current, buffers, appended, dropped>>
    PROVE  Stream'
BY DEF Stream, BackEndRests

(* append() to a buffer that has room.                                     *)
LEMMA AppendToCurrentFlows == Sound /\ Stream /\ AppendToCurrent => Stream'
<1> SUFFICES ASSUME Sound, Stream, AppendToCurrent PROVE Stream'
  OBVIOUS
<1>1. BackEndRests /\ UNCHANGED <<buffers, dropped>>
  BY DEF AppendToCurrent, back, BackEndRests, Unwritten
<1>2. current' = Append(current, appended + 1) /\ appended' = appended + 1
  BY DEF AppendToCurrent
<1>3. Flow(Written(output), Unwritten, buffers, Append(current, appended + 1), appended + 1, dropped)
  BY FlowGrows DEF Sound, Types, Stream
<1>. QED  BY <1>1, <1>2, <1>3 DEF Stream, BackEndRests

(* append() to the next buffer.                                            *)
LEMMA AppendToNextFlows == Sound /\ Stream /\ AppendToNext => Stream'
<1> SUFFICES ASSUME Sound, Stream, AppendToNext PROVE Stream'
  OBVIOUS
<1>0. (IF next # None THEN next ELSE <<>>) = <<>>
  BY DEF Sound, Types
<1>1. BackEndRests /\ UNCHANGED dropped
  BY DEF AppendToNext, BackEndRests, Unwritten
<1>2. /\ current' = Append(<<>>, appended + 1) /\ appended' = appended + 1
      /\ buffers' = Append(buffers, current)
  BY <1>0, Zenon DEF AppendToNext
<1>3. Flow(Written(output), Unwritten, Append(buffers, current), <<>>, appended, dropped)
  BY StreamTypes, FlowFills DEF Sound, Types, Stream
<1>4. <<>> \in Seq(Nat) /\ appended \in Nat
  BY DEF Sound, Types
<1>5. Flow(Written(output), Unwritten, Append(buffers, current), Append(<<>>, appended + 1),
           appended + 1, dropped)
  BY <1>3, <1>4, FlowGrows
<1>. QED  BY <1>1, <1>2, <1>5 DEF Stream, BackEndRests

(* A flush moves nothing between files.                                    *)
LEMMA FlushWritesNothing ==
    ASSUME NEW o \in Log
    PROVE  Written(Flush(o)) = Written(o)
BY FlushIs DEF Written, SameButFile

(* A new log file for one that was not used.                               *)
LEMMA OpenFlows == Sound /\ Stream /\ Open => Stream'
<1> SUFFICES ASSUME Sound, Stream, Open PROVE Stream'
  OBVIOUS
<1>1. output.closed = <<>> /\ output.file.data = <<>>
  BY DEF Open, BackEndGoes, Sound, Unopened
<1>2. output'.closed = <<>> /\ output'.file.data = <<>>
  BY DEF Open, NewLogFile, EmptyFile
<1>3. Written(output)' = Written(output)
  BY <1>1, <1>2 DEF Written
<1>4. Unwritten' = Unwritten /\ UNCHANGED <<current, buffers, appended, dropped>>
  BY DEF Open, Unwritten, front, history
<1>. QED  BY <1>3, <1>4, RestKeepsStream DEF BackEndRests

(* The end of the loop flushes.                                            *)
LEMMA TestFlows == Sound /\ Stream /\ Test => Stream'
<1> SUFFICES ASSUME Sound, Stream, Test PROVE Stream'
  OBVIOUS
<1>1. Written(output)' = Written(output)
  BY FlushWritesNothing DEF Test, Sound, Types
<1>2. Unwritten' = Unwritten /\ UNCHANGED <<current, buffers, appended, dropped>>
  BY DEF Test, Unwritten, front, history
<1>. QED  BY <1>1, <1>2, RestKeepsStream DEF BackEndRests

(* The whole of a sequence, and nothing of it.                             *)
LEMMA WholeAndNone ==
    ASSUME NEW S, NEW s \in Seq(S)
    PROVE  SubSeq(s, 0 + 1, Len(s)) = s /\ SubSeq(s, Len(s) + 1, Len(s)) = <<>>
<1>1. Len(s) \in Int /\ 1 \in Int /\ \A i \in 1 .. Len(s) : s[i] \in S
  OBVIOUS
<1>. QED  BY <1>1, SubSeqProperties

(* The exchange.                                                           *)
LEMMA SwapFlows == Sound /\ Stream /\ Swap => Stream'
<1> SUFFICES ASSUME Sound, Stream, Swap PROVE Stream'
  OBVIOUS
<1>1. new1 = <<>> /\ toWrite = <<>> /\ written = 0
  BY DEF Swap, Sound, Types, SparesReturn, backEnd
<1>2. /\ toWrite' = Append(buffers, current) /\ written' = 0 /\ buffers' = <<>>
      /\ current' = <<>> /\ output' = output /\ UNCHANGED <<appended, dropped>>
  BY <1>1 DEF Swap, history
<1>3. Unwritten = <<>>
  BY <1>1, WholeAndNone DEF Unwritten, Sound, Types
<1>4. Append(buffers, current) \in Seq(Seq(Nat))
  BY DEF Sound, Types
<1>5. Unwritten' = Append(buffers, current)
  BY <1>2, <1>4, WholeAndNone DEF Unwritten
<1>6. Flow(Written(output), Unwritten, Append(buffers, current), <<>>, appended, dropped)
  BY StreamTypes, FlowFills DEF Sound, Types, Stream
<1>7. Flow(Written(output), Append(buffers, current), <<>>, <<>>, appended, dropped)
  BY <1>3, <1>6, FlowSwaps
<1>. QED  BY <1>2, <1>5, <1>7 DEF Stream

(* The next element of a sequence is the first of the rest.                *)
LEMMA NextOfRest ==
    ASSUME NEW S, NEW s \in Seq(S), NEW m \in Nat, m < Len(s)
    PROVE  /\ s[m + 1] \in S /\ SubSeq(s, m + 2, Len(s)) \in Seq(S)
           /\ SubSeq(s, m + 1, Len(s)) = <<s[m + 1]>> \o SubSeq(s, m + 2, Len(s))
<1>1. PICK k \in Nat : k = m + 1
  OBVIOUS
<1>2. m <= k /\ k <= Len(s) /\ k + 1 = m + 2 /\ k \in DOMAIN s /\ s[k] \in S
  BY <1>1
<1>3. /\ SubSeq(s, k + 1, Len(s)) \in Seq(S)
      /\ SubSeq(s, m + 1, Len(s)) = SubSeq(s, m + 1, k) \o SubSeq(s, k + 1, Len(s))
  BY <1>2, CutSeq
<1>4. SubSeq(s, k, k) = <<s[k]>>
  <2>1. k \in Int /\ \A i \in k .. k : s[i] \in S
    BY <1>2
  <2>2. /\ SubSeq(s, k, k) \in Seq(S) /\ Len(SubSeq(s, k, k)) = 1 /\ SubSeq(s, k, k)[1] = s[k]
    BY <2>1, SubSeqProperties
  <2>3. <<s[k]>> \in Seq(S) /\ Len(<<s[k]>>) = 1 /\ <<s[k]>>[1] = s[k]
    BY <1>2
  <2>4. PICK u \in Seq(S) : u = SubSeq(s, k, k)
    BY <2>2
  <2>5. PICK v \in Seq(S) : v = <<s[k]>>
    BY <2>3
  <2>6. \A i \in 1 .. Len(u) : u[i] = v[i]
    BY <2>2, <2>3, <2>4, <2>5
  <2>. QED  BY <2>2, <2>3, <2>4, <2>5, <2>6, SeqEqual
<1>. QED  BY <1>1, <1>2, <1>3, <1>4

(* The next buffer is written.                                             *)
LEMMA WriteFlows == Sound /\ Stream /\ Write => Stream'
<1> SUFFICES ASSUME Sound, Stream, Write PROVE Stream'
  OBVIOUS
<1>1. /\ toWrite \in Seq(Seq(Nat)) /\ written \in Nat /\ written < Len(toWrite)
      /\ output \in Log /\ now \in Nat /\ FileRolls(output, now) /\ appended \in Nat
  BY DEF Sound, Types, Write
<1>2. PICK d \in Seq(Nat) : d = toWrite[written + 1]
  BY <1>1, NextOfRest
<1>3. PICK y \in Pieces : y = SubSeq(toWrite, written + 2, Len(toWrite))
  BY <1>1, NextOfRest DEF Pieces
<1>4. PICK x \in Pieces : x = <<d>>
  BY OnePiece
<1>5. Unwritten = x \o y
  BY <1>1, <1>2, <1>3, <1>4, NextOfRest DEF Unwritten
<1>6. /\ output' = AppendUnlocked(output, d, now) /\ written' = written + 1
      /\ UNCHANGED <<toWrite, current, buffers, appended, dropped>>
  BY <1>2 DEF Write, front, history
<1>7. Unwritten' = y
  <2>1. written + 1 + 1 = written + 2
    BY <1>1
  <2>. QED  BY <1>3, <1>6, <2>1 DEF Unwritten
<1>8. output' \in Log /\ Extended(output, d, output')
  BY <1>1, <1>6, AppendKeeps
<1>9. PICK v : v = Written(output')
  OBVIOUS
<1>10. PICK w : w = Written(output)
  OBVIOUS
<1>11. /\ Messages(v) = Messages(w) \cup Messages(x)
       /\ InOrder(w) /\ InOrder(x) /\ Before(w, x) => InOrder(v)
  BY <1>1, <1>4, <1>8, <1>9, <1>10, ExtendedIs
<1>12. Flow(w, x \o y, buffers, current, appended, dropped)
  BY <1>5, <1>10 DEF Stream
<1>13. Flow(v, y, buffers, current, appended, dropped)
  BY <1>11, <1>12, FlowWrites
<1>. QED  BY <1>6, <1>7, <1>9, <1>13 DEF Stream

(* The buffers that are kept, and the others.                              *)
LEMMA KeptAndRest ==
    ASSUME NEW S, NEW s \in Seq(S), 2 <= Len(s)
    PROVE  /\ Kept(s) \in Seq(S) /\ SubSeq(s, 2 + 1, Len(s)) \in Seq(S)
           /\ s = Kept(s) \o SubSeq(s, 2 + 1, Len(s))
<1>1. /\ SubSeq(s, 0 + 1, 2) \in Seq(S) /\ SubSeq(s, 2 + 1, Len(s)) \in Seq(S)
      /\ SubSeq(s, 0 + 1, Len(s)) = SubSeq(s, 0 + 1, 2) \o SubSeq(s, 2 + 1, Len(s))
  <2>1. 0 \in Nat /\ 2 \in Nat /\ 0 <= 2
    OBVIOUS
  <2>. QED  BY <2>1, CutSeq
<1>2. SubSeq(s, 0 + 1, Len(s)) = s
  BY WholeAndNone
<1>3. 0 + 1 = 1
  OBVIOUS
<1>. QED  BY <1>1, <1>2, <1>3 DEF Kept

(* A notice is written and buffers are dropped.                            *)
LEMMA DropFlows == Sound /\ Stream /\ Drop => Stream'
<1> SUFFICES ASSUME Sound, Stream, Drop PROVE Stream'
  OBVIOUS
<1>1. /\ toWrite \in Seq(Seq(Nat)) /\ 2 <= Len(toWrite) /\ written = 0
      /\ output \in Log /\ now \in Nat /\ FileRolls(output, now) /\ appended \in Nat
  BY AsyncAssumption DEF Sound, Types, Drop, WritesLocally
<1>2. /\ Kept(toWrite) \in Seq(Seq(Nat)) /\ SubSeq(toWrite, 2 + 1, Len(toWrite)) \in Seq(Seq(Nat))
      /\ toWrite = Kept(toWrite) \o SubSeq(toWrite, 2 + 1, Len(toWrite))
  BY <1>1, KeptAndRest
<1>3. PICK x \in Pieces : x = Kept(toWrite)
  BY <1>2 DEF Pieces
<1>4. PICK y \in Pieces : y = SubSeq(toWrite, 2 + 1, Len(toWrite))
  BY <1>2 DEF Pieces
<1>5. toWrite = x \o y /\ Unwritten = x \o y
  BY <1>1, <1>2, <1>3, <1>4, WholeAndNone DEF Kept, Unwritten
<1>0. <<Notice>> \in Seq(Nat)
  BY DEF Notice
<1>6. PICK d \in Seq(Nat) : d = <<Notice>>
  BY <1>0
<1>7. /\ output' = AppendUnlocked(output, d, now) /\ toWrite' = x /\ written' = 0
      /\ UNCHANGED <<current, buffers, appended>>
  BY <1>1, <1>3, <1>6 DEF Drop, front
<1>8. dropped' = dropped \cup (Messages(x \o y) \ Messages(x))
  BY <1>3, <1>5, Zenon DEF Drop
<1>9. Unwritten' = x
  BY <1>7, WholeAndNone DEF Unwritten, Pieces
<1>10. output' \in Log /\ Extended(output, d, output')
  BY <1>1, <1>7, AppendKeeps
<1>11. PICK v : v = Written(output')
  OBVIOUS
<1>12. PICK w : w = Written(output)
  OBVIOUS
<1>13. PICK e \in Pieces : e = <<d>>
  BY OnePiece
<1>14. Messages(e) = {Notice} /\ InOrder(e) /\ Before(w, e)
  <2>1. DOMAIN d = {1} /\ d[1] = Notice
    BY <1>6
  <2>2. Messages(e) = {Notice} /\ InOrder(e)
    BY <1>13, <2>1, OnePiece
  <2>. QED  BY <2>2 DEF Before
<1>15. /\ Messages(v) = Messages(w) \cup Messages(e)
       /\ InOrder(w) /\ InOrder(e) /\ Before(w, e) => InOrder(v)
  BY <1>1, <1>10, <1>11, <1>12, <1>13, ExtendedIs
<1>16. Flow(w, x \o y, buffers, current, appended, dropped)
  BY <1>5, <1>12 DEF Stream
<1>17. InOrder(v) /\ Messages(v) = Messages(w) \cup {Notice}
  BY <1>14, <1>15, <1>16 DEF Flow
<1>18. Flow(v, x, buffers, current, appended, dropped \cup (Messages(x \o y) \ Messages(x)))
  BY <1>1, <1>16, <1>17, FlowDrops
<1>. QED  BY <1>7, <1>8, <1>9, <1>11, <1>18 DEF Stream

(* All buffers are written, and become spare ones.                         *)
LEMMA RecycleFlows == Sound /\ Stream /\ Recycle => Stream'
<1> SUFFICES ASSUME Sound, Stream, Recycle PROVE Stream'
  OBVIOUS
<1>1. /\ written = Len(toWrite) /\ toWrite \in Seq(Seq(Nat)) /\ output \in Log
      /\ toWrite' = <<>> /\ written' = 0 /\ output' = Flush(output)
      /\ UNCHANGED <<current, buffers, appended, dropped>>
  BY DEF Recycle, Sound, Types, front, history
<1>2. Unwritten = <<>>
  BY <1>1, WholeAndNone DEF Unwritten
<1>3. Unwritten' = <<>>
  <2>1. <<>> \in Seq(Seq(Nat))
    OBVIOUS
  <2>. QED  BY <1>1, <2>1, WholeAndNone DEF Unwritten
<1>4. Written(output)' = Written(output)
  BY <1>1, FlushWritesNothing
<1>. QED  BY <1>1, <1>2, <1>3, <1>4, RestKeepsStream DEF BackEndRests

(* The stream is kept by every step,                                       *)
LEMMA StreamStep == Sound /\ Stream /\ [Next]_vars => Stream'
<1> SUFFICES ASSUME Sound, Stream, [Next]_vars PROVE Stream'
  OBVIOUS
<1>1. CASE CountDown \/ Wait \/ WaitEnds \/ Start \/ StopNotifies
  <2>1. UNCHANGED <<toWrite, written, output, current, buffers, appended, dropped>>
    BY <1>1 DEF CountDown, Wait, WaitEnds, Start, StopNotifies, front, history
  <2>. QED  BY <2>1, RestKeepsStream DEF BackEndRests, Unwritten
<1>2. CASE Started \/ Stop \/ Join \/ Tick \/ UNCHANGED vars
  <2>1. UNCHANGED <<toWrite, written, output, current, buffers, appended, dropped>>
    BY <1>2 DEF Started, Stop, Join, Tick, vars, front, back, history
  <2>. QED  BY <2>1, RestKeepsStream DEF BackEndRests, Unwritten
<1>. QED
  BY <1>1, <1>2, AppendToCurrentFlows, AppendToNextFlows, OpenFlows, TestFlows, SwapFlows,
     DropFlows, WriteFlows, RecycleFlows
  DEF Next, BackEndStep, OwnerStep

(* and empty in the initial state.                                         *)
LEMMA StreamInit == Init => Stream
<1> SUFFICES ASSUME Init PROVE Stream
  OBVIOUS
<1>1. PICK e \in Pieces : e = <<<<>>>>
  BY EmptyPiece
<1>2. Messages(e) = {} /\ InOrder(e) /\ Messages(<<>>) = {} /\ InOrder(<<>>)
  BY <1>1, EmptyPiece, NoPiece
<1>3. Written(output) = e
  <2>1. output.closed = <<>> /\ output.file.data = <<>> /\ output \in Log
    BY SoundInit DEF Init, NewLogFile, EmptyFile, Sound, Types
  <2>2. [i \in DOMAIN <<>> |-> output.closed[i].data] = <<>>
    OBVIOUS
  <2>. QED  BY <1>1, <2>1, <2>2 DEF Written
<1>4. Unwritten = <<>> /\ buffers = <<>> /\ <<current>> = e /\ appended = 0 /\ dropped = {}
  <2>1. <<>> \in Seq(Nat)
    OBVIOUS
  <2>. QED  BY <1>1, <2>1, WholeAndNone DEF Init, Unwritten
<1>5. 1 .. 0 = {}
  OBVIOUS
<1>. QED  BY <1>2, <1>3, <1>4, <1>5 DEF Stream, Flow, Before

(* Whatever the size and the number of the buffers, and wherever the front *)
(* end and the back end are: every message is in the log or on its way to  *)
(* it, once and in the order of append(), unless it was dropped and the    *)
(* log says so; and the spare buffers are back when the back end looks for *)
(* work, so that its assertions hold.                                      *)
THEOREM LogKeepsEveryMessage == Spec => []BuffersGoRound
<1>1. Init => Sound /\ Stream
  BY SoundInit, StreamInit
<1>2. Sound /\ Stream /\ [Next]_vars => (Sound /\ Stream)'
  BY SoundStep, StreamStep
<1>3. Sound /\ Stream => BuffersGoRound
  BY StreamIsOnce DEF Sound, BuffersGoRound
<1>. QED  BY <1>1, <1>2, <1>3, PTL DEF Spec
=============================================================================
