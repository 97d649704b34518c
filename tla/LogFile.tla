------------------------------ MODULE LogFile ------------------------------
(***************************************************************************)
(* muduo::LogFile: a series of files, as operators on its state.  The      *)
(* content of a file is the sequence of the messages appended to it, each  *)
(* of length 1, and its name is the second in which it was opened.  Writes *)
(* that fail, which are reported and forgotten, are left out.              *)
(***************************************************************************)
EXTENDS Integers, Sequences

CONSTANTS RollSize,        \* rollSize_, in messages
          FlushInterval,   \* flushInterval_, in seconds
          CheckTimeRoll,   \* kCheckTimeRoll_
          RollPerSeconds   \* kRollPerSeconds_

ASSUME LogFileAssumption ==
    /\ RollSize \in Nat /\ FlushInterval \in Nat /\ CheckTimeRoll \in Nat
    /\ RollPerSeconds \in Nat \ {0}

\* a moment, rounded down to the start of its period
Period(now) == (now \div RollPerSeconds) * RollPerSeconds

\* an open file: what was appended, how much of it is in the hands of the
\* kernel, and when it was opened
EmptyFile(now) == [data |-> <<>>, flushed |-> 0, name |-> now]

\* File::append and File::flush
FileAppend(f, data) == [f EXCEPT !.data = @ \o data]
FileFlush(f) == [f EXCEPT !.flushed = Len(f.data)]

\* defect: a file is replaced also in the second in which it was opened
RollsNow_always(o, now) == TRUE

\* not two files in one second, they would have the same name
RollsNow(o, now) == now > o.lastRoll

\* rollFile; the old file is closed, which flushes it
RollFile(o, now) ==
    IF ~RollsNow(o, now) THEN o
    ELSE [o EXCEPT !.closed = Append(@, o.file), !.file = EmptyFile(now),
                   !.lastRoll = now, !.lastFlush = now, !.startOfPeriod = Period(now),
                   !.late = 0]

\* file_->flush
Flush(o) == [o EXCEPT !.file = FileFlush(@)]

\* the constructor; history: late, the appends to the open file after its
\* period, and last, the time of the last append
NewLogFile(now) ==
    [closed |-> <<>>, file |-> EmptyFile(now), count |-> 0, lastRoll |-> now,
     lastFlush |-> now, startOfPeriod |-> Period(now), late |-> 0, last |-> now]

\* file_->append
Grown(o, data, now) ==
    [o EXCEPT !.file = FileAppend(@, data), !.last = now,
              !.late = IF Period(now) # o.startOfPeriod THEN @ + 1 ELSE @]

\* append_unlocked
AppendUnlocked(o, data, now) ==
    LET w == Grown(o, data, now)
        checked == [w EXCEPT !.count = 0]
    IN  CASE Len(w.file.data) > RollSize -> RollFile(w, now)
          [] Len(w.file.data) <= RollSize /\ w.count <= CheckTimeRoll -> [w EXCEPT !.count = @ + 1]
          [] OTHER -> CASE Period(now) # w.startOfPeriod -> RollFile(checked, now)
                        [] /\ Period(now) = w.startOfPeriod
                           /\ now - w.lastFlush > FlushInterval -> [Flush(checked) EXCEPT !.lastFlush = now]
                        [] OTHER -> checked

\* what was appended, file by file in the order of the files
Written(o) == Append([i \in DOMAIN o.closed |-> o.closed[i].data], o.file.data)
=============================================================================
