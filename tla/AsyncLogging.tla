---------------------------- MODULE AsyncLogging ----------------------------
(***************************************************************************)
(* muduo::AsyncLogging: threads append messages to a current buffer; a     *)
(* back end thread takes the full buffers and the current one, gives empty *)
(* ones for them, and writes to a LogFile.                                 *)
(*                                                                         *)
(* A buffer is the sequence of its messages, a message is its number and   *)
(* has length 1.  A critical section of mutex_ is one step.  The wait of   *)
(* the back end is timed and not in a loop, and stop() changes running_    *)
(* and notifies without the mutex.                                         *)
(***************************************************************************)
EXTENDS LogFile, SequencesExt, Condition

CONSTANTS BufferSize,   \* kLargeBuffer
          MaxBuffers,   \* 25: more of them are dropped
          MaxMsgs,      \* bound: messages
          MaxNow,       \* bound: the clock
          None          \* a null pointer

ASSUME AsyncAssumption ==
    /\ BufferSize \in Nat /\ BufferSize > 1 /\ MaxBuffers \in Nat /\ MaxBuffers >= 2
    /\ None # <<>>

VARIABLES running,     \* running_
          current,     \* currentBuffer_
          next,        \* nextBuffer_
          buffers,     \* buffers_
          bpc,         \* where the back end is, as a function for Condition: unborn,
                       \*   begun, opening, test, take, waiting, woken, write, done
          new1, new2,  \* newBuffer1, newBuffer2
          toWrite,     \* buffersToWrite
          written,     \* how many of them are in the log file: i of the for loop
          output,      \* the LogFile
          latch,       \* the count of latch_
          opc,         \* where the owner is: idle, starting, ready, stopping, joining,
                       \*   stopped
          now,         \* the clock, in seconds
          appended,    \* history: how many messages there were
          dropped      \* history: the messages that were dropped

front == <<current, next, buffers>>
back == <<bpc, new1, new2, toWrite, written, output>>
control == <<running, latch, opc>>
history == <<appended, dropped>>
vars == <<front, back, control, now, history>>

backEnd == bpc[0]

Init ==
    /\ running = FALSE
    /\ current = <<>> /\ next = <<>> /\ buffers = <<>>
    /\ bpc = [b \in {0} |-> "unborn"]
    /\ new1 = None /\ new2 = None /\ toWrite = <<>> /\ written = 0
    /\ output = NewLogFile(1)
    /\ latch = 1 /\ opc = "idle"
    /\ now = 1
    /\ appended = 0 /\ dropped = {}

\* the line that says how many buffers were dropped
Notice == 0
-----------------------------------------------------------------------------
(* The front end: append, in any thread, before, during and after the life *)
(* of the back end.                                                        *)

Fits(b) == BufferSize - Len(b) > 1

AppendToCurrent ==
    /\ appended < MaxMsgs
    /\ Fits(current)
    /\ current' = Append(current, appended + 1)
    /\ appended' = appended + 1
    /\ UNCHANGED <<next, buffers, back, control, now, dropped>>

\* the current buffer is full
AppendToNext ==
    /\ appended < MaxMsgs
    /\ ~Fits(current)
    /\ buffers' = Append(buffers, current)
    /\ current' = Append(IF next # None THEN next ELSE <<>>, appended + 1)
    /\ next' = None
    /\ bpc' \in Notify(bpc)
    /\ appended' = appended + 1
    /\ UNCHANGED <<new1, new2, toWrite, written, output, control, now, dropped>>
-----------------------------------------------------------------------------
(* The back end.                                                           *)

BackEndGoes(from, to) == backEnd = from /\ bpc' = [bpc EXCEPT ![0] = to]

\* the thread begins
CountDown ==
    /\ BackEndGoes("begun", "opening")
    /\ latch' = latch - 1
    /\ UNCHANGED <<front, new1, new2, toWrite, written, output, running, opc, now, history>>

\* and opens the log file
Open ==
    /\ BackEndGoes("opening", "test")
    /\ output' = NewLogFile(now)
    /\ new1' = <<>> /\ new2' = <<>>
    /\ UNCHANGED <<front, toWrite, written, control, now, history>>

\* while (running_)
Test ==
    /\ backEnd = "test"
    /\ BackEndGoes("test", IF running THEN "take" ELSE "done")
    /\ output' = IF running THEN output ELSE Flush(output)
    /\ UNCHANGED <<front, new1, new2, toWrite, written, control, now, history>>

\* nothing is full: waitForSeconds
Wait ==
    /\ buffers = <<>>
    /\ BackEndGoes("take", "waiting")
    /\ UNCHANGED <<front, new1, new2, toWrite, written, output, control, now, history>>

\* defect: the wait has no time limit
TimesOut_never(pc) == FALSE

TimesOut(pc) == pc = "waiting"

\* the wait ends after flushInterval_, or for no reason
WaitEnds ==
    /\ TimesOut(backEnd)
    /\ BackEndGoes("waiting", "woken")
    /\ UNCHANGED <<front, new1, new2, toWrite, written, output, control, now, history>>

\* newBuffer2 after the exchange: given away when nextBuffer_ was used up
SpareAfterSwap == IF next = None THEN None ELSE new2

\* the exchange of the buffers
Swap ==
    /\ backEnd = "woken" \/ (backEnd = "take" /\ buffers # <<>>)
    /\ bpc' = [bpc EXCEPT ![0] = "write"]
    /\ toWrite' = Append(buffers, current)
    /\ buffers' = <<>>
    /\ current' = new1 /\ new1' = None
    /\ next' = IF next = None THEN new2 ELSE next
    /\ new2' = SpareAfterSwap
    /\ UNCHANGED <<written, output, control, now, history>>

\* the buffers that are written when there are too many
Kept(s) == SubSeq(s, 1, 2)

\* the messages in a sequence of buffers
Messages(bs) == UNION {{b[i] : i \in DOMAIN b} : b \in {bs[j] : j \in DOMAIN bs}}

\* there are too many: a notice is written and all but two are dropped
Drop ==
    /\ backEnd = "write" /\ Len(toWrite) > MaxBuffers
    /\ output' = AppendUnlocked(output, <<Notice>>, now)
    /\ toWrite' = Kept(toWrite)
    /\ dropped' = dropped \cup (Messages(toWrite) \ Messages(Kept(toWrite)))
    /\ UNCHANGED <<front, bpc, new1, new2, written, control, now, appended>>

\* the next buffer is written
Write ==
    /\ backEnd = "write" /\ Len(toWrite) <= MaxBuffers /\ written < Len(toWrite)
    /\ output' = AppendUnlocked(output, toWrite[written + 1], now)
    /\ written' = written + 1
    /\ UNCHANGED <<front, bpc, new1, new2, toWrite, control, now, history>>

\* defect: the buffer is used again with what it holds
Reset_kept(b) == b

\* the buffer b, emptied
Reset(b) == <<>>

\* all are written, and at most two of them become the spare ones
Recycle ==
    /\ Len(toWrite) <= MaxBuffers /\ written = Len(toWrite)
    /\ BackEndGoes("write", "test")
    /\ LET bs == IF Len(toWrite) > 2 THEN SubSeq(toWrite, 1, 2) ELSE toWrite
           rest == IF new1 = None /\ bs # <<>> THEN Front(bs) ELSE bs
       IN  /\ new1' = IF new1 = None /\ bs # <<>> THEN Reset(Last(bs)) ELSE new1
           /\ new2' = IF new2 = None /\ rest # <<>> THEN Reset(Last(rest)) ELSE new2
    /\ toWrite' = <<>> /\ written' = 0
    /\ output' = Flush(output)
    /\ UNCHANGED <<front, control, now, history>>
-----------------------------------------------------------------------------
(* The owner.                                                              *)

Start ==
    /\ opc = "idle" /\ opc' = "starting"
    /\ running' = TRUE
    /\ BackEndGoes("unborn", "begun")
    /\ UNCHANGED <<front, new1, new2, toWrite, written, output, latch, now, history>>

\* latch_.wait()
Started ==
    /\ opc = "starting" /\ opc' = "ready"
    /\ latch = 0
    /\ UNCHANGED <<front, back, running, latch, now, history>>

Stop ==
    /\ opc = "ready" /\ opc' = "stopping"
    /\ running' = FALSE
    /\ UNCHANGED <<front, back, latch, now, history>>

StopNotifies ==
    /\ opc = "stopping" /\ opc' = "joining"
    /\ bpc' \in Notify(bpc)
    /\ UNCHANGED <<front, new1, new2, toWrite, written, output, running, latch, now, history>>

Join ==
    /\ opc = "joining" /\ opc' = "stopped"
    /\ backEnd = "done"
    /\ UNCHANGED <<front, back, running, latch, now, history>>

Tick ==
    /\ now < MaxNow
    /\ now' = now + 1
    /\ UNCHANGED <<front, back, control, history>>
-----------------------------------------------------------------------------
BackEndStep == CountDown \/ Open \/ Test \/ Wait \/ WaitEnds \/ Swap \/ Drop \/ Write \/ Recycle

OwnerStep == Started \/ StopNotifies \/ Join

Next ==
    \/ AppendToCurrent \/ AppendToNext
    \/ BackEndStep \/ OwnerStep \/ Start \/ Stop
    \/ Tick

Spec == Init /\ [][Next]_vars

\* the back end and the owner run, and the timed wait ends
FairSpec == Spec /\ WF_vars(BackEndStep) /\ WF_vars(OwnerStep)
-----------------------------------------------------------------------------
\* the buffers that are on their way to the file, in order
OnTheWay == SubSeq(toWrite, written + 1, Len(toWrite)) \o buffers \o <<current>>

\* the messages in a sequence of buffers or files are in the order of append()
InOrder(bs) ==
    \A j, k \in DOMAIN bs : \A a \in DOMAIN bs[j], b \in DOMAIN bs[k] :
        /\ j < k \/ (j = k /\ a < b)
        /\ bs[j][a] # Notice /\ bs[k][b] # Notice
        => bs[j][a] < bs[k][b]

\* Every message is in the log or on its way to it, in the order of append()
\* and once, however the buffers went around; the exception are messages that
\* were dropped because there were too many buffers, which the log announces.
EachMessageOnce ==
    /\ InOrder(Written(output) \o OnTheWay)
    /\ Messages(Written(output) \o OnTheWay) \ {Notice} = (1..appended) \ dropped
    /\ dropped # {} => Notice \in Messages(Written(output))

\* The back end has two empty buffers whenever it looks for work, it gets back
\* as many as it gave away, and the front end is short of a spare one only
\* when it has filled one: the assertions of the back end hold.
SparesReturn ==
    /\ backEnd \in {"test", "take", "waiting", "woken"} => new1 = <<>> /\ new2 = <<>> /\ toWrite = <<>>
    /\ backEnd = "write" => new1 = None /\ Len(toWrite) >= IF new2 = None THEN 2 ELSE 1
    /\ next = None => buffers # <<>>

\* The exchange of buffers between the two ends loses neither messages nor
\* buffers.
BuffersGoRound == EachMessageOnce /\ SparesReturn

\* A file that is too large takes appends only in the second in which it was
\* opened, no two files have the same name, and no more than CheckTimeRoll + 2
\* appends go to a file after its period is over.
FilesRoll ==
    /\ Len(output.file.data) > RollSize => output.last = output.file.name
    /\ \A i \in DOMAIN output.closed : output.closed[i].name < output.file.name
    /\ output.late <= CheckTimeRoll + 1

\* everything that was not dropped is with the kernel
AllFlushed == Messages(OnTheWay) = {} /\ output.file.flushed = Len(output.file.data)

\* While the back end runs, all messages reach the kernel or are dropped, also
\* those in a buffer that never fills; and stop() returns, although its
\* notify() may come before the wait.
LogAdvances ==
    /\ []<>(AllFlushed \/ ~running)
    /\ opc = "stopping" ~> opc = "stopped"
=============================================================================
