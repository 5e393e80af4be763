---------------------------- MODULE AsyncLogger ----------------------------
(* trantor's AsyncFileLogger: callers append messages to a buffer in        *)
(* memory; a full or flushed buffer is queued for the logging thread, which *)
(* writes it to the file, hands the emptied buffer back for reuse and moves *)
(* on to a new file when the current one is long enough.  Buffers are       *)
(* shared by pointer, so they are modelled by identity.                     *)
EXTENDS Integers, Sequences, SequencesExt

CONSTANTS BufferSize,   \* kMemBufferSize, in messages
          QueueLimit,   \* buffers queued before messages are dropped (25)
          SizeLimit,    \* sizeLimit_, in messages
          MaxFiles,     \* maxFiles_, at least 1
          MaxMsgs,      \* bound: calls of output
          MaxBufs       \* bound: buffers in memory

VARIABLES heap,         \* what each buffer holds
          logBuffer,    \* logBufferPtr_
          nextBuffer,   \* nextBufferPtr_ (0: null)
          writeBuffers, \* writeBuffers_
          tmpBuffers,   \* tmpBuffers_, of the thread; its head is being written
          lostCounter,  \* lostCounter_
          stopFlag,     \* stopFlag_
          lpc,          \* where the logging thread is
          ended,        \* whether the destructor has written what was left
          logFile,      \* the file under the base name
          oldFiles,     \* the renamed files that are kept, oldest first
          calls,        \* messages passed to output so far
          tooLong,      \* history: how many of them no buffer could hold
          accepted,     \* history: what was appended, in order
          dropped       \* history: how much of the written log was deleted

alVars == <<heap, logBuffer, nextBuffer, writeBuffers, tmpBuffers, lostCounter, stopFlag,
            lpc, ended, logFile, oldFiles, calls, tooLong, accepted, dropped>>

Bufs == 1..MaxBufs

ALInit ==
    /\ heap = [b \in Bufs |-> <<>>]
    /\ logBuffer = 1 /\ nextBuffer = 2
    /\ writeBuffers = <<>> /\ tmpBuffers = <<>>
    /\ lostCounter = 0 /\ stopFlag = FALSE /\ lpc = "top" /\ ended = FALSE
    /\ logFile = <<>> /\ oldFiles = <<>>
    /\ calls = 0 /\ tooLong = 0 /\ accepted = <<>> /\ dropped = 0

\* make_shared: a buffer nothing points to.
InUse == {logBuffer, nextBuffer} \cup ToSet(writeBuffers) \cup ToSet(tmpBuffers)
Fresh == CHOOSE b \in Bufs : b \notin InUse

\* swapBuffer: the buffer is queued, the spare one or a new one takes its place.
SwapBuffer ==
    [write |-> Append(writeBuffers, logBuffer), next |-> 0,
     log |-> IF nextBuffer # 0 THEN nextBuffer ELSE Fresh]

CanSwap == nextBuffer # 0 \/ \E b \in Bufs : b \notin InUse

\* A plausible bug: the counter is not reset once it has been reported.
MutReport(lost) == lost

\* What is left of lostCounter_ when it has been written to the log.
Report(lost) == 0

\* capacity() - length() < len.  A report of lost messages is not measured and
\* may make the string grow, to a capacity the code does not know of.
Full(s) == IF Len(s) > BufferSize THEN BOOLEAN ELSE {Len(s) = BufferSize}

\* output(): everything under mutex_.  The report of lost messages goes in front
\* of the next message that is kept.
Output ==
  \E full \in Full(heap[logBuffer]) :
    LET m      == calls + 1
        write  == IF full THEN SwapBuffer.write ELSE writeBuffers
        log    == IF full THEN SwapBuffer.log ELSE logBuffer
        line   == (IF lostCounter > 0 THEN <<-lostCounter>> ELSE <<>>) \o <<m>>
        old    == IF full THEN <<>> ELSE heap[log]
    IN  /\ ~stopFlag /\ calls < MaxMsgs
        /\ full => CanSwap
        /\ calls' = m
        /\ writeBuffers' = write /\ logBuffer' = log
        /\ nextBuffer' = IF full THEN SwapBuffer.next ELSE nextBuffer
        /\ IF Len(write) > QueueLimit
           THEN /\ lostCounter' = lostCounter + 1
                /\ heap' = [heap EXCEPT ![log] = old]
                /\ UNCHANGED accepted
           ELSE /\ lostCounter' = Report(lostCounter)
                /\ heap' = [heap EXCEPT ![log] = old \o line]
                /\ accepted' = accepted \o line
        /\ UNCHANGED <<tmpBuffers, stopFlag, lpc, ended, logFile, oldFiles, tooLong, dropped>>

\* len > kMemBufferSize: output() returns, and counts nothing.
OutputTooLong ==
    /\ ~stopFlag /\ calls < MaxMsgs
    /\ tooLong = 0                                          \* bound
    /\ calls' = calls + 1 /\ tooLong' = tooLong + 1
    /\ UNCHANGED <<heap, logBuffer, nextBuffer, writeBuffers, tmpBuffers, lostCounter,
                   stopFlag, lpc, ended, logFile, oldFiles, accepted, dropped>>

\* flush(), and the swap of the thread when its wait has timed out.
SwapIfAny ==
    IF heap[logBuffer] # <<>>
    THEN /\ CanSwap
         /\ writeBuffers' = SwapBuffer.write
         /\ logBuffer' = SwapBuffer.log
         /\ nextBuffer' = SwapBuffer.next
         /\ heap' = [heap EXCEPT ![SwapBuffer.log] = <<>>]
    ELSE UNCHANGED <<writeBuffers, logBuffer, nextBuffer, heap>>

Flush ==
    /\ ~stopFlag /\ heap[logBuffer] # <<>>
    /\ SwapIfAny
    /\ UNCHANGED <<tmpBuffers, lostCounter, stopFlag, lpc, ended, logFile, oldFiles,
                   calls, tooLong, accepted, dropped>>

-----------------------------------------------------------------------------
(* The logging thread.                                                      *)

ThreadTop ==
    /\ lpc = "top"
    /\ lpc' = IF stopFlag THEN "exited" ELSE "wait"
    /\ UNCHANGED <<heap, logBuffer, nextBuffer, writeBuffers, tmpBuffers, lostCounter,
                   stopFlag, ended, logFile, oldFiles, calls, tooLong, accepted, dropped>>

\* The inner loop ends because buffers are queued or the logger stops; the
\* queue is swapped into tmpBuffers_.
ThreadWoken ==
    /\ lpc = "wait" /\ (writeBuffers # <<>> \/ stopFlag)
    /\ tmpBuffers' = writeBuffers /\ writeBuffers' = <<>>
    /\ lpc' = "write"
    /\ UNCHANGED <<heap, logBuffer, nextBuffer, lostCounter, stopFlag, ended, logFile,
                   oldFiles, calls, tooLong, accepted, dropped>>

\* A plausible bug: a buffer that is being filled is left for the next output.
MutTimedOut == FALSE

\* Whether a timed-out wait queues the current buffer.
TimedOut == heap[logBuffer] # <<>>

\* wait_for timed out: the current buffer is queued too, if it holds anything.
ThreadTimeout ==
    /\ lpc = "wait"
    /\ IF TimedOut
       THEN /\ CanSwap
            /\ tmpBuffers' = SwapBuffer.write
            /\ logBuffer' = SwapBuffer.log
            /\ nextBuffer' = SwapBuffer.next
            /\ heap' = [heap EXCEPT ![SwapBuffer.log] = <<>>]
       ELSE tmpBuffers' = writeBuffers /\ UNCHANGED <<logBuffer, nextBuffer, heap>>
    /\ writeBuffers' = <<>>
    /\ lpc' = "write"
    /\ UNCHANGED <<lostCounter, stopFlag, ended, logFile, oldFiles, calls, tooLong, accepted, dropped>>

\* A plausible bug: deleting old files starts from the newest.
MutKeep(files) == SubSeq(files, 1, MaxFiles)

\* deleteOldFiles: the oldest go while there are more than maxFiles_.
Keep(files) == IF Len(files) > MaxFiles THEN Tail(files) ELSE files

\* writeLogToFile, then switchLog(true) when the file is over the limit.
WriteLogToFile(s) ==
    LET file == logFile \o s
        all  == Append(oldFiles, file)
    IN  IF Len(file) > SizeLimit
        THEN /\ logFile' = <<>>
             /\ oldFiles' = Keep(all)
             /\ dropped' = dropped + (IF Len(all) > MaxFiles THEN Len(Head(all)) ELSE 0)
        ELSE logFile' = file /\ UNCHANGED <<oldFiles, dropped>>

\* One turn of the writing loop: the buffer is popped, written and cleared ...
ThreadWrite ==
    /\ lpc = "write" /\ tmpBuffers # <<>>
    /\ WriteLogToFile(heap[Head(tmpBuffers)])
    /\ heap' = [heap EXCEPT ![Head(tmpBuffers)] = <<>>]
    /\ lpc' = "return"
    /\ UNCHANGED <<logBuffer, nextBuffer, writeBuffers, tmpBuffers, lostCounter, stopFlag,
                   ended, calls, tooLong, accepted>>

\* ... and becomes the spare buffer, under mutex_.
ThreadReturn ==
    /\ lpc = "return"
    /\ nextBuffer' = Head(tmpBuffers)
    /\ tmpBuffers' = Tail(tmpBuffers)
    /\ lpc' = "write"
    /\ UNCHANGED <<heap, logBuffer, writeBuffers, lostCounter, stopFlag, ended, logFile,
                   oldFiles, calls, tooLong, accepted, dropped>>

ThreadWritten ==
    /\ lpc = "write" /\ tmpBuffers = <<>>
    /\ lpc' = "top"
    /\ UNCHANGED <<heap, logBuffer, nextBuffer, writeBuffers, tmpBuffers, lostCounter,
                   stopFlag, ended, logFile, oldFiles, calls, tooLong, accepted, dropped>>

\* The destructor sets the flag and joins the thread ...
Destruct ==
    /\ ~stopFlag
    /\ stopFlag' = TRUE
    /\ UNCHANGED <<heap, logBuffer, nextBuffer, writeBuffers, tmpBuffers, lostCounter, lpc,
                   ended, logFile, oldFiles, calls, tooLong, accepted, dropped>>

\* ... then queues the current buffer and writes the queued ones, one a step.
DestructWrite ==
    LET left == IF heap[logBuffer] # <<>> THEN Append(writeBuffers, logBuffer)
                ELSE writeBuffers
    IN  /\ lpc = "exited" /\ ~ended
        /\ IF left = <<>>
           THEN ended' = TRUE
                /\ UNCHANGED <<heap, writeBuffers, logFile, oldFiles, dropped>>
           ELSE /\ WriteLogToFile(heap[Head(left)])
                /\ heap' = [heap EXCEPT ![Head(left)] = <<>>]
                /\ writeBuffers' = IF writeBuffers = <<>> THEN <<>> ELSE Tail(writeBuffers)
                /\ UNCHANGED ended
        /\ UNCHANGED <<logBuffer, nextBuffer, tmpBuffers, lostCounter, stopFlag, lpc, calls,
                       tooLong, accepted>>

LogThread == ThreadTop \/ ThreadWoken \/ ThreadTimeout \/ ThreadWrite \/ ThreadReturn
             \/ ThreadWritten

ALNext == Output \/ OutputTooLong \/ Flush \/ LogThread \/ Destruct \/ DestructWrite

\* The logging thread keeps running (its wait ends after kLogFlushTimeout at the
\* latest) and so does a destructor that has begun.
ALFairness == WF_alVars(LogThread) /\ WF_alVars(DestructWrite)

ALSpec == ALInit /\ [][ALNext]_alVars
ALFairSpec == ALSpec /\ ALFairness

-----------------------------------------------------------------------------
ALTypeOK ==
    /\ heap \in [Bufs -> Seq((-MaxMsgs)..MaxMsgs)]
    /\ logBuffer \in Bufs /\ nextBuffer \in 0..MaxBufs
    /\ lostCounter \in 0..MaxMsgs /\ calls \in 0..MaxMsgs /\ tooLong \in 0..calls
    /\ lpc \in {"top", "wait", "write", "return", "exited"}

\* The log on disk, in the order of the files, with the length deleted so far.
Written == FlattenSeq(oldFiles) \o logFile

\* Every message that was accepted is, once and in the order of the calls, in
\* the files that are kept, in a queued buffer or in the current one: handing
\* buffers between the threads and rotating files loses and repeats nothing,
\* except that the oldest files go when there are more than maxFiles_.
LogInOrder ==
    LET queued == FlattenSeq([i \in DOMAIN tmpBuffers |-> heap[tmpBuffers[i]]])
                  \o FlattenSeq([i \in DOMAIN writeBuffers |-> heap[writeBuffers[i]]])
    IN  /\ SubSeq(accepted, dropped + 1, Len(accepted))
             = Written \o queued \o heap[logBuffer]
        /\ Len(oldFiles) <= MaxFiles

\* Every call of output with a message a buffer can hold is accounted for: it is
\* in the log, or counted in a report that is, or in lostCounter_.  A message
\* longer than kMemBufferSize vanishes: no report ever counts it.
LossesReported ==
    calls - tooLong = lostCounter + FoldLeft(LAMBDA n, m : n + (IF m < 0 THEN -m ELSE 1), 0, accepted)

\* What the log says is what was logged, taken together.
LogFaithful == LogInOrder /\ LossesReported

\* Once the calls have stopped everything accepted is in the file, even when
\* nobody flushes (the timeout of the thread's wait) and when the logger is
\* destroyed (its destructor writes what the thread has left).
LogWritten == <>[](Len(accepted) = dropped + Len(Written))
=============================================================================
