------------------------------ MODULE FileCache ------------------------------
(***************************************************************************)
(* CFileCache (filesystem/FileCache.cpp): a file read ahead by a thread.   *)
(* The reader calls Read, Seek and, last, Close, one at a time under       *)
(* m_sync; the cache thread (Process) reads chunks of the source into the  *)
(* cache.  A seek that the cache cannot serve goes through m_seekEvent and *)
(* m_seekEnded, two events that reset themselves.                          *)
(*                                                                         *)
(* A byte is the position it has in the source.  The rate limits decide    *)
(* only when the thread pauses, so a pause may happen or not.  The waits   *)
(* that time out may always do so: no clock is modelled.                   *)
(***************************************************************************)
EXTENDS DoubleCache

CONSTANTS m_fileSize,    \* length of the source
          m_chunkSize,   \* the most that is read from the source at once
          ReadSize,      \* bound: the one size of read the reader asks for
          MaxTarget,     \* bound: the farthest position it seeks to
          SeekAfterFailure  \* bound: whether it seeks again after a failure

ASSUME FileCacheAssumption ==
  /\ m_fileSize \in Nat \ {0} /\ m_chunkSize \in Nat \ {0}
  /\ m_chunkSize <= m_size - m_size_back
  /\ ReadSize \in Nat \ {0} /\ MaxTarget \in Nat
  /\ SeekAfterFailure \in BOOLEAN

VARIABLES
  m_pCache,        \* the cache, see DoubleCache
  m_readPos, m_writePos, m_seekPos, m_seekPossible, m_seekEvent, m_seekEnded,
  m_bStop, m_StopEvent,  \* CThread's flag and event
  sourcePos,       \* where the source will read next
  reader,          \* where the reader is: [at, iTarget or the size asked for]
  process,         \* where Process is: [at, first byte, iRead, iTotalWrite]
  sourceFailed     \* auxiliary: "seek", a seek has failed since Open; "read",
                   \* the end of the input is a failure of the source

events   == <<m_seekEvent, m_seekEnded, m_bStop, m_StopEvent>>
position == <<m_readPos, m_writePos, m_seekPos, m_seekPossible, sourcePos>>
vars == <<m_pCache, position, events, reader, process, sourceFailed>>

ring == m_pCache.m_pCache

ReaderAt == {"idle", "reading", "waiting", "aheadWait", "requested", "ended",
             "remaining", "again", "againWait", "stopping", "waking",
             "joining", "closed"}
ProcessAt == {"start", "top", "poll", "space", "source", "eof", "write", "exit", "done"}

TypeOK ==
  /\ m_pCache \in Cache
  /\ m_readPos \in Nat /\ m_writePos \in 0 .. m_fileSize
  /\ m_seekPos \in 0 .. m_fileSize /\ sourcePos \in 0 .. m_fileSize
  /\ m_seekPossible \in BOOLEAN /\ m_seekEvent \in BOOLEAN
  /\ m_seekEnded \in BOOLEAN /\ m_bStop \in BOOLEAN /\ m_StopEvent \in BOOLEAN
  /\ reader \in [at : ReaderAt, arg : Nat]
  /\ process \in [at : ProcessAt, first : 0 .. m_fileSize, iRead : 0 .. m_chunkSize,
                 iTotalWrite : 0 .. m_chunkSize]
  /\ sourceFailed \subseteq {"seek", "read"}

ProcessIdle(at) == [at |-> at, first |-> 0, iRead |-> 0, iTotalWrite |-> 0]
ReaderIdle      == [at |-> "idle", arg |-> 0]

\* The end of Open: one ring, or two for READ_MULTI_STREAM; the thread starts.
Init ==
  /\ \E double \in BOOLEAN : m_pCache = OpenedCache(double)
  /\ m_readPos = 0 /\ m_writePos = 0 /\ m_seekPos = 0 /\ sourcePos = 0
  /\ m_seekPossible \in BOOLEAN
  /\ m_seekEvent = FALSE /\ m_seekEnded = FALSE
  /\ m_bStop = FALSE /\ m_StopEvent = FALSE
  /\ reader = ReaderIdle /\ process = ProcessIdle("start")
  /\ sourceFailed = {}

-----------------------------------------------------------------------------
(***************************************************************************)
(* Read                                                                    *)
(***************************************************************************)
ReadCall(size) ==
  /\ reader.at = "idle"
  /\ reader' = [at |-> "reading", arg |-> size]
  /\ UNCHANGED <<m_pCache, position, events, process, sourceFailed>>

ReadData ==
  /\ reader.at = "reading" /\ ReadLength(ring, reader.arg) > 0
  /\ m_readPos' = m_readPos + ReadLength(ring, reader.arg)
  /\ m_pCache' = [m_pCache EXCEPT !.m_pCache = ReadFromCache(@, reader.arg)]
  /\ reader' = ReaderIdle
  /\ UNCHANGED <<m_writePos, m_seekPos, m_seekPossible, sourcePos, events,
                 process, sourceFailed>>

\* Nothing to read: at the end of the input Read answers 0, else it waits.
ReadNothing ==
  /\ reader.at = "reading" /\ Front(ring) = 0
  /\ reader' = IF ring.m_bEndOfInput THEN ReaderIdle
               ELSE [reader EXCEPT !.at = "waiting"]
  /\ UNCHANGED <<m_pCache, position, events, process, sourceFailed>>

ReadWaited ==
  /\ reader.at = "waiting" /\ WaitSatisfied(ring, 1)
  /\ reader' = IF Front(ring) > 0 THEN [reader EXCEPT !.at = "reading"]
               ELSE ReaderIdle
  /\ UNCHANGED <<m_pCache, position, events, process, sourceFailed>>

\* The 10 seconds are over, and 0 is answered as at the end of the file.
ReadTimedOut ==
  /\ reader.at = "waiting" /\ ~ WaitSatisfied(ring, 1)
  /\ reader' = ReaderIdle
  /\ UNCHANGED <<m_pCache, position, events, process, sourceFailed>>

-----------------------------------------------------------------------------
(***************************************************************************)
(* Seek, to a position counted from the start                              *)
(***************************************************************************)
\* The seek is served by the cache.
Served(iTarget) ==
  /\ m_pCache' = [m_pCache EXCEPT !.m_pCache = SeekTo(@, iTarget)]
  /\ m_readPos' = iTarget
  /\ reader' = ReaderIdle
  /\ UNCHANGED <<m_seekPos, m_seekEvent, sourceFailed>>

\* Mutant of SeekPosFor: the thread is sent to the target itself.
TargetItself(iTarget) == iTarget

\* "Never request closer to end than one chunk."
SeekPosFor(iTarget) ==
  Smaller(iTarget, IF m_fileSize >= m_chunkSize THEN m_fileSize - m_chunkSize ELSE 0)

\* It is not: the thread is asked, unless the source cannot seek at all.
NotServed(iTarget) ==
  /\ UNCHANGED <<m_pCache, m_readPos>>
  /\ IF m_seekPossible
       THEN /\ m_seekPos' = SeekPosFor(iTarget)
            /\ m_seekEvent' = TRUE
            /\ reader' = [at |-> "requested", arg |-> iTarget]
            /\ UNCHANGED sourceFailed
       ELSE /\ reader' = ReaderIdle
            /\ sourceFailed' = sourceFailed \cup {"seek"}
            /\ UNCHANGED <<m_seekPos, m_seekEvent>>

Answer(iTarget) ==
  IF IsCachedPosition(ring, iTarget) THEN Served(iTarget) ELSE NotServed(iTarget)

SeekCall(iTarget) ==
  /\ reader.at = "idle" /\ iTarget # m_readPos
  /\ SeekAfterFailure \/ "seek" \notin sourceFailed
  /\ IF SeekRefused(m_pCache, iTarget) THEN NotServed(iTarget)
     ELSE IF SeekWaits(ring, iTarget)
       THEN /\ m_pCache' = [m_pCache EXCEPT !.m_pCache = SeekWaiting(@)]
            /\ reader' = [at |-> "aheadWait", arg |-> iTarget]
            /\ UNCHANGED <<m_readPos, m_seekPos, m_seekEvent, sourceFailed>>
     ELSE Answer(iTarget)
  /\ UNCHANGED <<m_writePos, m_seekPossible, sourcePos, m_seekEnded, m_bStop,
                 m_StopEvent, process>>

\* The data a little ahead has come, or the 5 seconds are over.
SeekWaited ==
  /\ reader.at = "aheadWait"
  /\ Answer(reader.arg)
  /\ UNCHANGED <<m_writePos, m_seekPossible, sourcePos, m_seekEnded, m_bStop,
                 m_StopEvent, process>>

\* m_seekEnded.Wait(100ms) in a loop, left when the thread is gone.
SeekEnded ==
  /\ reader.at = "requested"
  /\ \/ /\ m_seekEnded
        /\ m_seekEnded' = FALSE
        /\ reader' = [reader EXCEPT !.at =
             IF m_seekPos < reader.arg THEN "remaining" ELSE "ended"]
     \/ /\ ~ m_seekEnded /\ process.at = "done"
        /\ reader' = ReaderIdle
        /\ UNCHANGED m_seekEnded
  /\ UNCHANGED <<m_pCache, position, m_seekEvent, m_bStop, m_StopEvent, process,
                 sourceFailed>>

\* The data up to the target has come, or has not: then Seek answers -1.
SeekRemaining ==
  /\ reader.at = "remaining"
  /\ reader' = IF Front(ring) >= reader.arg - m_seekPos
                 THEN [reader EXCEPT !.at = "again"] ELSE ReaderIdle
  /\ UNCHANGED <<m_pCache, position, events, process, sourceFailed>>

\* m_pCache->Seek(iTarget), whose answer is not looked at.
SeekAgain ==
  /\ reader.at = "again"
  /\ IF ~ SeekRefused(m_pCache, reader.arg) /\ SeekWaits(ring, reader.arg)
       THEN /\ m_pCache' = [m_pCache EXCEPT !.m_pCache = SeekWaiting(@)]
            /\ reader' = [reader EXCEPT !.at = "againWait"]
       ELSE /\ m_pCache' = IF SeekRefused(m_pCache, reader.arg) THEN m_pCache
                    ELSE [m_pCache EXCEPT !.m_pCache = SeekTo(@, reader.arg)]
            /\ reader' = [reader EXCEPT !.at = "ended"]
  /\ UNCHANGED <<position, events, process, sourceFailed>>

SeekAgainWaited ==
  /\ reader.at = "againWait"
  /\ m_pCache' = [m_pCache EXCEPT !.m_pCache = SeekTo(@, reader.arg)]
  /\ reader' = [reader EXCEPT !.at = "ended"]
  /\ UNCHANGED <<position, events, process, sourceFailed>>

SeekReturn ==
  /\ reader.at = "ended"
  /\ m_readPos' = reader.arg
  /\ m_seekEvent' = FALSE
  /\ reader' = ReaderIdle
  /\ UNCHANGED <<m_pCache, m_writePos, m_seekPos, m_seekPossible, sourcePos,
                 m_seekEnded, m_bStop, m_StopEvent, process,
                 sourceFailed>>
-----------------------------------------------------------------------------
(***************************************************************************)
(* Process, the cache thread                                               *)
(***************************************************************************)
Goto(at) == process' = ProcessIdle(at)

\* Process gives up at once when there are no settings, or starts its loop.
Start ==
  /\ process.at = "start"
  /\ Goto("top") \/ Goto("exit")
  /\ UNCHANGED <<m_pCache, position, events, reader, sourceFailed>>

\* while (!m_bStop)
LoopTop ==
  /\ process.at = "top"
  /\ Goto(IF m_bStop THEN "exit" ELSE "poll")
  /\ UNCHANGED <<m_pCache, position, events, reader, sourceFailed>>

NoSeek ==
  /\ process.at = "poll" /\ ~ m_seekEvent
  /\ Goto("space")
  /\ UNCHANGED <<m_pCache, position, events, reader, sourceFailed>>

\* Where the source has to go on for a seek to m_seekPos.
CacheMaxPos == EndPosIfSeekTo(m_pCache, m_seekPos)

\* Mutant of SourceSeek: what is cached after the position is forgotten.
SeekPosItself == m_seekPos

SourceSeek == IF CacheMaxPos = m_fileSize THEN sourcePos ELSE CacheMaxPos

(***************************************************************************)
(* A seek is carried out: the source is sought to the end of what is       *)
(* cached after the new position, unless that is the end of the file, and  *)
(* then the cache is reset to the position.                                *)
(***************************************************************************)
HandleSeek ==
  /\ process.at = "poll" /\ m_seekEvent
  /\ sourcePos' = SourceSeek
  /\ m_pCache' = ResetCache(m_pCache, m_seekPos)
  /\ m_readPos' = m_seekPos
  /\ m_writePos' = m_pCache'.m_pCache.m_end
  /\ m_seekEvent' = FALSE /\ m_seekEnded' = TRUE
  /\ Goto("space")
  /\ UNCHANGED <<m_seekPos, m_seekPossible, m_bStop, m_StopEvent, reader,
                 sourceFailed>>

\* The source cannot be sought: nothing is reset, and the reader is not told.
HandleSeekFailed ==
  /\ process.at = "poll" /\ m_seekEvent /\ CacheMaxPos # m_fileSize
  /\ m_seekPossible' \in BOOLEAN
  /\ sourceFailed' = sourceFailed \cup {"seek"}
  /\ m_seekEvent' = FALSE /\ m_seekEnded' = TRUE
  /\ Goto("space")
  /\ UNCHANGED <<m_pCache, m_readPos, m_writePos, m_seekPos, sourcePos, m_bStop,
                 m_StopEvent, reader>>

\* Mutant of SeekEventSeen: the event is not set again.
SeekEventTaken == m_seekEvent' = FALSE

\* A wait for m_seekEvent that takes it and, unless stopping, sets it again.
SeekEventSeen == m_seekEvent' = (m_seekEvent /\ ~ m_bStop)

MaxSourceRead == Smaller(m_chunkSize, m_fileSize - m_writePos)

\* After a pause for the rate limit, or none, nothing is read that there is no
\* room for: m_space is waited for, 5ms.
CheckSpace ==
  /\ process.at = "space"
  /\ SeekEventSeen \/ UNCHANGED m_seekEvent
  /\ Goto(IF GetMaxWriteSize(ring, m_chunkSize) < MaxSourceRead
            THEN "top" ELSE "source")
  /\ UNCHANGED <<m_pCache, position, m_seekEnded, m_bStop, m_StopEvent, reader,
                 sourceFailed>>

\* The source gives some of what was asked for.
SourceRead ==
  /\ process.at = "source"
  /\ \E n \in 1 .. Smaller(MaxSourceRead, m_fileSize - sourcePos) :
       /\ process' = [at |-> "write", first |-> sourcePos, iRead |-> n,
                      iTotalWrite |-> 0]
       /\ sourcePos' = sourcePos + n
  /\ UNCHANGED <<m_pCache, m_readPos, m_writePos, m_seekPos, m_seekPossible,
                 events, reader, sourceFailed>>

\* It gives nothing, at its end or because it fails; with data left in the
\* cache the thread waits for m_seekEvent, 2s, and tries again; else the input
\* is taken to have ended.
SourceRetry ==
  /\ process.at = "source"
  /\ m_writePos < m_fileSize /\ Front(ring) > 0
  /\ SeekEventSeen
  /\ Goto("top")
  /\ UNCHANGED <<m_pCache, position, m_seekEnded, m_bStop, m_StopEvent, reader,
                 sourceFailed>>

SourceEnd ==
  /\ process.at = "source"
  /\ m_writePos >= m_fileSize \/ Front(ring) = 0
  /\ m_pCache' = [m_pCache EXCEPT !.m_pCache = EndOfInput(@)]
  /\ sourceFailed' = IF m_writePos < m_fileSize THEN sourceFailed \cup {"read"}
                     ELSE sourceFailed
  /\ Goto("eof")
  /\ UNCHANGED <<position, events, reader>>

\* AbortableWait(m_seekEvent) after the end of the input
EofSeek ==
  /\ process.at = "eof" /\ m_seekEvent
  /\ SeekEventSeen
  /\ m_pCache' = [m_pCache EXCEPT !.m_pCache = ClearEndOfInput(@)]
  /\ sourceFailed' = sourceFailed \ {"read"}
  /\ Goto("top")
  /\ UNCHANGED <<position, m_seekEnded, m_bStop, m_StopEvent, reader>>

EofStopped ==
  /\ process.at = "eof" /\ m_StopEvent
  /\ Goto("exit")
  /\ UNCHANGED <<m_pCache, position, events, reader, sourceFailed>>

(***************************************************************************)
(* The write loop: a step writes what fits before the wrap.  It ends with  *)
(* the chunk, on a stop, or when a seek is asked for, which must not be    *)
(* kept waiting by a full cache; the rest of the chunk is then dropped.    *)
(***************************************************************************)
WriteStopped ==
  /\ process.at = "write" /\ m_bStop
  /\ m_writePos' = m_writePos + process.iTotalWrite
  /\ Goto("top")
  /\ UNCHANGED <<m_pCache, m_readPos, m_seekPos, m_seekPossible, sourcePos, events,
                 reader, sourceFailed>>

Write ==
  /\ process.at = "write" /\ ~ m_bStop
  /\ LET first == process.first + process.iTotalWrite
         len   == process.iRead - process.iTotalWrite
         total == process.iTotalWrite + WriteLength(ring, len)
     IN /\ m_pCache' = [m_pCache EXCEPT !.m_pCache = WriteToCache(@, first, len)]
        /\ IF total = process.iRead \/ m_seekEvent
             THEN Goto("top") /\ m_writePos' = m_writePos + total
             ELSE /\ process' = [process EXCEPT !.iTotalWrite = total]
                  /\ UNCHANGED m_writePos
  /\ UNCHANGED <<m_readPos, m_seekPos, m_seekPossible, sourcePos, events, reader,
                 sourceFailed>>

OnExit ==
  /\ process.at = "exit"
  /\ m_bStop' = TRUE
  /\ m_pCache' = [m_pCache EXCEPT !.m_pCache = EndOfInput(@)]
  /\ m_seekEnded' = TRUE
  /\ Goto("done")
  /\ UNCHANGED <<position, m_seekEvent, m_StopEvent, reader, sourceFailed>>

-----------------------------------------------------------------------------
(***************************************************************************)
(* Close: StopThread's three steps, and the wait for the thread.           *)
(***************************************************************************)
CloseCall ==
  /\ reader.at = "idle"
  /\ reader' = [at |-> "stopping", arg |-> 0] /\ m_bStop' = TRUE
  /\ UNCHANGED <<m_pCache, position, m_seekEvent, m_seekEnded, m_StopEvent,
                 process, sourceFailed>>

CloseWakes ==
  /\ reader.at = "stopping"
  /\ reader' = [reader EXCEPT !.at = "waking"] /\ m_seekEvent' = TRUE
  /\ UNCHANGED <<m_pCache, position, m_seekEnded, m_bStop, m_StopEvent, process,
                 sourceFailed>>

CloseStops ==
  /\ reader.at = "waking"
  /\ reader' = [reader EXCEPT !.at = "joining"] /\ m_StopEvent' = TRUE
  /\ UNCHANGED <<m_pCache, position, m_seekEvent, m_seekEnded, m_bStop, process,
                 sourceFailed>>

Closed ==
  /\ reader.at = "joining" /\ process.at = "done"
  /\ reader' = [reader EXCEPT !.at = "closed"]
  /\ UNCHANGED <<m_pCache, position, events, process, sourceFailed>>

-----------------------------------------------------------------------------
ReaderCalls == \/ ReadCall(ReadSize)
               \/ \E iTarget \in 0 .. MaxTarget : SeekCall(iTarget)
               \/ CloseCall

ReaderStep == \/ ReadData \/ ReadNothing \/ ReadWaited
              \/ SeekWaited \/ SeekEnded \/ SeekRemaining \/ SeekAgain
              \/ SeekAgainWaited \/ SeekReturn
              \/ CloseWakes \/ CloseStops \/ Closed

ProcessStep == \/ Start \/ LoopTop \/ NoSeek \/ HandleSeek \/ HandleSeekFailed
               \/ CheckSpace \/ SourceRead \/ SourceRetry \/ SourceEnd
               \/ EofSeek \/ EofStopped \/ WriteStopped \/ Write \/ OnExit

Next == ReaderCalls \/ ReaderStep \/ ReadTimedOut \/ ProcessStep

Spec == Init /\ [][Next]_vars

\* The threads run; nothing says that a call is made, or that 10 s pass first.
FairSpec == Spec /\ WF_vars(ReaderStep) /\ WF_vars(ProcessStep)
-----------------------------------------------------------------------------
(***************************************************************************)
(* A Read or a Seek of the source that fails leaves its own wounds, and so *)
(* does a thread that stops; otherwise the file reads like its source.     *)
(***************************************************************************)
Sound == "seek" \notin sourceFailed /\ ~ m_bStop

RingBounds(c) == /\ c.m_beg <= c.m_cur /\ c.m_cur <= c.m_end
                 /\ c.m_end <= c.m_beg + m_size

HoldsSource(c) == \A p \in c.m_beg .. (c.m_end - 1) : c.m_buf[Index(p)] = p

\* Each ring keeps its positions in order and within its size, and each byte
\* between m_beg and m_end is the source's byte of that position, whatever
\* chunks were cut at the wrap, dropped for a seek or read after a swap.
RingIntact ==
  \A c \in {ring, m_pCache.m_pCacheOld} \ {NULL} :
    RingBounds(c) /\ ("seek" \notin sourceFailed => HoldsSource(c))

\* The assertion of Process: after the reset the ring ends where the source
\* was sought to, be the rings swapped or not.
AssertionHolds ==
  process.at = "poll" =>
    ResetCache(m_pCache, m_seekPos).m_pCache.m_end = CacheMaxPos

\* The cache between any two steps: both rings and what Process relies on.
CacheIntact == TypeOK /\ RingIntact /\ AssertionHolds

\* What Read gives back are the source's bytes from GetPosition() on: the
\* position the file reports and the ring's never part, in whatever way a
\* seek was served.
ReadsSource ==
  [][ReadData /\ Sound =>
       \A i \in DOMAIN BytesRead(ring, reader.arg) :
         BytesRead(ring, reader.arg)[i] = m_readPos + i]_vars

\* Read answers 0, not by its time-out, only at the end of the file, unless
\* the source failed: a flag of an end met before a seek back is not left.
NoFalseEof ==
  [][(ReadNothing \/ ReadWaited) /\ reader'.at = "idle" /\ Sound
       /\ "read" \notin sourceFailed => m_readPos = m_fileSize]_vars

\* A write leaves the m_size_back bytes behind the reader (WriteToCache's
\* comment), wherever the reader has moved since the room was checked.
BackBufferKept ==
  [][Write => \/ ring'.m_beg = ring.m_beg
              \/ ring'.m_beg + m_size_back <= ring.m_cur]_vars

\* Every call returns.  A seek asked of the thread is answered: no other wait
\* takes its event for good, and a thread that ends answers too.  A Read that
\* waits gets data or the end of the input, and not only by its 10 seconds:
\* the thread does not stay out of the source for want of room.  Close does
\* not hang: a thread that took the event of StopThread in a pause does not
\* sleep through the stop.
CallsReturn ==
  reader.at \in {"requested", "waiting", "stopping"}
    ~> reader.at \in {"idle", "closed"}
=============================================================================
