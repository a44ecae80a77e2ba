---------------------------- MODULE StreamPlayers ----------------------------
(***************************************************************************)
(* How CVideoPlayer flushes, drains and closes its audio and video players *)
(* through their message queues: the thread of CVideoPlayer, the threads   *)
(* of CVideoPlayerAudio and CVideoPlayerVideo, and the synchronize message *)
(* they meet at (xbmc/cores/VideoPlayer/VideoPlayer.cpp FlushBuffers,      *)
(* VideoPlayer{Audio,Video}.cpp, DVDMessage.cpp).                          *)
(*                                                                         *)
(* Each critical section of a queue is one action.  Pictures, clocks and   *)
(* the messages that do not touch the queues are left out; what a stream   *)
(* player's state would decide (the priority it asks for, whether its      *)
(* codec takes a packet) is chosen.                                        *)
(*                                                                         *)
(* The names differ from those of DVDMessageQueue, so that one module can  *)
(* prove theorems about both.                                              *)
(***************************************************************************)
EXTENDS MessageList, FiniteSets

CONSTANTS
  MaxEpoch,        \* bound: how many times FlushBuffers is called
  ConvergeCount    \* GetConvergeCount of the video codec

ASSUME StreamAssumption == MaxEpoch \in Nat /\ ConvergeCount \in Nat

Stream == {"audio", "video"}
AnySource == "any"

VARIABLES
  queues,      \* the message queue of each stream player
  unsent,      \* the messages that were not made yet
  epoch,       \* how often FlushBuffers was called (history)
  sentIn,      \* the epoch a message was sent in (history)
  player,      \* where the thread of CVideoPlayer is
  m_bStop,     \* CVideoPlayer was told to stop
  closing,     \* the stream it is closing, as a set
  waitsFor,    \* the synchronize message it waits for, as a set
  flushEnd,    \* how the wait of the last FlushBuffers ended (history)
  drainEnd,    \* how the wait of the last WaitUntilEmpty ended (history)
  sources, reached, expired,   \* the state of each synchronize message
  at,          \* where the thread of a stream player is
  stopped,     \* m_bStop of the stream players
  priority,    \* the minimum priority their Get waits with
  onlyPrioMsgs,
  pMsg,        \* the message a stream player has taken, as a set
  codec,       \* the packets its codec was given since it was reset
  m_packets,   \* the packets it keeps to recover the codec, oldest first
  flushed      \* the epoch of the last GENERAL_FLUSH it handled (history)

playerVars == <<player, m_bStop, closing, waitsFor, flushEnd, drainEnd, epoch>>
syncVars   == <<sources, reached, expired>>
threadVars == <<at, stopped, priority, onlyPrioMsgs, pMsg, codec, m_packets,
                flushed>>
streamVars == <<queues, unsent, sentIn, playerVars, syncVars, threadVars>>

Messages(type) == {m \in Message : TypeOf[m] = type}

StreamInit ==
  /\ queues = [s \in Stream |-> NewQueue]
  /\ unsent = Message /\ epoch = 0 /\ sentIn = [m \in Message |-> 0]
  /\ player = "run" /\ m_bStop = FALSE
  /\ closing = {} /\ waitsFor = {} /\ flushEnd = "none" /\ drainEnd = "none"
  /\ sources = [m \in Message |-> {}] /\ reached = [m \in Message |-> {}]
  /\ expired = {}
  /\ at = [s \in Stream |-> "none"] /\ stopped = [s \in Stream |-> FALSE]
  /\ priority = [s \in Stream |-> 0]
  /\ onlyPrioMsgs = [s \in Stream |-> FALSE]
  /\ pMsg = [s \in Stream |-> {}] /\ codec = [s \in Stream |-> {}]
  /\ m_packets = [s \in Stream |-> <<>>]
  /\ flushed = [s \in Stream |-> 0]

-----------------------------------------------------------------------------
(* The thread of CVideoPlayer.                                             *)

Step(from, to) == player = from /\ player' = to

\* The bound of the model: an operation starts when its messages can be made.
Unsent(type) == Messages(type) \intersect unsent

\* A new message m is put into the queue of stream s.
Send(s, m, prio) ==
  /\ m \in unsent
  /\ unsent' = unsent \ {m}
  /\ sentIn' = [sentIn EXCEPT ![m] = epoch]
  /\ queues' = [queues EXCEPT ![s] = Put(@, m, prio)]

OpenStream(s) ==
  /\ player = "run" /\ ~m_bStop
  /\ ~queues[s].m_bInitialized
  /\ queues' = [queues EXCEPT ![s] = InitQueue(@)]
  /\ at' = [at EXCEPT ![s] = "loop"]
  /\ stopped' = [stopped EXCEPT ![s] = FALSE]
  /\ codec' = [codec EXCEPT ![s] = {}]
  /\ m_packets' = [m_packets EXCEPT ![s] = <<>>]
  /\ UNCHANGED <<unsent, sentIn, playerVars, syncVars, priority, onlyPrioMsgs,
                 pMsg, flushed>>

\* ProcessAudioData and ProcessVideoData, while both players accept data.
SendPacket(s, m) ==
  /\ player = "run" /\ ~m_bStop
  /\ queues[s].m_bInitialized
  /\ \A t \in Stream : ~IsFull(queues[t])
  /\ m \in Messages("packet")
  /\ Send(s, m, 0)
  /\ UNCHANGED <<playerVars, syncVars, threadVars>>

\* FlushBuffers: the audio queue is flushed, both players are sent a
\* GENERAL_FLUSH, and unless the speed rules it out both must answer.
FlushAudioQueue ==
  /\ Step("run", "flushAudio") /\ ~m_bStop
  /\ epoch < MaxEpoch /\ Cardinality(Unsent("flush")) >= 2
  /\ epoch' = epoch + 1 /\ flushEnd' = "none"
  /\ queues' = [queues EXCEPT !["audio"] = FlushType(@, "packet")]
  /\ UNCHANGED <<unsent, sentIn, m_bStop, closing, waitsFor, drainEnd,
                 syncVars, threadVars>>

SendFlush(s, from, to) ==
  /\ Step(from, to)
  /\ \E m \in Messages("flush") : Send(s, m, 1)
  /\ UNCHANGED <<epoch, m_bStop, closing, waitsFor, flushEnd, drainEnd,
                 syncVars, threadVars>>

FlushAudio == SendFlush("audio", "flushAudio", "flushVideo")
FlushVideo == SendFlush("video", "flushVideo", "flushed")

SkipSynchronize ==
  /\ Step("flushed", "run")
  /\ flushEnd' = "skipped"
  /\ UNCHANGED <<queues, unsent, sentIn, epoch, m_bStop, closing, waitsFor,
                 drainEnd, syncVars, threadVars>>

SynchronizeAudio ==
  /\ Step("flushed", "syncVideo")
  /\ \E m \in Messages("sync") :
       /\ Send("audio", m, 1)
       /\ sources' = [sources EXCEPT ![m] = Stream]
       /\ waitsFor' = {m}
  /\ UNCHANGED <<epoch, m_bStop, closing, flushEnd, drainEnd, reached, expired,
                 threadVars>>

SynchronizeVideo ==
  /\ Step("syncVideo", "wait")
  /\ \E m \in waitsFor : queues' = [queues EXCEPT !["video"] = Put(@, m, 1)]
  /\ UNCHANGED <<unsent, sentIn, epoch, m_bStop, closing, waitsFor, flushEnd,
                 drainEnd, syncVars, threadVars>>

Complete(m) == reached[m] = sources[m]

\* Mutant of CanEnd: the message has no timeout of its own.
CanEndUntimed(m, abort) == Complete(m) \/ abort

\* How CDVDMsgGeneralSynchronize::Wait with an abort flag ends, if it can.
CanEnd(m, abort) == Complete(m) \/ m \in expired \/ abort
EndOf(m) == IF Complete(m) THEN "reached"
            ELSE IF m \in expired THEN "timeout" ELSE "aborted"

Synchronized ==
  /\ Step("wait", "run")
  /\ \E m \in waitsFor : CanEnd(m, m_bStop) /\ flushEnd' = EndOf(m)
  /\ waitsFor' = {}
  /\ UNCHANGED <<queues, unsent, sentIn, epoch, m_bStop, closing, drainEnd,
                 syncVars, threadVars>>

Stop ==
  /\ ~m_bStop /\ m_bStop' = TRUE
  /\ UNCHANGED <<queues, unsent, sentIn, player, epoch, closing, waitsFor,
                 flushEnd, drainEnd, syncVars, threadVars>>

\* CloseStream of a stream player, with or without WaitUntilEmpty before.
CloseStream(s) ==
  /\ queues[s].m_bInitialized
  /\ closing' = {s}
  /\ \/ Step("run", "abort")
     \/ Step("run", "drain") /\ ~m_bStop /\ Unsent("sync") # {}
  /\ UNCHANGED <<queues, unsent, sentIn, epoch, m_bStop, waitsFor, flushEnd,
                 drainEnd, syncVars, threadVars>>

DrainClosing(b) ==
  queues' = [s \in Stream |-> IF s \in closing
                              THEN [queues[s] EXCEPT !.m_drain = b]
                              ELSE queues[s]]

BeginDrain ==
  /\ Step("drain", "putDrain")
  /\ DrainClosing(TRUE)
  /\ UNCHANGED <<unsent, sentIn, epoch, m_bStop, closing, waitsFor, flushEnd,
                 drainEnd, syncVars, threadVars>>

\* Mutant of PutDrain: the message overtakes what was put before.
PutDrainUrgent ==
  /\ Step("putDrain", "waitDrain")
  /\ \E m \in Messages("sync"), s \in closing :
       /\ Send(s, m, 1)
       /\ sources' = [sources EXCEPT ![m] = {AnySource}]
       /\ waitsFor' = {m}
  /\ UNCHANGED <<epoch, m_bStop, closing, flushEnd, drainEnd, reached, expired,
                 threadVars>>

PutDrain ==
  /\ Step("putDrain", "waitDrain")
  /\ \E m \in Messages("sync"), s \in closing :
       /\ Send(s, m, 0)
       /\ sources' = [sources EXCEPT ![m] = {AnySource}]
       /\ waitsFor' = {m}
  /\ UNCHANGED <<epoch, m_bStop, closing, flushEnd, drainEnd, reached, expired,
                 threadVars>>

WaitDrain ==
  /\ Step("waitDrain", "drained")
  /\ \E m \in waitsFor, s \in closing :
       CanEnd(m, queues[s].m_bAbortRequest) /\ drainEnd' = EndOf(m)
  /\ waitsFor' = {}
  /\ UNCHANGED <<queues, unsent, sentIn, epoch, m_bStop, closing, flushEnd,
                 syncVars, threadVars>>

EndDrain ==
  /\ Step("drained", "abort")
  /\ DrainClosing(FALSE)
  /\ drainEnd' = "none"
  /\ UNCHANGED <<unsent, sentIn, epoch, m_bStop, closing, waitsFor, flushEnd,
                 syncVars, threadVars>>

Abort ==
  /\ Step("abort", "stopThread")
  /\ \E s \in closing : queues' = [queues EXCEPT ![s] = AbortQueue(@)]
  /\ UNCHANGED <<unsent, sentIn, epoch, m_bStop, closing, waitsFor, flushEnd,
                 drainEnd, syncVars, threadVars>>

StopThread ==
  /\ Step("stopThread", "join")
  /\ stopped' = [s \in Stream |-> stopped[s] \/ s \in closing]
  /\ UNCHANGED <<queues, unsent, sentIn, epoch, m_bStop, closing, waitsFor,
                 flushEnd, drainEnd, syncVars, at, priority, onlyPrioMsgs,
                 pMsg, codec, m_packets, flushed>>

\* Mutant of End: the thread is not joined first.
EndUnjoined ==
  /\ Step("join", "run")
  /\ closing' = {}
  /\ \E s \in closing :
       /\ queues' = [queues EXCEPT ![s] = EndQueue(@)]
       /\ codec' = [codec EXCEPT ![s] = {}]
  /\ UNCHANGED <<unsent, sentIn, epoch, m_bStop, waitsFor, flushEnd, drainEnd,
                 syncVars, at, stopped, priority, onlyPrioMsgs, pMsg,
                 m_packets, flushed>>

End ==
  /\ Step("join", "run")
  /\ closing' = {}
  /\ \E s \in closing :
       /\ at[s] = "none"
       /\ queues' = [queues EXCEPT ![s] = EndQueue(@)]
       /\ codec' = [codec EXCEPT ![s] = {}]
  /\ UNCHANGED <<unsent, sentIn, epoch, m_bStop, waitsFor, flushEnd, drainEnd,
                 syncVars, at, stopped, priority, onlyPrioMsgs, pMsg,
                 m_packets, flushed>>

\* The timer of a synchronize message runs from its construction, while anyone
\* has the message.
Queued(s) == {item.message : item \in ToSet(queues[s].m_messages)
                                        \union ToSet(queues[s].m_prioMessages)}

Expire(m) ==
  /\ m \in Messages("sync") \ expired
  /\ m \in waitsFor \union UNION {Queued(s) \union pMsg[s] : s \in Stream}
  /\ expired' = expired \union {m}
  /\ UNCHANGED <<queues, unsent, sentIn, playerVars, sources, reached,
                 threadVars>>

-----------------------------------------------------------------------------
(* The threads of the stream players.                                      *)

Goto(s, l) == at' = [at EXCEPT ![s] = l]

\* Get with minimum priority p, up to its return or its wait.  A Get with no
\* time to wait (the sink of the audio player may grant none) times out.
TakeMessage(s, p) ==
  /\ ~queues[s].m_bAbortRequest
  /\ HasMessage(queues[s], p)
  /\ queues' = [queues EXCEPT ![s] = Taken(@, p)]
  /\ pMsg' = [pMsg EXCEPT ![s] = {GetItem(queues[s], p).message}]
  /\ priority' = [priority EXCEPT ![s] = 0]
  /\ Goto(s, "handle")

WaitForMessage(s, p) ==
  /\ ~queues[s].m_bAbortRequest
  /\ ~HasMessage(queues[s], p)
  /\ queues' = [queues EXCEPT ![s].m_hEvent = FALSE]
  /\ priority' = [priority EXCEPT ![s] = p]
  /\ Goto(s, "wait")
  /\ UNCHANGED pMsg

GetAtOnce(s, p) ==
  /\ s = "audio"
  /\ ~queues[s].m_bAbortRequest /\ ~HasMessage(queues[s], p)
  /\ Goto(s, "decode")
  /\ UNCHANGED <<queues, pMsg, priority>>

GetFails(s) ==
  /\ priority' = [priority EXCEPT ![s] = 0]
  /\ Goto(s, "none")
  /\ UNCHANGED <<queues, pMsg>>

Get(s) ==
  /\ at[s] = "loop" /\ ~stopped[s]
  /\ \/ /\ ~queues[s].m_bInitialized \/ queues[s].m_bAbortRequest
        /\ GetFails(s)
     \/ /\ queues[s].m_bInitialized
        /\ \E p \in IF onlyPrioMsgs[s] THEN {1} ELSE {0, 1} :
             \/ TakeMessage(s, p) \/ GetAtOnce(s, p)
             \/ WaitForMessage(s, p) /\ ~(s = "audio" /\ onlyPrioMsgs[s])
  /\ onlyPrioMsgs' = [onlyPrioMsgs EXCEPT ![s] = FALSE]
  /\ UNCHANGED <<unsent, sentIn, playerVars, syncVars, stopped, codec,
                 m_packets, flushed>>

\* The event is set: Get looks again, whatever it was set for.
GetAgain(s) ==
  /\ at[s] = "wait" /\ queues[s].m_hEvent
  /\ \/ queues[s].m_bAbortRequest /\ GetFails(s)
     \/ TakeMessage(s, priority[s]) \/ WaitForMessage(s, priority[s])
  /\ UNCHANGED <<unsent, sentIn, playerVars, syncVars, stopped, onlyPrioMsgs,
                 codec, m_packets, flushed>>

GetTimesOut(s) ==
  /\ at[s] = "wait" /\ ~queues[s].m_hEvent
  /\ priority' = [priority EXCEPT ![s] = 0]
  /\ Goto(s, "decode")
  /\ UNCHANGED <<queues, unsent, sentIn, playerVars, syncVars, stopped,
                 onlyPrioMsgs, pMsg, codec, m_packets, flushed>>

\* ProcessDecoderOutput, or none if no picture is wanted.
DecoderOutput(s) ==
  /\ at[s] = "decode"
  /\ Goto(s, "loop")
  /\ \E b \in BOOLEAN : onlyPrioMsgs' = [onlyPrioMsgs EXCEPT ![s] = b]
  /\ UNCHANGED <<queues, unsent, sentIn, playerVars, syncVars, stopped,
                 priority, pMsg, codec, m_packets, flushed>>

\* The packets of a list are put one after the other, ahead of the control messages.
PutPackets(q, list) == FoldLeft(LAMBDA r, m : Put(r, m, 10), q, list)

\* The video codec was flushed: the packets kept are sent again.
DecoderFlushed(s) ==
  /\ s = "video" /\ at[s] = "decode"
  /\ queues' = [queues EXCEPT ![s] = PutPackets(@, m_packets[s])]
  /\ m_packets' = [m_packets EXCEPT ![s] = <<>>]
  /\ codec' = [codec EXCEPT ![s] = {}]
  /\ Goto(s, "loop")
  /\ UNCHANGED <<unsent, sentIn, playerVars, syncVars, stopped, priority,
                 onlyPrioMsgs, pMsg, flushed>>

Holds(s, type, m) == at[s] = "handle" /\ m \in pMsg[s] /\ TypeOf[m] = type
Done(s, l) == Goto(s, l) /\ pMsg' = [pMsg EXCEPT ![s] = {}]

\* Mutant of HandleSynchronize: one source answers for all.
HandleSynchronizeForAll(s) ==
  /\ \E m \in Message :
       /\ Holds(s, "sync", m)
       /\ reached' = [reached EXCEPT ![m] = sources[m]]
  /\ Goto(s, "sync")
  /\ UNCHANGED <<queues, unsent, sentIn, playerVars, sources, expired, stopped,
                 priority, onlyPrioMsgs, pMsg, codec, m_packets, flushed>>

\* Wait(100ms, source): the other sources may be awaited, up to a request
\* timeout that puts the message back behind the other priority messages.
HandleSynchronize(s) ==
  /\ \E m \in Message :
       /\ Holds(s, "sync", m)
       /\ reached' = [reached EXCEPT ![m] =
                     @ \union ({s, AnySource} \intersect sources[m])]
  /\ Goto(s, "sync")
  /\ UNCHANGED <<queues, unsent, sentIn, playerVars, sources, expired, stopped,
                 priority, onlyPrioMsgs, pMsg, codec, m_packets, flushed>>

SynchronizeReturns(s) ==
  /\ at[s] = "sync"
  /\ \E m \in pMsg[s] :
       \/ /\ Complete(m) \/ m \in expired
          /\ UNCHANGED queues
       \/ /\ ~Complete(m) /\ m \notin expired
          /\ queues' = [queues EXCEPT ![s] = Put(@, m, 1)]
  /\ Done(s, "loop")
  /\ UNCHANGED <<unsent, sentIn, playerVars, syncVars, stopped, priority,
                 onlyPrioMsgs, codec, m_packets, flushed>>

\* Mutant of HandleFlush: the packets kept for recovery survive the flush.
HandleFlushKeepsPackets(s) ==
  /\ \E m \in Message :
       /\ Holds(s, "flush", m)
       /\ flushed' = [flushed EXCEPT ![s] = sentIn[m]]
  /\ queues' = IF s = "video"
               THEN [queues EXCEPT ![s] = FlushType(@, "packet")] ELSE queues
  /\ codec' = [codec EXCEPT ![s] = {}]
  /\ Done(s, "loop")
  /\ UNCHANGED <<unsent, sentIn, playerVars, syncVars, stopped, priority,
                 onlyPrioMsgs, m_packets>>

\* The video player flushes its queue itself.
HandleFlush(s) ==
  /\ \E m \in Message :
       /\ Holds(s, "flush", m)
       /\ flushed' = [flushed EXCEPT ![s] = sentIn[m]]
  /\ queues' = IF s = "video"
               THEN [queues EXCEPT ![s] = FlushType(@, "packet")] ELSE queues
  /\ codec' = [codec EXCEPT ![s] = {}]
  /\ m_packets' = [m_packets EXCEPT ![s] = <<>>]
  /\ Done(s, "loop")
  /\ UNCHANGED <<unsent, sentIn, playerVars, syncVars, stopped, priority,
                 onlyPrioMsgs>>

Kept(list) == IF Len(list) > ConvergeCount THEN Tail(list) ELSE list

AddData(s) ==
  /\ \E m \in Message :
       /\ Holds(s, "packet", m)
       /\ codec' = [codec EXCEPT ![s] = @ \union {m}]
       /\ m_packets' = IF s = "video" /\ ConvergeCount > 0
                       THEN [m_packets EXCEPT ![s] = Kept(Append(@, m))]
                       ELSE m_packets
  /\ Done(s, "decode")
  /\ UNCHANGED <<queues, unsent, sentIn, playerVars, syncVars, stopped,
                 priority, onlyPrioMsgs, flushed>>

\* The codec does not take the packet.
PutPacketBack(s) ==
  /\ \E m \in Message :
       /\ Holds(s, "packet", m)
       /\ queues' = [queues EXCEPT ![s] = PutBack(@, m, 0)]
  /\ onlyPrioMsgs' = [onlyPrioMsgs EXCEPT ![s] = TRUE]
  /\ Done(s, "loop")
  /\ UNCHANGED <<unsent, sentIn, playerVars, syncVars, stopped, priority,
                 codec, m_packets, flushed>>

\* The audio player skips packets at speeds it does not play.
SkipPacket(s) ==
  /\ s = "audio"
  /\ \E m \in Message : Holds(s, "packet", m)
  /\ Done(s, "loop")
  /\ UNCHANGED <<queues, unsent, sentIn, playerVars, syncVars, stopped,
                 priority, onlyPrioMsgs, codec, m_packets, flushed>>

ThreadEnds(s) ==
  /\ at[s] = "loop" /\ stopped[s]
  /\ Goto(s, "none")
  /\ UNCHANGED <<queues, unsent, sentIn, playerVars, syncVars, stopped,
                 priority, onlyPrioMsgs, pMsg, codec, m_packets, flushed>>

-----------------------------------------------------------------------------
FlushBuffers ==
  FlushAudio \/ FlushVideo \/ SkipSynchronize \/ SynchronizeAudio
    \/ SynchronizeVideo \/ Synchronized

WaitUntilEmpty == BeginDrain \/ PutDrain \/ WaitDrain \/ EndDrain

CloseSteps == WaitUntilEmpty \/ Abort \/ StopThread \/ End

PlayerCalls ==
  \/ FlushAudioQueue \/ Stop
  \/ \E s \in Stream :
       OpenStream(s) \/ CloseStream(s) \/ \E m \in Message : SendPacket(s, m)

Process(s) ==
  \/ Get(s) \/ GetAgain(s) \/ GetTimesOut(s)
  \/ DecoderOutput(s) \/ DecoderFlushed(s)
  \/ HandleSynchronize(s) \/ SynchronizeReturns(s) \/ HandleFlush(s)
  \/ AddData(s) \/ PutPacketBack(s) \/ SkipPacket(s) \/ ThreadEnds(s)

StreamNext ==
  \/ PlayerCalls \/ FlushBuffers \/ CloseSteps
  \/ \E m \in Message : Expire(m)
  \/ \E s \in Stream : Process(s)

StreamSpec == StreamInit /\ [][StreamNext]_streamVars

-----------------------------------------------------------------------------
(* Properties.                                                             *)

\* The variables stay in their ranges; a priority message is in its own list.
StreamTypeOK ==
  /\ \A s \in Stream :
       /\ \A i \in DOMAIN queues[s].m_messages :
            queues[s].m_messages[i] \in [message : Message, priority : {0}]
       /\ \A i \in DOMAIN queues[s].m_prioMessages :
            queues[s].m_prioMessages[i]
              \in [message : Message, priority : {1, 10}]
       /\ queues[s].m_iDataSize \in Nat
  /\ unsent \subseteq Message /\ epoch \in 0..MaxEpoch
  /\ sentIn \in [Message -> 0..MaxEpoch]
  /\ player \in {"run", "flushAudio", "flushVideo", "flushed", "syncVideo",
                 "wait", "drain", "putDrain", "waitDrain", "drained", "abort",
                 "stopThread", "join"}
  /\ closing \subseteq Stream /\ waitsFor \subseteq Message
  /\ at \in [Stream -> {"none", "loop", "wait", "handle", "sync", "decode"}]
  /\ priority \in [Stream -> {0, 1}]
  /\ pMsg \in [Stream -> SUBSET Message] /\ codec \in [Stream -> SUBSET Message]
  /\ flushed \in [Stream -> 0..MaxEpoch]

\* Where a packet can be: in the queue, in the hands of the player, in its codec
\* or kept for the codec's recovery.
Present(s) ==
  {m \in Queued(s) \union pMsg[s] \union codec[s] \union ToSet(m_packets[s]) :
     IsPacket(m)}

\* "any demux packet that has been taken out of queue need to be disposed of
\* before we flush" (VideoPlayerVideo.cpp:797): once the video player has
\* handled a GENERAL_FLUSH no packet from before it is left anywhere.
VideoFlushed == \A m \in Present("video") : sentIn[m] >= flushed["video"]

\* "make sure players are properly flushed" (VideoPlayer.cpp:4007): when both
\* players have answered, both have handled the GENERAL_FLUSH before.
BarrierFlushes ==
  flushEnd = "reached" => \A s \in Stream : flushed[s] = epoch

\* The barrier of FlushBuffers means what it is waited for.
FlushComplete == BarrierFlushes /\ VideoFlushed

\* WaitUntilEmpty waits until the messages put before were taken, if it does
\* not run into its timeout; of the video player only with a codec that keeps no
\* packets to recover, since those are sent again at any time.
DrainEmpties ==
  player = "drained" /\ drainEnd = "reached" =>
    \A s \in closing : s = "audio" \/ ConvergeCount = 0
                        => queues[s].m_messages = <<>>

\* A stream player only runs while its queue is initialized: End comes after
\* the thread was joined, so Get never finds a queue that was ended.
NoGetAfterEnd ==
  /\ StreamTypeOK
  /\ \A s \in Stream : at[s] # "none" => queues[s].m_bInitialized

-----------------------------------------------------------------------------
(* Liveness: every thread is scheduled, and timers run out.                *)

Fairness ==
  /\ WF_streamVars(FlushBuffers \/ CloseSteps)
  /\ \A s \in Stream : WF_streamVars(Process(s))
  /\ \A m \in Messages("sync") : WF_streamVars(Expire(m))

StreamFairSpec == StreamSpec /\ Fairness

\* FlushBuffers and CloseStream return, whatever the stream players are doing
\* and whichever of them is open.
PlayerReturns == (player # "run") ~> (player = "run")

=============================================================================
