--------------------------- MODULE DVDMessageQueue ---------------------------
(***************************************************************************)
(* One CDVDMessageQueue (xbmc/cores/VideoPlayer/DVDMessageQueue.{h,cpp})   *)
(* with the one thread that gets from it and any number that put.  Every   *)
(* critical section is one action; a Get that finds nothing resets the     *)
(* event, leaves the section, and only then waits.                         *)
(***************************************************************************)
EXTENDS MessageList, FiniteSets

CONSTANT DemuxOrder     \* the packets, as the demuxer reads them

\* Packets of one stream are read in the order of their times.
ASSUME DemuxAssumption ==
  /\ IsFiniteSet(Message)
  /\ DemuxOrder \in Seq(Message)
  /\ \A m \in Message : IsPacket(m) => m \in ToSet(DemuxOrder)
  /\ \A i, k \in DOMAIN DemuxOrder :
       k < i /\ {TimeOf[DemuxOrder[k]], TimeOf[DemuxOrder[i]]} \subseteq Nat
         => TimeOf[DemuxOrder[k]] <= TimeOf[DemuxOrder[i]]

VARIABLES
  queue,
  fresh,      \* the messages not put yet
  getter,     \* where the getting thread is
  minimum,    \* the minimum priority its Get was called with, 0 outside of Get
  held,       \* the item the last Get returned, as a set
  sent        \* per message, how many were put before it (history)

vars == <<queue, fresh, getter, minimum, held, sent>>

Priority == {0, 1, 10}     \* the priorities of the code's Put calls
Minimum  == {0, 1}         \* and of its Get calls

Init ==
  /\ queue = NewQueue
  /\ fresh = Message
  /\ getter = "idle" /\ minimum = 0 /\ held = {}
  /\ sent = [m \in Message |-> 0]

-----------------------------------------------------------------------------
(* The threads that own and feed the queue.                                *)

QueueInit ==
  /\ ~queue.m_bInitialized
  /\ queue' = InitQueue(queue)
  /\ UNCHANGED <<fresh, getter, minimum, held, sent>>

\* Packets are put in the order the demuxer reads them.
Turn(m) ==
  \A i, k \in DOMAIN DemuxOrder : DemuxOrder[i] = m /\ k < i => DemuxOrder[k] \notin fresh

QueuePut(m, priority) ==
  /\ m \in fresh /\ Turn(m)
  /\ fresh' = fresh \ {m}
  /\ queue' = Put(queue, m, priority)
  /\ sent' = [sent EXCEPT ![m] = Cardinality(Message \ fresh)]
  /\ UNCHANGED <<getter, minimum, held>>

QueueFlush(type) ==
  /\ queue' = FlushType(queue, type)
  /\ UNCHANGED <<fresh, getter, minimum, held, sent>>

QueueAbort ==
  /\ queue.m_bInitialized /\ ~queue.m_bAbortRequest
  /\ queue' = AbortQueue(queue)
  /\ UNCHANGED <<fresh, getter, minimum, held, sent>>

\* The owner ends the queue when the getting thread has ended.
QueueEnd ==
  /\ queue.m_bAbortRequest /\ getter = "ended"
  /\ queue' = EndQueue(queue)
  /\ getter' = "idle"
  /\ UNCHANGED <<fresh, minimum, held, sent>>

\* The two ends of WaitUntilEmpty, whose message is put by QueuePut.
SetDrain ==
  /\ queue' = [queue EXCEPT !.m_drain = ~@]
  /\ UNCHANGED <<fresh, getter, minimum, held, sent>>

-----------------------------------------------------------------------------
(* The getting thread.                                                     *)

GetBegin(p) ==
  /\ getter = "idle" /\ queue.m_bInitialized
  /\ getter' = "get" /\ minimum' = p /\ held' = {}
  /\ UNCHANGED <<queue, fresh, sent>>

GetOK ==
  /\ getter = "get" /\ ~queue.m_bAbortRequest
  /\ HasMessage(queue, minimum)
  /\ held' = {GetItem(queue, minimum)}
  /\ queue' = Taken(queue, minimum)
  /\ getter' = "idle" /\ minimum' = 0
  /\ UNCHANGED <<fresh, sent>>

GetUnlock ==
  /\ getter = "get" /\ ~queue.m_bAbortRequest
  /\ ~HasMessage(queue, minimum)
  /\ queue' = [queue EXCEPT !.m_hEvent = FALSE]
  /\ getter' = "wait"
  /\ UNCHANGED <<fresh, minimum, held, sent>>

\* Mutant of GetAborted: the thread takes MSGQ_ABORT for a timeout.
GetAbortedAgain ==
  /\ getter = "get" /\ queue.m_bAbortRequest
  /\ getter' = "idle" /\ minimum' = 0 /\ held' = {}
  /\ UNCHANGED <<queue, fresh, sent>>

GetAborted ==
  /\ getter = "get" /\ queue.m_bAbortRequest
  /\ getter' = "ended" /\ minimum' = 0 /\ held' = {}
  /\ UNCHANGED <<queue, fresh, sent>>

GetWoken ==
  /\ getter = "wait" /\ queue.m_hEvent
  /\ getter' = "get"
  /\ UNCHANGED <<queue, fresh, minimum, held, sent>>

GetTimeout ==
  /\ getter = "wait" /\ ~queue.m_hEvent
  /\ getter' = "idle" /\ minimum' = 0
  /\ UNCHANGED <<queue, fresh, held, sent>>

\* A packet the codec does not take is put back to be got next.  (The packets
\* a player sent to itself with a priority are the subject of StreamPlayers.)
PutItemBack ==
  /\ getter = "idle"
  /\ \E item \in held :
       /\ IsPacket(item.message) /\ item.priority = 0
       /\ queue' = PutBack(queue, item.message, 0)
  /\ held' = {}
  /\ UNCHANGED <<fresh, getter, minimum, sent>>

-----------------------------------------------------------------------------
Owner ==
  \/ QueueInit \/ QueueAbort \/ QueueEnd \/ SetDrain
  \/ \E m \in Message, p \in Priority : QueuePut(m, p)
  \/ \E type \in {TypeOf[m] : m \in Message} : QueueFlush(type)

Getting ==
  \/ \E p \in Minimum : GetBegin(p)
  \/ GetOK \/ GetUnlock \/ GetAborted \/ GetWoken \/ GetTimeout

Next == Owner \/ Getting \/ PutItemBack

Spec == Init /\ [][Next]_vars

-----------------------------------------------------------------------------
(* Properties.                                                             *)

\* The variables stay in their ranges; priority messages have their own list.
TypeOK ==
  /\ \A i \in DOMAIN queue.m_messages :
       queue.m_messages[i] \in [message : Message, priority : {0}]
  /\ \A i \in DOMAIN queue.m_prioMessages :
       queue.m_prioMessages[i] \in [message : Message, priority : Priority \ {0}]
  /\ queue.m_iDataSize \in Nat
  /\ fresh \subseteq Message
  /\ getter \in {"idle", "get", "wait", "ended"} /\ minimum \in Minimum
  /\ held \subseteq [message : Message, priority : Priority]
  /\ sent \in [Message -> Nat]

\* No wake-up is lost: whenever the thread waits although there is a message for
\* it, or although the queue was aborted, its event is set.  Reset is called
\* before the section is left (DVDMessageQueue.cpp:207).
NoLostWakeup ==
  getter = "wait" /\ (HasMessage(queue, minimum) \/ queue.m_bAbortRequest)
    => queue.m_hEvent

\* The lists are in the order of delivery, urgent messages last: among messages
\* of one priority the one put first is nearer to the end, also when messages
\* that were put back or flushed were in between.
InOrder(list) ==
  \A i, k \in DOMAIN list : i < k =>
    \/ list[i].priority < list[k].priority
    \/ /\ list[i].priority = list[k].priority
       /\ sent[list[i].message] > sent[list[k].message]
DeliveryOrder == InOrder(queue.m_prioMessages) /\ InOrder(queue.m_messages)

SizeOf(item) == IF IsPacket(item.message) THEN PacketSize[item.message] ELSE 0

\* m_iDataSize is the size of the packets that wait in m_messages: no order of
\* puts, put-backs, takes and flushes makes the level of the queue drift.
DataSizeExact ==
  queue.m_iDataSize = FoldLeft(LAMBDA n, item : n + SizeOf(item),
                               0, queue.m_messages)

Timed(m) == IsPacket(m) /\ TimeOf[m] # NoPts

\* The time span behind GetLevel covers what is queued: while the level is based
\* on times, every packet's time is between m_TimeBack and m_TimeFront.
SpanCoversPackets ==
  ~IsDataBased(queue) =>
    \A i \in DOMAIN queue.m_messages :
      Timed(queue.m_messages[i].message) =>
        LET t == TimeOf[queue.m_messages[i].message]
        IN queue.m_TimeBack <= t /\ t <= queue.m_TimeFront

\* What the level of the queue is computed from is what the queue holds: neither
\* the size nor the span of times drifts (DVDMessageQueue.cpp:189).
LevelsExact == TypeOK /\ DataSizeExact /\ SpanCoversPackets

\* An aborted queue is left by the thread that gets from it.
FairSpec == Spec /\ WF_vars(Getting)
AbortEndsGet == queue.m_bAbortRequest ~> getter = "ended"

=============================================================================
