----------------------------- MODULE MessageList -----------------------------
(***************************************************************************)
(* The data of a CDVDMessageQueue (xbmc/cores/VideoPlayer/                 *)
(* DVDMessageQueue.{h,cpp}) and what its operations make of it, each under *)
(* the queue's m_section.  A queue is a record of the class's members; the *)
(* lists are sequences whose head is front(), so that messages are put at  *)
(* the head and taken from the end.                                        *)
(***************************************************************************)
EXTENDS Integers, SequencesExt, Subsequences

CONSTANTS
  Message,         \* the CDVDMsg objects
  TypeOf,          \* the type of each
  PacketSize,      \* the iSize of a packet, in units of size
  TimeOf,          \* a packet's dts, else its pts, else NoPts, in seconds
  m_iMaxDataSize,  \* SetMaxDataSize, in units of size
  MaxTimeSize,     \* SetMaxTimeSize, in seconds
  IntMax           \* the largest int, in units of size

NoPts == -1

ASSUME MessageAssumption ==
  /\ PacketSize \in [Message -> Nat]
  /\ TimeOf \in [Message -> Nat \union {NoPts}]
  /\ m_iMaxDataSize \in Nat \ {0} /\ MaxTimeSize \in Nat \ {0}
  /\ IntMax \in Nat \ {0}

IsPacket(m) == TypeOf[m] = "packet"

NewQueue ==
  [m_messages |-> <<>>, m_prioMessages |-> <<>>, m_iDataSize |-> 0,
   m_TimeBack |-> NoPts, m_TimeFront |-> NoPts, m_bInitialized |-> FALSE,
   m_bAbortRequest |-> FALSE, m_drain |-> FALSE, m_hEvent |-> FALSE]

NoData(q) ==
  [q EXCEPT !.m_iDataSize = 0, !.m_TimeBack = NoPts, !.m_TimeFront = NoPts]

InitQueue(q) ==
  [NoData(q) EXCEPT !.m_bAbortRequest = FALSE, !.m_bInitialized = TRUE,
                    !.m_drain = FALSE]

WithoutType(list, type) ==
  SubSeqAt(list, {i \in DOMAIN list : TypeOf[list[i].message] # type})

\* Mutant of FlushType: the size and times are not reset.
FlushTypeOnly(q, type) ==
  [q EXCEPT !.m_messages = WithoutType(@, type),
            !.m_prioMessages = WithoutType(@, type)]

\* Flush of the messages of one type.
FlushType(q, type) ==
  LET rest == [q EXCEPT !.m_messages = WithoutType(@, type),
                        !.m_prioMessages = WithoutType(@, type)]
  IN IF type = "packet" THEN NoData(rest) ELSE rest

AbortQueue(q) == [q EXCEPT !.m_bAbortRequest = TRUE, !.m_hEvent = TRUE]

EndQueue(q) ==
  [NoData(q) EXCEPT !.m_messages = <<>>, !.m_prioMessages = <<>>,
                    !.m_bInitialized = FALSE, !.m_bAbortRequest = FALSE]

\* The time of a packet without dts and pts is the one known before.
UpdateTimeFront(q) ==
  LET item  == Head(q.m_messages)
      front == IF TimeOf[item.message] = NoPts THEN q.m_TimeFront
                                               ELSE TimeOf[item.message]
  IN IF q.m_messages = <<>> \/ ~IsPacket(item.message) THEN q
     ELSE [q EXCEPT !.m_TimeFront = front,
                    !.m_TimeBack = IF @ = NoPts THEN front ELSE @]

UpdateTimeBack(q) ==
  LET item == Last(q.m_messages)
      back == IF TimeOf[item.message] = NoPts THEN q.m_TimeBack
                                              ELSE TimeOf[item.message]
  IN IF q.m_messages = <<>> \/ ~IsPacket(item.message) THEN q
     ELSE [q EXCEPT !.m_TimeBack = back,
                    !.m_TimeFront = IF @ = NoPts THEN back ELSE @]

\* Mutant of PrioInsert: < for <=, the last put of a priority is got first.
PrioInsertAhead(list, item, front) ==
  LET prio == IF front THEN item.priority ELSE item.priority + 1
      pos  == SelectInSeq(list, LAMBDA other : prio < other.priority)
  IN InsertAt(list, IF pos = 0 THEN Len(list) + 1 ELSE pos, item)

\* A priority message goes before the first that is as urgent: behind those of
\* its priority when put at the front, ahead of them when put back.
PrioInsert(list, item, front) ==
  LET prio == IF front THEN item.priority ELSE item.priority + 1
      pos  == SelectInSeq(list, LAMBDA other : prio <= other.priority)
  IN InsertAt(list, IF pos = 0 THEN Len(list) + 1 ELSE pos, item)

Enlist(q, item, front) ==
  IF item.priority > 0
  THEN [q EXCEPT !.m_prioMessages = PrioInsert(@, item, front)]
  ELSE [IF q.m_messages = <<>> THEN NoData(q) ELSE q
          EXCEPT !.m_messages = IF front THEN <<item>> \o @
                                         ELSE Append(@, item)]

\* Mutant of PutMessage: it wakes the thread only if nothing was queued.
PutMessageQuietly(q, m, priority, front) ==
  LET listed == [Enlist(q, [message |-> m, priority |-> priority], front)
                   EXCEPT !.m_hEvent = @ \/ q.m_messages = <<>>]
      sized  == [listed EXCEPT !.m_iDataSize = @ + PacketSize[m]]
  IN IF ~q.m_bInitialized THEN q
     ELSE IF ~IsPacket(m) \/ priority > 0 THEN listed
     ELSE IF front THEN UpdateTimeFront(sized) ELSE UpdateTimeBack(sized)

\* Mutant of PutMessage: a packet that is put back leaves m_TimeBack alone.
PutMessageFrontTime(q, m, priority, front) ==
  LET listed == [Enlist(q, [message |-> m, priority |-> priority], front)
                   EXCEPT !.m_hEvent = TRUE]
      sized  == [listed EXCEPT !.m_iDataSize = @ + PacketSize[m]]
  IN IF ~q.m_bInitialized THEN q
     ELSE IF ~IsPacket(m) \/ priority > 0 THEN listed
     ELSE UpdateTimeFront(sized)

PutMessage(q, m, priority, front) ==
  LET listed == [Enlist(q, [message |-> m, priority |-> priority], front)
                   EXCEPT !.m_hEvent = TRUE]
      sized  == [listed EXCEPT !.m_iDataSize = @ + PacketSize[m]]
  IN IF ~q.m_bInitialized THEN q
     ELSE IF ~IsPacket(m) \/ priority > 0 THEN listed
     ELSE IF front THEN UpdateTimeFront(sized) ELSE UpdateTimeBack(sized)

Put(q, m, priority)     == PutMessage(q, m, priority, TRUE)
PutBack(q, m, priority) == PutMessage(q, m, priority, FALSE)

\* Get with a minimum priority: the list it looks at, whether that list has a
\* message for it, the item, and the queue without it.
PrioOnly(q, priority) == priority > 0 \/ q.m_prioMessages # <<>>
Source(q, priority) ==
  IF PrioOnly(q, priority) THEN q.m_prioMessages ELSE q.m_messages
HasMessage(q, priority) ==
  /\ Source(q, priority) # <<>>
  /\ Last(Source(q, priority)).priority >= priority \/ q.m_drain
GetItem(q, priority) == Last(Source(q, priority))

\* Mutant of Taken: packets put with a priority are subtracted from the size.
TakenAnyPriority(q, priority) ==
  LET item == GetItem(q, priority)
      size == IF IsPacket(item.message) THEN PacketSize[item.message] ELSE 0
  IN UpdateTimeBack(
       IF PrioOnly(q, priority)
       THEN [q EXCEPT !.m_prioMessages = Front(@), !.m_iDataSize = @ - size]
       ELSE [q EXCEPT !.m_messages = Front(@), !.m_iDataSize = @ - size])

Taken(q, priority) ==
  LET item == GetItem(q, priority)
      size == IF IsPacket(item.message) /\ item.priority = 0
              THEN PacketSize[item.message] ELSE 0
  IN UpdateTimeBack(
       IF PrioOnly(q, priority)
       THEN [q EXCEPT !.m_prioMessages = Front(@), !.m_iDataSize = @ - size]
       ELSE [q EXCEPT !.m_messages = Front(@), !.m_iDataSize = @ - size])

\* The int arithmetic of GetLevel: a product wraps, a quotient is truncated.
Wrapped(n) == ((n + IntMax + 1) % (2 * (IntMax + 1))) - (IntMax + 1)
Quotient(n, d) == IF n >= 0 THEN n \div d ELSE -((-n) \div d)
Ceiling(n, d)  == (n + d - 1) \div d
AtMost100(n)   == IF n > 100 THEN 100 ELSE n

IsDataBased(q) ==
  \/ q.m_TimeBack = NoPts \/ q.m_TimeFront = NoPts
  \/ q.m_TimeFront <= q.m_TimeBack

GetLevel(q) ==
  IF q.m_iDataSize > m_iMaxDataSize THEN 100
  ELSE IF q.m_iDataSize = 0 THEN 0
  ELSE IF IsDataBased(q)
  THEN AtMost100(Quotient(Wrapped(100 * q.m_iDataSize), m_iMaxDataSize))
  ELSE AtMost100(Ceiling(100 * (q.m_TimeFront - q.m_TimeBack), MaxTimeSize))

IsFull(q) == GetLevel(q) = 100

=============================================================================
