------------------------- MODULE MessageQueueProofs -------------------------
(***************************************************************************)
(* Proofs about the message queues of the stream players.                  *)
(*                                                                         *)
(* The first half is about one queue (DVDMessageQueue): its inductive      *)
(* invariant, for any finite set of messages, any sizes and any increasing *)
(* times of the packets.  The second half is about the players that meet   *)
(* at two of them (StreamPlayers), for any messages, any number of flushes *)
(* and any number of packets a codec keeps.  It sees a list only as the    *)
(* set of its messages and the set of the pairs of which one waits behind  *)
(* the other, says of every action what it does to these, and shows of     *)
(* each part of the invariant that no such effect breaks it.  The lemmas   *)
(* about the operations of MessageList serve both.                         *)
(***************************************************************************)
EXTENDS DVDMessageQueue, StreamPlayers, SequenceProofs

Item(priorities) == [message : Message, priority : priorities]
Time == Nat \union {NoPts}

\* What the fields of a queue range over.
Queue ==
  [m_messages : Seq(Item({0})), m_prioMessages : Seq(Item(Priority \ {0})),
   m_iDataSize : Int, m_TimeBack : Time, m_TimeFront : Time,
   m_bInitialized : BOOLEAN, m_bAbortRequest : BOOLEAN, m_drain : BOOLEAN,
   m_hEvent : BOOLEAN]

-----------------------------------------------------------------------------
(* What the operations make of a queue, field by field.                    *)

\* The head of a list is put, its end is put back.
LEMMA ConsProperties ==
  ASSUME NEW S, NEW s \in Seq(S), NEW e \in S
  PROVE  /\ <<e>> \o s \in Seq(S) /\ DOMAIN (<<e>> \o s) = 1 .. (Len(s) + 1)
         /\ Len(<<e>> \o s) = Len(s) + 1
         /\ (<<e>> \o s)[1] = e
         /\ \A i \in 2 .. (Len(s) + 1) : i - 1 \in DOMAIN s /\ (<<e>> \o s)[i] = s[i - 1]
<1>1. <<e>> \in Seq(S) /\ Len(<<e>>) = 1 /\ <<e>>[1] = e /\ Len(s) \in Nat
      /\ DOMAIN s = 1 .. Len(s)
  OBVIOUS
<1>2. /\ <<e>> \o s \in Seq(S) /\ Len(<<e>> \o s) = 1 + Len(s)
      /\ \A i \in 1 .. (1 + Len(s)) :
           (<<e>> \o s)[i] = IF i <= 1 THEN <<e>>[i] ELSE s[i - 1]
  BY <1>1, ConcatProperties
<1>3. DOMAIN (<<e>> \o s) = 1 .. (Len(s) + 1)
  BY <1>1, <1>2, LenProperties
<1>4. (<<e>> \o s)[1] = e
  BY <1>1, <1>2
<1>5. \A i \in 2 .. (Len(s) + 1) : i - 1 \in DOMAIN s /\ (<<e>> \o s)[i] = s[i - 1]
  BY <1>1, <1>2
<1> QED
  BY <1>1, <1>2, <1>3, <1>4, <1>5

\* PrioInsert puts the item behind the less urgent ones and before the first
\* that is as urgent.
LEMMA PrioInsertPlace ==
  ASSUME NEW s \in Seq(Item(Priority)), NEW item \in Item(Priority), NEW front \in BOOLEAN
  PROVE  LET prio == IF front THEN item.priority ELSE item.priority + 1
         IN \E pos \in 1 .. (Len(s) + 1) :
              /\ PrioInsert(s, item, front) = InsertAt(s, pos, item)
              /\ \A k \in 1 .. (pos - 1) : s[k].priority < prio
              /\ pos <= Len(s) => prio <= s[pos].priority
<1> DEFINE prio == IF front THEN item.priority ELSE item.priority + 1
           I == {i \in 1 .. Len(s) : prio <= s[i].priority}
           found == SelectInSeq(s, LAMBDA other : prio <= other.priority)
           pos == IF found = 0 THEN Len(s) + 1 ELSE found
<1>1. PrioInsert(s, item, front) = InsertAt(s, pos, item)
  BY DEF PrioInsert
<1>2. found = IF I # {} THEN Min(I) ELSE 0
  BY DEF SelectInSeq
<1>3. Len(s) \in Nat /\ I \subseteq Nat /\ prio \in Nat
  BY DEF Item, Priority
<1>4. \A k \in 1 .. Len(s) : s[k].priority \in Nat
  <2>1. \A k \in 1 .. Len(s) : s[k] \in Item(Priority)
    OBVIOUS
  <2> QED
    BY <2>1 DEF Item, Priority
<1> HIDE DEF found, prio
<1>5. CASE I = {}
  <2>1. pos = Len(s) + 1
    BY <1>2, <1>5
  <2>2. \A k \in 1 .. Len(s) : s[k].priority < prio
    BY <1>3, <1>4, <1>5
  <2> QED
    BY <1>1, <1>3, <2>1, <2>2 DEF prio
<1>6. CASE I # {}
  <2>1. found \in I /\ \A i \in I : found <= i
    BY <1>2, <1>3, <1>6, MinProperties
  <2>2. pos = found /\ pos \in 1 .. Len(s) /\ prio <= s[pos].priority
    BY <2>1, <1>3
  <2>3. \A k \in 1 .. (pos - 1) : s[k].priority < prio
    BY <2>1, <2>2, <1>3, <1>4
  <2> QED
    BY <1>1, <1>3, <2>2, <2>3 DEF prio
<1> QED
  BY <1>5, <1>6

\* All but the lists and the levels of a queue.
SameFlags(r, q) ==
  /\ r.m_bInitialized = q.m_bInitialized /\ r.m_bAbortRequest = q.m_bAbortRequest
  /\ r.m_drain = q.m_drain

\* A queue without data: its lists and its flags stay, its levels are those of nothing.
LEMMA NoDataFields ==
  ASSUME NEW q \in Queue
  PROVE  /\ NoData(q) \in Queue /\ SameFlags(NoData(q), q)
         /\ NoData(q).m_hEvent = q.m_hEvent
         /\ NoData(q).m_messages = q.m_messages
         /\ NoData(q).m_prioMessages = q.m_prioMessages
         /\ NoData(q).m_iDataSize = 0
         /\ NoData(q).m_TimeBack = NoPts /\ NoData(q).m_TimeFront = NoPts
<1>1. NoPts \in Time /\ 0 \in Int
  BY DEF Time
<1>2. NoData(q) = [q EXCEPT !.m_iDataSize = 0, !.m_TimeBack = NoPts, !.m_TimeFront = NoPts]
  BY DEF NoData
<1> HIDE DEF NoPts
<1> QED
  BY <1>1, <1>2 DEF Queue, SameFlags

\* A message of priority 0 is put at either end of m_messages; the levels of an
\* empty list start anew.
LEMMA EnlistFields ==
  ASSUME NEW q \in Queue, NEW item \in Item({0}), NEW front \in BOOLEAN
  PROVE  LET r    == Enlist(q, item, front)
             none == q.m_messages = <<>>
         IN /\ r \in Queue /\ SameFlags(r, q) /\ r.m_hEvent = q.m_hEvent
            /\ r.m_prioMessages = q.m_prioMessages
            /\ r.m_messages # <<>>
            /\ r.m_messages = IF front THEN <<item>> \o q.m_messages
                                       ELSE Append(q.m_messages, item)
            /\ IF front THEN Head(r.m_messages) = item ELSE Last(r.m_messages) = item
            /\ r.m_iDataSize = IF none THEN 0 ELSE q.m_iDataSize
            /\ r.m_TimeBack = IF none THEN NoPts ELSE q.m_TimeBack
            /\ r.m_TimeFront = IF none THEN NoPts ELSE q.m_TimeFront
<1> DEFINE none == q.m_messages = <<>>
           base == IF none THEN NoData(q) ELSE q
           list == IF front THEN <<item>> \o q.m_messages ELSE Append(q.m_messages, item)
<1>1. /\ base \in Queue /\ SameFlags(base, q) /\ base.m_hEvent = q.m_hEvent
      /\ base.m_messages = q.m_messages /\ base.m_prioMessages = q.m_prioMessages
      /\ base.m_iDataSize = IF none THEN 0 ELSE q.m_iDataSize
      /\ base.m_TimeBack = IF none THEN NoPts ELSE q.m_TimeBack
      /\ base.m_TimeFront = IF none THEN NoPts ELSE q.m_TimeFront
  <2>1. CASE none
    BY <2>1, NoDataFields
  <2>2. CASE ~none
    BY <2>2 DEF SameFlags
  <2> QED
    BY <2>1, <2>2
<1>2. q.m_messages \in Seq(Item({0})) /\ Len(q.m_messages) \in Nat
  BY DEF Queue
<1>3. CASE front
  <2>1. /\ list = <<item>> \o q.m_messages
        /\ list \in Seq(Item({0})) /\ Len(list) = Len(q.m_messages) + 1 /\ list[1] = item
    BY <1>2, <1>3, ConsProperties
  <2> HIDE DEF list
  <2>2. list # <<>> /\ Head(list) = item
    BY <1>2, <2>1
  <2>3. Enlist(q, item, front) = [base EXCEPT !.m_messages = <<item>> \o @]
    BY <1>3 DEF Enlist, Item
  <2> HIDE DEF base
  <2>4. Enlist(q, item, front) = [base EXCEPT !.m_messages = list]
    BY <1>1, <2>1, <2>3
  <2> QED
    BY <1>1, <1>3, <2>1, <2>2, <2>4 DEF Queue, SameFlags
<1>4. CASE ~front
  <2>1. /\ list = Append(q.m_messages, item)
        /\ list \in Seq(Item({0})) /\ list # <<>> /\ Last(list) = item
    BY <1>2, <1>4 DEF Last
  <2> HIDE DEF list
  <2>2. Enlist(q, item, front) = [base EXCEPT !.m_messages = Append(@, item)]
    BY <1>4 DEF Enlist, Item
  <2> HIDE DEF base
  <2>3. Enlist(q, item, front) = [base EXCEPT !.m_messages = list]
    BY <1>1, <2>1, <2>2
  <2> QED
    BY <1>1, <1>4, <2>1, <2>3 DEF Queue, SameFlags
<1> QED
  BY <1>3, <1>4

\* The time of the first or the last packet is taken over, if it has one.
LEMMA TimesFields ==
  ASSUME NEW q \in Queue, NEW front \in BOOLEAN, q.m_messages # <<>>
  PROVE  LET r    == IF front THEN UpdateTimeFront(q) ELSE UpdateTimeBack(q)
             m    == (IF front THEN Head(q.m_messages) ELSE Last(q.m_messages)).message
             time == IF TimeOf[m] # NoPts THEN TimeOf[m]
                     ELSE IF front THEN q.m_TimeFront ELSE q.m_TimeBack
         IN /\ m \in Message
            /\ r \in Queue /\ SameFlags(r, q) /\ r.m_hEvent = q.m_hEvent
            /\ r.m_prioMessages = q.m_prioMessages /\ r.m_messages = q.m_messages
            /\ r.m_iDataSize = q.m_iDataSize
            /\ ~IsPacket(m) => r.m_TimeFront = q.m_TimeFront /\ r.m_TimeBack = q.m_TimeBack
            /\ IsPacket(m) =>
                 /\ r.m_TimeFront = IF front \/ q.m_TimeFront = NoPts THEN time
                                    ELSE q.m_TimeFront
                 /\ r.m_TimeBack = IF ~front \/ q.m_TimeBack = NoPts THEN time
                                   ELSE q.m_TimeBack
<1> DEFINE item == IF front THEN Head(q.m_messages) ELSE Last(q.m_messages)
           m    == item.message
           time == IF TimeOf[m] # NoPts THEN TimeOf[m]
                   ELSE IF front THEN q.m_TimeFront ELSE q.m_TimeBack
<1>1. item \in Item({0})
  BY FrontLastProperties DEF Queue
<1>2. m \in Message /\ TimeOf[m] \in Time
  BY <1>1, MessageAssumption DEF Item, Time
<1>3. time \in Time
  BY <1>2 DEF Queue
<1> HIDE DEF item
<1>4. CASE front
  <2>1. UpdateTimeFront(q) =
          IF ~IsPacket(m) THEN q
          ELSE [q EXCEPT !.m_TimeFront = time,
                         !.m_TimeBack = IF @ = NoPts THEN time ELSE @]
    BY <1>4 DEF UpdateTimeFront, item
  <2> HIDE DEF m, time
  <2> QED
    BY <1>2, <1>3, <1>4, <2>1 DEF Queue, SameFlags, m, time, item
<1>5. CASE ~front
  <2>1. UpdateTimeBack(q) =
          IF ~IsPacket(m) THEN q
          ELSE [q EXCEPT !.m_TimeBack = time,
                         !.m_TimeFront = IF @ = NoPts THEN time ELSE @]
    BY <1>5 DEF UpdateTimeBack, item
  <2> QED
    BY <1>2, <1>3, <1>5, <2>1 DEF Queue, SameFlags, item
<1> QED
  BY <1>4, <1>5

\* A queue that is not initialized refuses; a message with a priority changes
\* m_prioMessages alone.
LEMMA PutPriorityFields ==
  ASSUME NEW q \in Queue, NEW m \in Message, NEW p \in Priority \ {0}
  PROVE  LET item == [message |-> m, priority |-> p]
             r    == Put(q, m, p)
         IN /\ ~q.m_bInitialized => r = q
            /\ q.m_bInitialized =>
                 /\ r \in Queue /\ SameFlags(r, q) /\ r.m_hEvent
                 /\ r.m_messages = q.m_messages
                 /\ r.m_prioMessages = PrioInsert(q.m_prioMessages, item, TRUE)
                 /\ r.m_iDataSize = q.m_iDataSize
                 /\ r.m_TimeFront = q.m_TimeFront /\ r.m_TimeBack = q.m_TimeBack
<1> DEFINE item == [message |-> m, priority |-> p]
           list == PrioInsert(q.m_prioMessages, item, TRUE)
<1>1. p \in Nat /\ p > 0 /\ item \in Item(Priority \ {0}) /\ item.priority = p
  BY DEF Item, Priority
<1>2. q.m_prioMessages \in Seq(Item(Priority \ {0}))
  BY DEF Queue
<1>3. q.m_prioMessages \in Seq(Item(Priority)) /\ item \in Item(Priority)
  <2>1. Item(Priority \ {0}) \subseteq Item(Priority)
    BY DEF Item
  <2> QED
    BY <1>1, <1>2, <2>1, SeqMonotone
<1> HIDE DEF item
<1>4. list \in Seq(Item(Priority \ {0}))
  <2>1. PICK pos \in 1 .. (Len(q.m_prioMessages) + 1) :
          list = InsertAt(q.m_prioMessages, pos, item)
    BY <1>3, PrioInsertPlace
  <2> HIDE DEF list
  <2>2. InsertAt(q.m_prioMessages, pos, item) \in Seq(Item(Priority \ {0}))
    BY <1>1, <1>2, InsertAtProperties
  <2> QED
    BY <2>1, <2>2
<1>5. ~q.m_bInitialized => Put(q, m, p) = q
  BY DEF Put, PutMessage
<1>6. q.m_bInitialized =>
        Put(q, m, p) = [q EXCEPT !.m_prioMessages = list, !.m_hEvent = TRUE]
  <2>1. Enlist(q, item, TRUE) = [q EXCEPT !.m_prioMessages = list]
    BY <1>1 DEF Enlist
  <2>2. q.m_bInitialized => Put(q, m, p) = [Enlist(q, item, TRUE) EXCEPT !.m_hEvent = TRUE]
    BY <1>1 DEF Put, PutMessage, item
  <2> QED
    BY <2>1, <2>2 DEF Queue
<1> HIDE DEF list
<1>7. q.m_bInitialized =>
        /\ Put(q, m, p) \in Queue /\ SameFlags(Put(q, m, p), q) /\ Put(q, m, p).m_hEvent
        /\ Put(q, m, p).m_messages = q.m_messages
        /\ Put(q, m, p).m_prioMessages = list
        /\ Put(q, m, p).m_iDataSize = q.m_iDataSize
        /\ Put(q, m, p).m_TimeFront = q.m_TimeFront
        /\ Put(q, m, p).m_TimeBack = q.m_TimeBack
  BY <1>4, <1>6 DEF Queue, SameFlags
<1> QED
  BY <1>5, <1>7 DEF list, item

\* A message of priority 0 is put first, or put back last, in m_messages: the size
\* grows by its packet, and the time at that end becomes the packet's.
LEMMA PutFields ==
  ASSUME NEW q \in Queue, NEW m \in Message, NEW front \in BOOLEAN, q.m_bInitialized
  PROVE  LET item == [message |-> m, priority |-> 0]
             none == q.m_messages = <<>>
             tf   == IF none THEN NoPts ELSE q.m_TimeFront
             tb   == IF none THEN NoPts ELSE q.m_TimeBack
             time == IF TimeOf[m] # NoPts THEN TimeOf[m] ELSE IF front THEN tf ELSE tb
             r    == PutMessage(q, m, 0, front)
         IN /\ r \in Queue /\ SameFlags(r, q) /\ r.m_hEvent
            /\ r.m_prioMessages = q.m_prioMessages
            /\ r.m_messages = IF front THEN <<item>> \o q.m_messages
                                       ELSE Append(q.m_messages, item)
            /\ r.m_iDataSize = (IF none THEN 0 ELSE q.m_iDataSize) + SizeOf(item)
            /\ ~IsPacket(m) => r.m_TimeFront = tf /\ r.m_TimeBack = tb
            /\ IsPacket(m) =>
                 /\ r.m_TimeFront = IF front \/ tf = NoPts THEN time ELSE tf
                 /\ r.m_TimeBack = IF ~front \/ tb = NoPts THEN time ELSE tb
<1> DEFINE item == [message |-> m, priority |-> 0]
           none == q.m_messages = <<>>
           tf   == IF none THEN NoPts ELSE q.m_TimeFront
           tb   == IF none THEN NoPts ELSE q.m_TimeBack
           size == IF none THEN 0 ELSE q.m_iDataSize
           time == IF TimeOf[m] # NoPts THEN TimeOf[m] ELSE IF front THEN tf ELSE tb
           list == IF front THEN <<item>> \o q.m_messages ELSE Append(q.m_messages, item)
           listed == [Enlist(q, item, front) EXCEPT !.m_hEvent = TRUE]
           sized  == [listed EXCEPT !.m_iDataSize = @ + PacketSize[m]]
           r == PutMessage(q, m, 0, front)
<1>1. item \in Item({0}) /\ item.message = m
  BY DEF Item
<1>2. PacketSize[m] \in Nat /\ SizeOf(item) = IF IsPacket(m) THEN PacketSize[m] ELSE 0
  BY <1>1, MessageAssumption DEF SizeOf
<1>3. r = IF ~IsPacket(m) THEN listed
          ELSE IF front THEN UpdateTimeFront(sized) ELSE UpdateTimeBack(sized)
  BY DEF PutMessage
<1> HIDE DEF item, r
<1> DEFINE e == Enlist(q, item, front)
<1>4. /\ e \in Queue /\ SameFlags(e, q)
      /\ e.m_prioMessages = q.m_prioMessages
      /\ e.m_messages # <<>> /\ e.m_messages = list
      /\ IF front THEN Head(e.m_messages) = item ELSE Last(e.m_messages) = item
      /\ e.m_iDataSize = size /\ e.m_TimeBack = tb /\ e.m_TimeFront = tf
  BY <1>1, EnlistFields
<1> HIDE DEF e, list, size, tb, tf
<1>5. listed = [e EXCEPT !.m_hEvent = TRUE]
  BY DEF e
<1> HIDE DEF listed
<1>6. /\ listed \in Queue /\ SameFlags(listed, q) /\ listed.m_hEvent
      /\ listed.m_prioMessages = q.m_prioMessages
      /\ listed.m_messages # <<>> /\ listed.m_messages = list
      /\ IF front THEN Head(listed.m_messages) = item ELSE Last(listed.m_messages) = item
      /\ listed.m_iDataSize = size /\ listed.m_TimeBack = tb /\ listed.m_TimeFront = tf
  BY <1>4, <1>5 DEF Queue, SameFlags
<1>7. CASE ~IsPacket(m)
  <2>1. r = listed /\ SizeOf(item) = 0 /\ listed.m_iDataSize \in Int
    BY <1>2, <1>3, <1>6, <1>7 DEF Queue
  <2>2. r.m_iDataSize = size + SizeOf(item)
    BY <1>6, <2>1
  <2> QED
    BY <1>6, <1>7, <2>1, <2>2 DEF r, list, size, tb, tf, item
<1>8. CASE IsPacket(m)
  <2>1. sized \in Queue
    BY <1>2, <1>6, SMTT(30) DEF Queue
  <2>2. /\ SameFlags(sized, q) /\ sized.m_hEvent
        /\ sized.m_prioMessages = q.m_prioMessages
        /\ sized.m_messages # <<>> /\ sized.m_messages = list
        /\ IF front THEN Head(sized.m_messages) = item ELSE Last(sized.m_messages) = item
        /\ sized.m_TimeBack = tb /\ sized.m_TimeFront = tf
    BY <1>6 DEF Queue, SameFlags
  <2>3. sized.m_iDataSize = size + SizeOf(item)
    BY <1>2, <1>6, <1>8 DEF Queue
  <2> HIDE DEF sized
  <2>4. r = IF front THEN UpdateTimeFront(sized) ELSE UpdateTimeBack(sized)
    BY <1>3, <1>8
  <2>5. (IF front THEN Head(sized.m_messages) ELSE Last(sized.m_messages)).message = m
    BY <1>1, <2>2
  <2>6. /\ r \in Queue /\ SameFlags(r, sized) /\ r.m_hEvent = sized.m_hEvent
        /\ r.m_prioMessages = sized.m_prioMessages /\ r.m_messages = sized.m_messages
        /\ r.m_iDataSize = sized.m_iDataSize
        /\ r.m_TimeFront = IF front \/ sized.m_TimeFront = NoPts THEN time
                           ELSE sized.m_TimeFront
        /\ r.m_TimeBack = IF ~front \/ sized.m_TimeBack = NoPts THEN time
                          ELSE sized.m_TimeBack
    BY <1>8, <2>1, <2>2, <2>4, <2>5, TimesFields
  <2>7. SameFlags(r, q)
    BY <2>2, <2>6 DEF SameFlags
  <2> QED
    BY <1>8, <2>2, <2>3, <2>6, <2>7 DEF r, list, size, tb, tf, item
<1> QED
  BY <1>7, <1>8

\* Get finds a message in the list of its minimum priority exactly when there is
\* one: m_drain makes no difference to the priorities of the code's calls.
LEMMA HasMessageMeaning ==
  ASSUME NEW q \in Queue, NEW p \in Minimum
  PROVE  HasMessage(q, p) <=>
           q.m_prioMessages # <<>> \/ (p = 0 /\ q.m_messages # <<>>)
<1>1. p = 0 \/ (p = 1 /\ p > 0)
  BY DEF Minimum
<1>2. q.m_prioMessages # <<>> => Last(q.m_prioMessages).priority >= p
  <2>1. SUFFICES ASSUME q.m_prioMessages # <<>>
                 PROVE  Last(q.m_prioMessages).priority >= p
    OBVIOUS
  <2>2. Last(q.m_prioMessages) \in Item(Priority \ {0})
    BY <2>1, FrontLastProperties DEF Queue
  <2>3. Last(q.m_prioMessages).priority \in {1, 10}
    BY <2>2 DEF Item, Priority
  <2> QED
    BY <2>3, <1>1
<1>3. q.m_messages # <<>> => Last(q.m_messages).priority = 0
  <2>1. SUFFICES ASSUME q.m_messages # <<>> PROVE Last(q.m_messages).priority = 0
    OBVIOUS
  <2>2. Last(q.m_messages) \in Item({0})
    BY <2>1, FrontLastProperties DEF Queue
  <2> QED
    BY <2>2 DEF Item
<1>4. CASE p = 0
  <2>1. ~(p > 0) /\ 0 >= p
    BY <1>4
  <2> QED
    BY <1>2, <1>3, <1>4, <2>1 DEF HasMessage, Source, PrioOnly
<1>5. CASE p = 1 /\ p > 0
  <2>1. p # 0
    BY <1>5
  <2> QED
    BY <1>2, <1>5, <2>1 DEF HasMessage, Source, PrioOnly
<1> QED
  BY <1>1, <1>4, <1>5

\* The two times are known together.
TimesTogether(q) == q.m_TimeFront = NoPts <=> q.m_TimeBack = NoPts

\* Get takes the end of the list it found its message in; m_TimeBack becomes the
\* time of the packet that is last in m_messages then.
LEMMA TakenFields ==
  ASSUME NEW q \in Queue, NEW p \in Minimum, HasMessage(q, p), TimesTogether(q)
  PROVE  LET r    == Taken(q, p)
             item == GetItem(q, p)
             last == Last(r.m_messages).message
             urgent == q.m_prioMessages # <<>>
         IN /\ r \in Queue /\ SameFlags(r, q) /\ r.m_hEvent = q.m_hEvent
            /\ urgent => /\ item = Last(q.m_prioMessages)
                         /\ item \in Item(Priority \ {0})
                         /\ r.m_prioMessages = Front(q.m_prioMessages)
                         /\ r.m_messages = q.m_messages
                         /\ r.m_iDataSize = q.m_iDataSize
            /\ ~urgent => /\ q.m_messages # <<>>
                          /\ item = Last(q.m_messages) /\ item \in Item({0})
                          /\ r.m_prioMessages = q.m_prioMessages
                          /\ r.m_messages = Front(q.m_messages)
                          /\ r.m_iDataSize = q.m_iDataSize - SizeOf(item)
            /\ IF r.m_messages # <<>> /\ Timed(last)
               THEN /\ r.m_TimeBack = TimeOf[last]
                    /\ r.m_TimeFront = IF q.m_TimeFront = NoPts THEN TimeOf[last]
                                       ELSE q.m_TimeFront
               ELSE r.m_TimeBack = q.m_TimeBack /\ r.m_TimeFront = q.m_TimeFront
<1> DEFINE urgent == q.m_prioMessages # <<>>
           item == GetItem(q, p)
           size == IF IsPacket(item.message) /\ item.priority = 0
                   THEN PacketSize[item.message] ELSE 0
           base == IF PrioOnly(q, p)
                   THEN [q EXCEPT !.m_prioMessages = Front(@), !.m_iDataSize = @ - size]
                   ELSE [q EXCEPT !.m_messages = Front(@), !.m_iDataSize = @ - size]
           r == Taken(q, p)
<1>1. urgent \/ (p = 0 /\ q.m_messages # <<>>)
  BY HasMessageMeaning
<1>2. PrioOnly(q, p) <=> urgent
  <2>1. p = 0 => ~(p > 0)
    OBVIOUS
  <2> QED
    BY <1>1, <2>1 DEF PrioOnly
<1>3. item = IF urgent THEN Last(q.m_prioMessages) ELSE Last(q.m_messages)
  BY <1>2 DEF GetItem, Source
<1>4. r = UpdateTimeBack(base)
  BY DEF Taken
<1> HIDE DEF item, r
<1>5. /\ base \in Queue /\ SameFlags(base, q) /\ base.m_hEvent = q.m_hEvent
      /\ base.m_TimeFront = q.m_TimeFront /\ base.m_TimeBack = q.m_TimeBack
      /\ urgent => /\ item \in Item(Priority \ {0})
                   /\ base.m_prioMessages = Front(q.m_prioMessages)
                   /\ base.m_messages = q.m_messages
                   /\ base.m_iDataSize = q.m_iDataSize
      /\ ~urgent => /\ q.m_messages # <<>> /\ item \in Item({0})
                    /\ base.m_prioMessages = q.m_prioMessages
                    /\ base.m_messages = Front(q.m_messages)
                    /\ base.m_iDataSize = q.m_iDataSize - SizeOf(item)
  <2>1. CASE urgent
    <3> DEFINE rest == Front(q.m_prioMessages)
    <3>1. item \in Item(Priority \ {0}) /\ rest \in Seq(Item(Priority \ {0}))
      BY <1>3, <2>1, FrontLastProperties DEF Queue
    <3>2. size = 0 /\ q.m_iDataSize \in Int /\ q.m_iDataSize - 0 = q.m_iDataSize
      BY <3>1 DEF Item, Queue
    <3> HIDE DEF size
    <3>3. base = [q EXCEPT !.m_prioMessages = rest, !.m_iDataSize = q.m_iDataSize]
      BY <1>2, <2>1, <3>2
    <3> HIDE DEF base, rest
    <3> QED
      BY <2>1, <3>1, <3>2, <3>3 DEF Queue, SameFlags, rest
  <2>2. CASE ~urgent
    <3> DEFINE rest == Front(q.m_messages)
    <3>1. q.m_messages # <<>>
      BY <1>1, <2>2
    <3>2. item \in Item({0}) /\ rest \in Seq(Item({0}))
      BY <1>3, <2>2, <3>1, FrontLastProperties DEF Queue
    <3>3. item.priority = 0 /\ item.message \in Message
      BY <3>2 DEF Item
    <3>4. size = SizeOf(item) /\ size \in Nat /\ q.m_iDataSize - size \in Int
      BY <3>3, MessageAssumption DEF SizeOf, Queue
    <3> HIDE DEF size
    <3>5. base = [q EXCEPT !.m_messages = rest, !.m_iDataSize = q.m_iDataSize - size]
      BY <1>2, <2>2
    <3> HIDE DEF base, rest
    <3> QED
      BY <2>2, <3>1, <3>2, <3>4, <3>5 DEF Queue, SameFlags, rest
  <2> QED
    BY <2>1, <2>2
<1> HIDE DEF base
<1>6. /\ r \in Queue /\ SameFlags(r, base) /\ r.m_hEvent = base.m_hEvent
      /\ r.m_prioMessages = base.m_prioMessages /\ r.m_messages = base.m_messages
      /\ r.m_iDataSize = base.m_iDataSize
      /\ IF r.m_messages # <<>> /\ Timed(Last(r.m_messages).message)
         THEN /\ r.m_TimeBack = TimeOf[Last(r.m_messages).message]
              /\ r.m_TimeFront = IF q.m_TimeFront = NoPts
                                 THEN TimeOf[Last(r.m_messages).message]
                                 ELSE q.m_TimeFront
         ELSE r.m_TimeBack = q.m_TimeBack /\ r.m_TimeFront = q.m_TimeFront
  <2>1. CASE base.m_messages = <<>>
    <3>1. r = base
      BY <1>4, <2>1 DEF UpdateTimeBack
    <3> QED
      BY <1>5, <2>1, <3>1 DEF SameFlags
  <2>2. CASE base.m_messages # <<>>
    <3> DEFINE m == Last(base.m_messages).message
    <3>1. /\ r \in Queue /\ SameFlags(r, base) /\ r.m_hEvent = base.m_hEvent
          /\ r.m_prioMessages = base.m_prioMessages /\ r.m_messages = base.m_messages
          /\ r.m_iDataSize = base.m_iDataSize
          /\ ~IsPacket(m) => /\ r.m_TimeFront = base.m_TimeFront
                             /\ r.m_TimeBack = base.m_TimeBack
          /\ IsPacket(m) =>
               /\ r.m_TimeFront = IF base.m_TimeFront = NoPts
                                  THEN IF TimeOf[m] # NoPts THEN TimeOf[m]
                                       ELSE base.m_TimeBack
                                  ELSE base.m_TimeFront
               /\ r.m_TimeBack = IF TimeOf[m] # NoPts THEN TimeOf[m]
                                 ELSE base.m_TimeBack
      BY <1>4, <1>5, <2>2, TimesFields
    <3>2. Last(r.m_messages).message = m
      BY <3>1
    <3> HIDE DEF m
    <3> QED
      BY <1>5, <2>2, <3>1, <3>2 DEF Timed, TimesTogether
  <2> QED
    BY <2>1, <2>2
<1>7. SameFlags(r, q) /\ r.m_hEvent = q.m_hEvent
  BY <1>5, <1>6 DEF SameFlags
<1> QED
  BY <1>3, <1>5, <1>6, <1>7 DEF r, item

\* The positions that Flush keeps.
KeptPositions(list, type) == {i \in DOMAIN list : TypeOf[list[i].message] # type}

\* What Flush leaves of a list: the messages of other types, in their order.
LEMMA WithoutTypeProperties ==
  ASSUME NEW S, NEW list \in Seq(S), NEW type
  PROVE  /\ WithoutType(list, type) \in Seq(S)
         /\ \A k \in DOMAIN WithoutType(list, type) :
              /\ Nth(KeptPositions(list, type), k) \in KeptPositions(list, type)
              /\ WithoutType(list, type)[k] = list[Nth(KeptPositions(list, type), k)]
         /\ \A a, b \in DOMAIN WithoutType(list, type) :
              a < b => Nth(KeptPositions(list, type), a) < Nth(KeptPositions(list, type), b)
         /\ \A i \in KeptPositions(list, type) :
              \E k \in DOMAIN WithoutType(list, type) : Nth(KeptPositions(list, type), k) = i
<1>1. /\ KeptPositions(list, type) \in SUBSET DOMAIN list
      /\ WithoutType(list, type) = SubSeqAt(list, KeptPositions(list, type))
  BY DEF WithoutType, KeptPositions
<1> QED
  BY <1>1, SubSeqAtProperties

\* The flush of packets leaves none, and the levels start anew.
LEMMA FlushFields ==
  ASSUME NEW q \in Queue, NEW type
  PROVE  LET r == FlushType(q, type)
         IN /\ r \in Queue /\ SameFlags(r, q) /\ r.m_hEvent = q.m_hEvent
            /\ r.m_messages = WithoutType(q.m_messages, type)
            /\ r.m_prioMessages = WithoutType(q.m_prioMessages, type)
            /\ IF type = "packet"
               THEN r.m_iDataSize = 0 /\ r.m_TimeFront = NoPts /\ r.m_TimeBack = NoPts
               ELSE /\ r.m_iDataSize = q.m_iDataSize
                    /\ r.m_TimeFront = q.m_TimeFront /\ r.m_TimeBack = q.m_TimeBack
<1> DEFINE a == WithoutType(q.m_messages, type)
           b == WithoutType(q.m_prioMessages, type)
           rest == [q EXCEPT !.m_messages = a, !.m_prioMessages = b]
<1>1. a \in Seq(Item({0})) /\ b \in Seq(Item(Priority \ {0}))
  BY WithoutTypeProperties DEF Queue
<1>2. FlushType(q, type) = IF type = "packet" THEN NoData(rest) ELSE rest
  BY DEF FlushType
<1> HIDE DEF a, b
<1>3. rest \in Queue
  BY <1>1 DEF Queue
<1>4. /\ SameFlags(rest, q) /\ rest.m_hEvent = q.m_hEvent
      /\ rest.m_messages = a /\ rest.m_prioMessages = b
      /\ rest.m_iDataSize = q.m_iDataSize
      /\ rest.m_TimeFront = q.m_TimeFront /\ rest.m_TimeBack = q.m_TimeBack
  BY DEF Queue, SameFlags
<1> HIDE DEF rest
<1>5. /\ NoData(rest) \in Queue /\ SameFlags(NoData(rest), rest)
      /\ NoData(rest).m_hEvent = rest.m_hEvent
      /\ NoData(rest).m_messages = rest.m_messages
      /\ NoData(rest).m_prioMessages = rest.m_prioMessages
      /\ NoData(rest).m_iDataSize = 0
      /\ NoData(rest).m_TimeBack = NoPts /\ NoData(rest).m_TimeFront = NoPts
  BY <1>3, NoDataFields
<1>6. SameFlags(NoData(rest), q)
  BY <1>4, <1>5 DEF SameFlags
<1> QED
  BY <1>2, <1>3, <1>4, <1>5, <1>6 DEF a, b

\* The lists and the levels.
SameData(r, q) ==
  /\ r.m_messages = q.m_messages /\ r.m_prioMessages = q.m_prioMessages
  /\ r.m_iDataSize = q.m_iDataSize
  /\ r.m_TimeFront = q.m_TimeFront /\ r.m_TimeBack = q.m_TimeBack

\* The steps that change one flag.
Drained(q) == [q EXCEPT !.m_drain = ~@]
Unset(q)   == [q EXCEPT !.m_hEvent = FALSE]

\* The steps that leave the data alone.
LEMMA FlagFields ==
  ASSUME NEW q \in Queue
  PROVE  /\ AbortQueue(q) \in Queue /\ SameData(AbortQueue(q), q)
         /\ AbortQueue(q).m_hEvent /\ AbortQueue(q).m_bInitialized = q.m_bInitialized
         /\ Drained(q) \in Queue /\ SameData(Drained(q), q)
         /\ Drained(q).m_bInitialized = q.m_bInitialized
         /\ Drained(q).m_bAbortRequest = q.m_bAbortRequest
         /\ Drained(q).m_hEvent = q.m_hEvent
         /\ Unset(q) \in Queue
         /\ SameData(Unset(q), q)
         /\ SameFlags(Unset(q), q)
<1>1. /\ AbortQueue(q) \in Queue /\ SameData(AbortQueue(q), q)
      /\ AbortQueue(q).m_hEvent /\ AbortQueue(q).m_bInitialized = q.m_bInitialized
  BY DEF AbortQueue, Queue, SameData
<1>2. /\ Drained(q) \in Queue /\ SameData(Drained(q), q)
      /\ Drained(q).m_bInitialized = q.m_bInitialized
      /\ Drained(q).m_bAbortRequest = q.m_bAbortRequest
      /\ Drained(q).m_hEvent = q.m_hEvent
  BY DEF Drained, Queue, SameData
<1>3. /\ Unset(q) \in Queue
      /\ SameData(Unset(q), q)
      /\ SameFlags(Unset(q), q)
  BY DEF Unset, Queue, SameData, SameFlags
<1> QED
  BY <1>1, <1>2, <1>3

\* Init and End of the queue.
LEMMA InitEndFields ==
  ASSUME NEW q \in Queue
  PROVE  /\ InitQueue(q) \in Queue
         /\ InitQueue(q).m_bInitialized /\ ~InitQueue(q).m_bAbortRequest
         /\ InitQueue(q).m_messages = q.m_messages
         /\ InitQueue(q).m_prioMessages = q.m_prioMessages
         /\ InitQueue(q).m_iDataSize = 0
         /\ InitQueue(q).m_TimeFront = NoPts /\ InitQueue(q).m_TimeBack = NoPts
         /\ EndQueue(q) \in Queue
         /\ ~EndQueue(q).m_bInitialized /\ ~EndQueue(q).m_bAbortRequest
         /\ EndQueue(q).m_messages = <<>> /\ EndQueue(q).m_prioMessages = <<>>
         /\ EndQueue(q).m_iDataSize = 0
         /\ EndQueue(q).m_TimeFront = NoPts /\ EndQueue(q).m_TimeBack = NoPts
<1> DEFINE none == NoData(q)
<1>1. /\ none \in Queue
      /\ none.m_messages = q.m_messages /\ none.m_prioMessages = q.m_prioMessages
      /\ none.m_iDataSize = 0 /\ none.m_TimeBack = NoPts /\ none.m_TimeFront = NoPts
  BY NoDataFields
<1>2. /\ InitQueue(q) = [none EXCEPT !.m_bAbortRequest = FALSE, !.m_bInitialized = TRUE,
                                    !.m_drain = FALSE]
      /\ EndQueue(q) = [none EXCEPT !.m_messages = <<>>, !.m_prioMessages = <<>>,
                                   !.m_bInitialized = FALSE, !.m_bAbortRequest = FALSE]
  BY DEF InitQueue, EndQueue
<1> HIDE DEF none
<1>3. /\ InitQueue(q) \in Queue
      /\ InitQueue(q).m_bInitialized /\ ~InitQueue(q).m_bAbortRequest
      /\ InitQueue(q).m_messages = q.m_messages
      /\ InitQueue(q).m_prioMessages = q.m_prioMessages
      /\ InitQueue(q).m_iDataSize = 0
      /\ InitQueue(q).m_TimeFront = NoPts /\ InitQueue(q).m_TimeBack = NoPts
  BY <1>1, <1>2 DEF Queue
<1>4. /\ EndQueue(q) \in Queue
      /\ ~EndQueue(q).m_bInitialized /\ ~EndQueue(q).m_bAbortRequest
      /\ EndQueue(q).m_messages = <<>> /\ EndQueue(q).m_prioMessages = <<>>
      /\ EndQueue(q).m_iDataSize = 0
      /\ EndQueue(q).m_TimeFront = NoPts /\ EndQueue(q).m_TimeBack = NoPts
  <2>1. <<>> \in Seq(Item({0})) /\ <<>> \in Seq(Item(Priority \ {0}))
    OBVIOUS
  <2> QED
    BY <1>1, <1>2, <2>1 DEF Queue
<1> QED
  BY <1>3, <1>4

-----------------------------------------------------------------------------
(* The size of a list, by its partial sums.                                *)

Sums(list, f) ==
  /\ f \in [0 .. Len(list) -> Nat] /\ f[0] = 0
  /\ \A i \in 1 .. Len(list) : f[i] = f[i - 1] + SizeOf(list[i])
HasSize(list, n) == \E f : Sums(list, f) /\ f[Len(list)] = n

\* The size of a message is a number.
LEMMA SizeOfType ==
  ASSUME NEW item \in Item({0})
  PROVE  SizeOf(item) \in Nat
BY MessageAssumption DEF SizeOf, Item

\* A list without packets, and so an empty one, has size 0.
LEMMA NoSize ==
  ASSUME NEW list \in Seq(Item({0})),
         \A i \in DOMAIN list : ~IsPacket(list[i].message)
  PROVE  HasSize(list, 0)
<1> DEFINE f == [i \in 0 .. Len(list) |-> 0]
<1>1. Len(list) \in Nat /\ DOMAIN list = 1 .. Len(list)
  OBVIOUS
<1>2. \A i \in 1 .. Len(list) : SizeOf(list[i]) = 0 /\ i - 1 \in 0 .. Len(list)
                                /\ i \in 0 .. Len(list)
  BY <1>1 DEF SizeOf
<1>3. Sums(list, f)
  BY <1>1, <1>2 DEF Sums
<1>4. f[Len(list)] = 0
  BY <1>1
<1> QED
  BY <1>3, <1>4 DEF HasSize

\* An empty list has the size 0 only.
LEMMA EmptySize == ASSUME NEW n, HasSize(<<>>, n) PROVE n = 0
BY DEF HasSize, Sums

\* What is put at either end adds its size.
LEMMA AppendSize ==
  ASSUME NEW list \in Seq(Item({0})), NEW item \in Item({0}), NEW n, HasSize(list, n)
  PROVE  HasSize(Append(list, item), n + SizeOf(item))
<1>1. PICK f : Sums(list, f) /\ f[Len(list)] = n
  BY DEF HasSize
<1> DEFINE N == Len(list)
           longer == Append(list, item)
           g == [i \in 0 .. (N + 1) |-> IF i <= N THEN f[i] ELSE n + SizeOf(item)]
<1>2. /\ N \in Nat /\ f \in [0 .. N -> Nat] /\ f[0] = 0 /\ n \in Nat
      /\ \A i \in 1 .. N : f[i] = f[i - 1] + SizeOf(list[i])
  BY <1>1 DEF Sums
<1>3. /\ Len(longer) = N + 1 /\ longer[N + 1] = item
      /\ \A i \in 1 .. N : longer[i] = list[i]
  BY <1>2
<1>4. SizeOf(item) \in Nat
  BY SizeOfType
<1> HIDE DEF longer, N
<1>5. g \in [0 .. (N + 1) -> Nat] /\ g[0] = 0 /\ g[N + 1] = n + SizeOf(item)
  BY <1>2, <1>4
<1>6. \A i \in 1 .. (N + 1) : g[i] = g[i - 1] + SizeOf(longer[i])
  <2>1. SUFFICES ASSUME NEW i \in 1 .. (N + 1) PROVE g[i] = g[i - 1] + SizeOf(longer[i])
    OBVIOUS
  <2>2. CASE i = N + 1
    <3>1. i - 1 = N /\ i - 1 \in 0 .. (N + 1) /\ ~(i <= N)
      BY <1>2, <2>2
    <3> QED
      BY <1>1, <1>3, <1>5, <2>2, <3>1 DEF N
  <2>3. CASE i # N + 1
    <3>1. i \in 1 .. N /\ i - 1 \in 0 .. N /\ i <= N /\ i - 1 <= N
      BY <1>2, <2>3
    <3> QED
      BY <1>2, <1>3, <3>1
  <2> QED
    BY <2>2, <2>3
<1> HIDE DEF g
<1>7. Sums(longer, g) /\ g[Len(longer)] = n + SizeOf(item)
  BY <1>3, <1>5, <1>6 DEF Sums
<1> QED
  BY <1>7 DEF HasSize, longer

\* A message in front of a list adds its size.
LEMMA ConsSize ==
  ASSUME NEW list \in Seq(Item({0})), NEW item \in Item({0}), NEW n, HasSize(list, n)
  PROVE  HasSize(<<item>> \o list, n + SizeOf(item))
<1>1. PICK f : Sums(list, f) /\ f[Len(list)] = n
  BY DEF HasSize
<1> DEFINE N == Len(list)
           longer == <<item>> \o list
           g == [i \in 0 .. (N + 1) |-> IF i = 0 THEN 0 ELSE f[i - 1] + SizeOf(item)]
<1>2. /\ N \in Nat /\ f \in [0 .. N -> Nat] /\ f[0] = 0 /\ n \in Nat
      /\ \A i \in 1 .. N : f[i] = f[i - 1] + SizeOf(list[i])
  BY <1>1 DEF Sums
<1>3. /\ Len(longer) = N + 1 /\ longer[1] = item
      /\ \A i \in 2 .. (N + 1) : longer[i] = list[i - 1]
  BY ConsProperties
<1>4. SizeOf(item) \in Nat /\ \A i \in 1 .. N : SizeOf(list[i]) \in Nat
  BY SizeOfType
<1> HIDE DEF longer, N
<1>5. g \in [0 .. (N + 1) -> Nat] /\ g[0] = 0
  BY <1>2, <1>4
<1>6. g[N + 1] = n + SizeOf(item)
  <2>1. N + 1 \in 0 .. (N + 1) /\ N + 1 # 0 /\ (N + 1) - 1 = N
    BY <1>2
  <2> QED
    BY <1>1, <2>1 DEF N
<1>7. \A i \in 1 .. (N + 1) : g[i] = g[i - 1] + SizeOf(longer[i])
  <2>1. SUFFICES ASSUME NEW i \in 1 .. (N + 1) PROVE g[i] = g[i - 1] + SizeOf(longer[i])
    OBVIOUS
  <2>2. CASE i = 1
    <3>1. g[1] = f[0] + SizeOf(item) /\ g[0] = 0
      BY <1>2
    <3>2. 0 + SizeOf(item) = SizeOf(item) /\ i - 1 = 0
      BY <1>4, <2>2
    <3> HIDE DEF g
    <3> QED
      BY <1>2, <1>3, <2>2, <3>1, <3>2
  <2>3. CASE i # 1
    <3>1. i \in 2 .. (N + 1) /\ i - 1 \in 1 .. N /\ (i - 1) - 1 \in 0 .. N
          /\ i - 1 \in 0 .. (N + 1) /\ i - 1 # 0 /\ i # 0
      BY <1>2, <2>3
    <3>2. g[i] = f[i - 1] + SizeOf(item) /\ g[i - 1] = f[(i - 1) - 1] + SizeOf(item)
      BY <3>1
    <3>3. f[i - 1] = f[(i - 1) - 1] + SizeOf(list[i - 1])
      BY <1>2, <3>1
    <3>4. \A x, y, z \in Nat : (x + y) + z = (x + z) + y
      OBVIOUS
    <3>5. f[(i - 1) - 1] \in Nat /\ SizeOf(list[i - 1]) \in Nat
      BY <1>2, <1>4, <3>1
    <3> HIDE DEF g
    <3> QED
      BY <1>3, <1>4, <3>1, <3>2, <3>3, <3>4, <3>5
  <2> QED
    BY <2>2, <2>3
<1> HIDE DEF g
<1>8. Sums(longer, g) /\ g[Len(longer)] = n + SizeOf(item)
  BY <1>3, <1>5, <1>6, <1>7 DEF Sums
<1> QED
  BY <1>8 DEF HasSize, longer

\* What is taken from the end is subtracted.
LEMMA FrontSize ==
  ASSUME NEW list \in Seq(Item({0})), list # <<>>, NEW n, HasSize(list, n)
  PROVE  HasSize(Front(list), n - SizeOf(Last(list)))
<1>1. PICK f : Sums(list, f) /\ f[Len(list)] = n
  BY DEF HasSize
<1> DEFINE N == Len(list) - 1
           rest == Front(list)
           g == [i \in 0 .. N |-> f[i]]
<1>2. /\ N \in Nat /\ N + 1 = Len(list) /\ Last(list) = list[N + 1]
      /\ Last(list) \in Item({0})
      /\ rest \in Seq(Item({0})) /\ Len(rest) = N
      /\ \A i \in 1 .. N : rest[i] = list[i]
  BY FrontLastProperties
<1>3. /\ f \in [0 .. (N + 1) -> Nat] /\ f[0] = 0
      /\ \A i \in 1 .. (N + 1) : f[i] = f[i - 1] + SizeOf(list[i])
  BY <1>1, <1>2 DEF Sums
<1> HIDE DEF N, rest
<1>4. f[N + 1] = n /\ f[N + 1] = f[N] + SizeOf(Last(list)) /\ f[N] \in Nat
  <2>1. N + 1 \in 1 .. (N + 1) /\ (N + 1) - 1 = N /\ N \in 0 .. (N + 1)
    BY <1>2
  <2> QED
    BY <1>1, <1>2, <1>3, <2>1
<1>5. SizeOf(Last(list)) \in Nat
  BY <1>2, SizeOfType
<1>6. f[N] = n - SizeOf(Last(list))
  BY <1>4, <1>5
<1>7. g \in [0 .. N -> Nat] /\ g[0] = 0 /\ g[N] = f[N]
  BY <1>2, <1>3
<1>8. \A i \in 1 .. N : g[i] = g[i - 1] + SizeOf(rest[i])
  BY <1>2, <1>3
<1> HIDE DEF g
<1>9. Sums(rest, g) /\ g[Len(rest)] = n - SizeOf(Last(list))
  BY <1>2, <1>6, <1>7, <1>8 DEF Sums
<1> QED
  BY <1>9 DEF HasSize, rest

\* The partial sums do not change where nothing has a size.
LEMMA FlatSums ==
  ASSUME NEW list \in Seq(Item({0})), NEW f, Sums(list, f),
         NEW a \in 0 .. Len(list), NEW b \in 0 .. Len(list), a <= b,
         \A i \in (a + 1) .. b : SizeOf(list[i]) = 0
  PROVE  f[a] = f[b]
<1> DEFINE T == {d \in Nat : a + d <= b => f[a] = f[a + d]}
<1>1. Len(list) \in Nat /\ a \in Nat /\ b \in Nat /\ b <= Len(list)
      /\ f \in [0 .. Len(list) -> Nat]
      /\ \A i \in 1 .. Len(list) : f[i] = f[i - 1] + SizeOf(list[i])
  BY DEF Sums
<1>2. 0 \in T
  BY <1>1
<1>3. ASSUME NEW d \in Nat, d \in T PROVE d + 1 \in T
  <2>1. SUFFICES ASSUME a + (d + 1) <= b PROVE f[a] = f[a + (d + 1)]
    OBVIOUS
  <2>2. /\ a + (d + 1) \in 1 .. Len(list) /\ a + (d + 1) \in (a + 1) .. b
        /\ (a + (d + 1)) - 1 = a + d /\ a + d <= b /\ a + d \in 0 .. Len(list)
    BY <1>1, <2>1
  <2>3. f[a] = f[a + d] /\ f[a + d] \in Nat
    BY <1>1, <1>3, <2>2
  <2>4. f[a + (d + 1)] = f[a + d] + SizeOf(list[a + (d + 1)])
    BY <1>1, <2>2
  <2> QED
    BY <2>2, <2>3, <2>4
<1> HIDE DEF T
<1>4. b - a \in T
  <2>1. \A d \in Nat : d \in T
    BY <1>2, <1>3, SetInduction
  <2>2. b - a \in Nat
    BY <1>1
  <2> QED
    BY <2>1, <2>2
<1>5. a + (b - a) = b /\ b <= b
  BY <1>1
<1> QED
  BY <1>4, <1>5 DEF T

\* The flush of a type that is not a packet's does not change the size.
LEMMA WithoutSize ==
  ASSUME NEW list \in Seq(Item({0})), NEW type, type # "packet",
         NEW n, HasSize(list, n)
  PROVE  HasSize(WithoutType(list, type), n)
<1>1. PICK f : Sums(list, f) /\ f[Len(list)] = n
  BY DEF HasSize
<1> DEFINE L     == Len(list)
           rest  == WithoutType(list, type)
           I     == KeptPositions(list, type)
           N     == Len(rest)
           place == [k \in 0 .. N |-> IF k = 0 THEN 0 ELSE Nth(I, k)]
           g     == [k \in 0 .. N |-> f[place[k]]]
<1>2. /\ rest \in Seq(Item({0}))
      /\ \A k \in DOMAIN rest : Nth(I, k) \in I /\ rest[k] = list[Nth(I, k)]
      /\ \A a, b \in DOMAIN rest : a < b => Nth(I, a) < Nth(I, b)
      /\ \A i \in I : \E k \in DOMAIN rest : Nth(I, k) = i
  BY WithoutTypeProperties
<1>3. L \in Nat /\ DOMAIN list = 1 .. L /\ I \subseteq 1 .. L
  BY DEF KeptPositions
<1>4. N \in Nat /\ DOMAIN rest = 1 .. N
  BY <1>2
<1>5. \A i \in 1 .. L : i \notin I => SizeOf(list[i]) = 0
  BY <1>3 DEF SizeOf, IsPacket, KeptPositions
<1> HIDE DEF I, rest, N, L
<1>6. /\ place[0] = 0 /\ place \in [0 .. N -> 0 .. L]
      /\ \A k \in 1 .. N : place[k] = Nth(I, k) /\ place[k] \in I /\ rest[k] = list[place[k]]
  <2>1. 0 \in 0 .. N /\ \A k \in 1 .. N : k \in 0 .. N /\ k # 0
    BY <1>4
  <2>2. place[0] = 0 /\ \A k \in 1 .. N : place[k] = Nth(I, k)
    BY <2>1
  <2>3. \A k \in 1 .. N : Nth(I, k) \in I /\ rest[k] = list[Nth(I, k)]
    BY <1>2, <1>4
  <2>4. \A k \in 0 .. N : k # 0 => k \in 1 .. N
    BY <1>4
  <2>5. \A k \in 0 .. N : (IF k = 0 THEN 0 ELSE Nth(I, k)) \in 0 .. L
    <3>1. 0 \in 0 .. L /\ \A i \in I : i \in 0 .. L
      BY <1>3
    <3> QED
      BY <2>3, <2>4, <3>1
  <2> QED
    BY <2>2, <2>3, <2>5
<1>7. \A a, b \in 0 .. N : a < b => place[a] < place[b]
  <2>1. SUFFICES ASSUME NEW a \in 0 .. N, NEW b \in 0 .. N, a < b PROVE place[a] < place[b]
    OBVIOUS
  <2>2. b \in 1 .. N
    BY <1>4, <2>1
  <2>0. place[b] \in 1 .. L
    BY <1>3, <1>6, <2>2
  <2>3. CASE a = 0
    BY <1>6, <2>0, <2>3
  <2>4. CASE a # 0
    <3>1. a \in 1 .. N
      BY <1>4, <2>4
    <3>2. Nth(I, a) < Nth(I, b)
      BY <1>2, <1>4, <2>1, <2>2, <3>1
    <3> QED
      BY <1>6, <2>2, <3>1, <3>2
  <2> QED
    BY <2>3, <2>4
<1> HIDE DEF place
<1>8. \A i \in I : \E k \in 1 .. N : place[k] = i
  BY <1>2, <1>4, <1>6
<1>9. ASSUME NEW k \in 1 .. N
      PROVE  f[place[k]] = f[place[k - 1]] + SizeOf(rest[k])
  <2> DEFINE a == place[k - 1]
             b == place[k] - 1
  <2>1. /\ k - 1 \in 0 .. N /\ k \in 0 .. N /\ k - 1 < k
        /\ a \in 0 .. L /\ place[k] \in 1 .. L /\ a < place[k]
    <3>1. k - 1 \in 0 .. N /\ k \in 0 .. N /\ k - 1 < k
      BY <1>4
    <3> QED
      BY <1>3, <1>6, <1>7, <3>1
  <2>2. b \in 0 .. L /\ a <= b
    BY <1>3, <2>1
  <2>3. ASSUME NEW i \in (a + 1) .. b PROVE i \notin I
    <3>1. SUFFICES ASSUME i \in I PROVE FALSE
      OBVIOUS
    <3>2. PICK l \in 1 .. N : place[l] = i
      BY <1>8, <3>1
    <3>3. l \in 0 .. N /\ place[l] \in 0 .. L /\ ~(place[l] <= a) /\ ~(place[l] >= place[k])
      <4>1. l \in 0 .. N
        BY <1>4
      <4>2. place[l] \in 0 .. L
        BY <1>6, <4>1
      <4>3. i >= a + 1 /\ i <= place[k] - 1 /\ i \in Int
        BY <2>3
      <4>4. a \in Int /\ place[k] \in Int
        BY <1>3, <2>1
      <4> HIDE DEF a, b
      <4>5. ~(i <= a) /\ ~(i >= place[k])
        BY ONLY <4>3, <4>4
      <4> QED
        BY <3>2, <4>1, <4>2, <4>5
    <3>4. ~(k < l) /\ l # k /\ ~(l < k - 1) /\ l # k - 1
      <4>1. \A x \in 0 .. N : x < l => place[x] < place[l]
        BY <1>7, <3>3
      <4>2. \A x \in 0 .. N : l < x => place[l] < place[x]
        BY <1>7, <3>3
      <4>3. a \in Nat /\ place[k] \in Nat /\ place[l] \in Nat
        BY <1>3, <2>1, <3>3
      <4> QED
        BY <2>1, <3>3, <4>1, <4>2, <4>3
    <3> QED
      BY <1>4, <3>3, <3>4
  <2>4. \A i \in (a + 1) .. b : SizeOf(list[i]) = 0
    BY <1>3, <1>5, <2>1, <2>3
  <2> HIDE DEF a, b
  <2>7. a \in 0 .. Len(list) /\ b \in 0 .. Len(list)
    BY <2>1, <2>2 DEF a, L
  <2>5. f[a] = f[b]
    BY <1>1, <2>2, <2>4, <2>7, FlatSums
  <2>6. f[place[k]] = f[place[k] - 1] + SizeOf(list[place[k]])
    BY <1>1, <2>1 DEF Sums, L
  <2> QED
    BY <1>6, <2>5, <2>6 DEF a, b
<1>10. f[place[N]] = n
  <2> DEFINE a == place[N]
  <2>1. N \in 0 .. N /\ a \in 0 .. L /\ L \in 0 .. L
    BY <1>3, <1>4, <1>6
  <2>2. ASSUME NEW i \in (a + 1) .. L PROVE i \notin I
    <3>1. SUFFICES ASSUME i \in I PROVE FALSE
      OBVIOUS
    <3>2. PICK l \in 1 .. N : place[l] = i
      BY <1>8, <3>1
    <3>3. l \in 0 .. N /\ place[l] \in 0 .. L /\ ~(place[l] <= a)
      BY <1>3, <1>4, <1>6, <2>1, <2>2, <3>2
    <3>4. ~(l < N) /\ l # N
      BY <1>3, <1>7, <2>1, <3>3
    <3> QED
      BY <1>4, <3>2, <3>4
  <2>3. \A i \in (a + 1) .. L : SizeOf(list[i]) = 0
    BY <1>3, <1>5, <2>1, <2>2
  <2> HIDE DEF a
  <2>4. f[a] = f[L]
    BY <1>1, <1>3, <2>1, <2>3, FlatSums DEF L
  <2> QED
    BY <1>1, <2>4 DEF a, L
<1>11. \A i \in 0 .. L : f[i] \in Nat
  BY <1>1 DEF Sums, L
<1>12. g \in [0 .. N -> Nat] /\ g[0] = 0 /\ g[N] = n
  <2>1. f[0] = 0 /\ 0 \in 0 .. N /\ N \in 0 .. N
    BY <1>1, <1>4 DEF Sums
  <2> QED
    BY <1>6, <1>10, <1>11, <2>1
<1>13. \A k \in 1 .. N : g[k] = g[k - 1] + SizeOf(rest[k])
  <2>1. \A k \in 1 .. N : k \in 0 .. N /\ k - 1 \in 0 .. N
    BY <1>4
  <2> QED
    BY <1>9, <2>1
<1> HIDE DEF g
<1>14. Sums(rest, g) /\ g[Len(rest)] = n
  BY <1>12, <1>13 DEF Sums, N
<1> QED
  BY <1>14 DEF HasSize, rest

\* The fold of DataSizeExact is the last of the partial sums.
LEMMA SizeIsFold ==
  ASSUME NEW list \in Seq(Item({0})), NEW n, HasSize(list, n)
  PROVE  n \in Nat /\ n = FoldLeft(LAMBDA k, item : k + SizeOf(item), 0, list)
<1>1. PICK f : Sums(list, f) /\ f[Len(list)] = n
  BY DEF HasSize
<1> DEFINE L == Len(list)
           Solves(g) == g = [s \in SUBSET (1 .. L) |->
                               IF s = {} THEN 0 ELSE g[s \ {Max(s)}] + SizeOf(list[Max(s)])]
<1>2. L \in Nat /\ DOMAIN list = 1 .. L
  OBVIOUS
<1>3. FoldLeft(LAMBDA k, item : k + SizeOf(item), 0, list) =
        (CHOOSE g : Solves(g))[1 .. L]
  <2>1. FoldLeft(LAMBDA k, item : k + SizeOf(item), 0, list) =
          (CHOOSE g : g = [s \in SUBSET DOMAIN list |->
             IF s = {} THEN 0 ELSE g[s \ {Max(s)}] + SizeOf(list[Max(s)])])[DOMAIN list]
    BY Zenon DEF FoldLeft, MapThenFoldSet
  <2> QED
    BY <1>2, <2>1
<1>4. \E g : Solves(g)
  <2>1. \A i \in 1 .. L : SizeOf(list[i]) \in Nat
    BY <1>2, SizeOfType
  <2> DEFINE W == [e \in Nat \X (1 .. L) |-> e[1] + SizeOf(list[e[2]])]
  <2>2. \A x \in Nat, i \in 1 .. L : W[<<x, i>>] = x + SizeOf(list[i])
    OBVIOUS
  <2> HIDE DEF W, L
  <2>3. \A x \in Nat, i \in 1 .. L : W[<<x, i>>] \in Nat
    <3>1. SUFFICES ASSUME NEW x \in Nat, NEW i \in 1 .. L PROVE x + SizeOf(list[i]) \in Nat
      BY <2>2
    <3> QED
      BY <2>1
  <2>4. PICK g \in [SUBSET (1 .. L) -> Nat] : FoldSolves(g, L, 0, W)
    <3>1. 0 \in Nat
      OBVIOUS
    <3> QED
      BY <1>2, <2>3, <3>1, FoldExists
  <2>5. \A s \in SUBSET (1 .. L) : s # {} =>
          W[<<g[s \ {Max(s)}], Max(s)>>] = g[s \ {Max(s)}] + SizeOf(list[Max(s)])
    <3>1. SUFFICES ASSUME NEW s \in SUBSET (1 .. L), s # {}
                   PROVE  g[s \ {Max(s)}] \in Nat /\ Max(s) \in 1 .. L
      BY <2>2
    <3> QED
      BY <1>2, <3>1, MaxOfInterval
  <2>6. [s \in SUBSET (1 .. L) |->
           IF s = {} THEN 0 ELSE W[<<g[s \ {Max(s)}], Max(s)>>]] =
        [s \in SUBSET (1 .. L) |->
           IF s = {} THEN 0 ELSE g[s \ {Max(s)}] + SizeOf(list[Max(s)])]
    BY <2>5
  <2> QED
    BY <2>4, <2>6 DEF L, FoldSolves
<1> DEFINE g == CHOOSE h : Solves(h)
<1>5. Solves(g)
  BY <1>4
<1> HIDE DEF g
<1>6. \A s \in SUBSET (1 .. L) :
        g[s] = IF s = {} THEN 0 ELSE g[s \ {Max(s)}] + SizeOf(list[Max(s)])
  BY <1>5
<1>7. /\ f[0] = 0 /\ f \in [0 .. L -> Nat]
      /\ \A i \in 1 .. L : f[i] = f[i - 1] + SizeOf(list[i])
  BY <1>1 DEF Sums
<1> DEFINE T == {k \in Nat : k <= L => g[1 .. k] = f[k]}
<1>8. 0 \in T
  <2>1. 1 .. 0 = {} /\ {} \in SUBSET (1 .. L)
    OBVIOUS
  <2> QED
    BY <1>6, <1>7, <2>1
<1>9. ASSUME NEW k \in Nat, k \in T PROVE k + 1 \in T
  <2>1. SUFFICES ASSUME k + 1 <= L PROVE g[1 .. (k + 1)] = f[k + 1]
    OBVIOUS
  <2>2. /\ k <= L /\ k + 1 \in 1 .. L /\ (k + 1) - 1 = k
        /\ 1 .. (k + 1) \in SUBSET (1 .. L) /\ k + 1 \in 1 .. (k + 1)
        /\ (1 .. (k + 1)) \ {k + 1} = 1 .. k
    BY <1>2, <2>1
  <2>3. Max(1 .. (k + 1)) = k + 1
    BY <2>2, MaxIsBound
  <2>4. g[1 .. (k + 1)] = g[1 .. k] + SizeOf(list[k + 1])
    <3>1. g[1 .. (k + 1)] = g[(1 .. (k + 1)) \ {k + 1}] + SizeOf(list[k + 1])
      BY <1>6, <2>2, <2>3
    <3> QED
      BY <2>2, <3>1
  <2>5. g[1 .. k] = f[k] /\ f[k + 1] = f[k] + SizeOf(list[k + 1])
    <3>1. f[k + 1] = f[(k + 1) - 1] + SizeOf(list[k + 1])
      BY <1>7, <2>2
    <3> QED
      BY <1>9, <2>2, <3>1
  <2> QED
    BY <2>4, <2>5
<1> HIDE DEF T
<1>10. L \in T
  BY <1>2, <1>8, <1>9, SetInduction
<1>11. g[1 .. L] = n
  BY <1>1, <1>2, <1>10 DEF T
<1>12. n \in Nat
  BY <1>1, <1>2, <1>7
<1> QED
  BY <1>3, <1>11, <1>12 DEF g

-----------------------------------------------------------------------------
(* The order of a list, by the times f of the puts.                        *)

Ordered(list, f) ==
  \A i, k \in DOMAIN list : i < k =>
    \/ list[i].priority < list[k].priority
    \/ list[i].priority = list[k].priority /\ f[list[i].message] > f[list[k].message]

\* Its order does not depend on messages that are not in the list.
LEMMA OrderedElsewhere ==
  ASSUME NEW list, NEW f, NEW g, Ordered(list, f),
         \A i \in DOMAIN list : f[list[i].message] = g[list[i].message]
  PROVE  Ordered(list, g)
BY DEF Ordered

\* A flush keeps the order.
LEMMA OrderedWithout ==
  ASSUME NEW S, NEW list \in Seq(S), NEW type, NEW f, Ordered(list, f)
  PROVE  Ordered(WithoutType(list, type), f)
<1> DEFINE rest == WithoutType(list, type)
           I    == KeptPositions(list, type)
<1>1. /\ \A k \in DOMAIN rest : Nth(I, k) \in DOMAIN list /\ rest[k] = list[Nth(I, k)]
      /\ \A a, b \in DOMAIN rest : a < b => Nth(I, a) < Nth(I, b)
  BY WithoutTypeProperties DEF KeptPositions
<1> HIDE DEF rest, I
<1>2. Ordered(rest, f)
  <2>1. SUFFICES ASSUME NEW a \in DOMAIN rest, NEW b \in DOMAIN rest, a < b
                 PROVE  \/ rest[a].priority < rest[b].priority
                        \/ /\ rest[a].priority = rest[b].priority
                           /\ f[rest[a].message] > f[rest[b].message]
    BY DEF Ordered
  <2> QED
    BY <1>1, <2>1 DEF Ordered
<1> QED
  BY <1>2 DEF rest

\* So does taking the last.
LEMMA OrderedFront ==
  ASSUME NEW S, NEW list \in Seq(S), list # <<>>, NEW f, Ordered(list, f)
  PROVE  /\ Ordered(Front(list), f)
         /\ \A k \in DOMAIN Front(list) :
              /\ k \in DOMAIN list /\ Front(list)[k] = list[k]
              /\ Len(list) \in DOMAIN list /\ k < Len(list) /\ Last(list) = list[Len(list)]
<1>1. \A k \in DOMAIN Front(list) :
        /\ k \in DOMAIN list /\ Front(list)[k] = list[k]
        /\ Len(list) \in DOMAIN list /\ k < Len(list) /\ Last(list) = list[Len(list)]
  BY FrontLastProperties
<1> QED
  BY <1>1 DEF Ordered

\* What is put after all others goes to the head, what was put before them to the
\* end.
LEMMA OrderedCons ==
  ASSUME NEW list \in Seq(Item({0})), NEW item \in Item({0}), NEW f, Ordered(list, f),
         \A i \in DOMAIN list : f[item.message] > f[list[i].message]
  PROVE  /\ Ordered(<<item>> \o list, f)
         /\ \A k \in DOMAIN (<<item>> \o list) :
              \/ (<<item>> \o list)[k] = item
              \/ \E i \in DOMAIN list : (<<item>> \o list)[k] = list[i]
<1> DEFINE longer == <<item>> \o list
           N == Len(list)
<1>1. /\ DOMAIN longer = 1 .. (N + 1) /\ longer[1] = item
      /\ \A k \in 2 .. (N + 1) : k - 1 \in DOMAIN list /\ longer[k] = list[k - 1]
  BY ConsProperties
<1>2. N \in Nat /\ DOMAIN list = 1 .. N
      /\ \A i \in DOMAIN list : list[i].priority = item.priority
  <2>1. \A i \in DOMAIN list : list[i] \in Item({0})
    OBVIOUS
  <2> QED
    BY <2>1 DEF Item
<1> HIDE DEF longer, N
<1>3. \A k \in DOMAIN longer : longer[k] = item \/ \E i \in DOMAIN list : longer[k] = list[i]
  <2>1. \A k \in 1 .. (N + 1) : k = 1 \/ k \in 2 .. (N + 1)
    BY <1>2
  <2> QED
    BY <1>1, <2>1
<1>4. ASSUME NEW a \in DOMAIN longer, NEW b \in DOMAIN longer, a < b
      PROVE  /\ longer[a].priority = longer[b].priority
             /\ f[longer[a].message] > f[longer[b].message]
  <2>1. b \in 2 .. (N + 1) /\ b - 1 \in DOMAIN list /\ longer[b] = list[b - 1]
    BY <1>1, <1>2, <1>4
  <2>2. CASE a = 1
    BY <1>1, <1>2, <2>1, <2>2
  <2>3. CASE a # 1
    <3>1. a - 1 \in DOMAIN list /\ longer[a] = list[a - 1] /\ a - 1 < b - 1
      BY <1>1, <1>2, <1>4, <2>1, <2>3
    <3>2. list[a - 1].priority = list[b - 1].priority
          /\ ~(list[a - 1].priority < list[b - 1].priority)
      <4>1. item.priority = 0
        BY DEF Item
      <4>2. list[a - 1].priority = 0 /\ list[b - 1].priority = 0
        BY <1>2, <2>1, <3>1, <4>1
      <4> QED
        BY <4>2
    <3> QED
      BY <2>1, <3>1, <3>2 DEF Ordered
  <2> QED
    BY <2>2, <2>3
<1>5. Ordered(longer, f)
  BY <1>4 DEF Ordered
<1> QED
  BY <1>3, <1>5 DEF longer

\* A message that comes after all the others in the order f may go to the end.
LEMMA OrderedAppend ==
  ASSUME NEW list \in Seq(Item({0})), NEW item \in Item({0}), NEW f, Ordered(list, f),
         \A i \in DOMAIN list : f[list[i].message] > f[item.message]
  PROVE  /\ Ordered(Append(list, item), f)
         /\ \A k \in DOMAIN Append(list, item) :
              \/ Append(list, item)[k] = item
              \/ \E i \in DOMAIN list : Append(list, item)[k] = list[i]
<1> DEFINE longer == Append(list, item)
           N == Len(list)
<1>1. /\ N \in Nat /\ DOMAIN list = 1 .. N
      /\ DOMAIN longer = 1 .. (N + 1) /\ longer[N + 1] = item
      /\ \A k \in 1 .. N : longer[k] = list[k]
  OBVIOUS
<1>2. \A i \in DOMAIN list : list[i].priority = item.priority
  <2>1. \A i \in DOMAIN list : list[i] \in Item({0})
    OBVIOUS
  <2> QED
    BY <2>1 DEF Item
<1> HIDE DEF longer, N
<1>3. \A k \in DOMAIN longer : longer[k] = item \/ \E i \in DOMAIN list : longer[k] = list[i]
  <2>1. \A k \in 1 .. (N + 1) : k = N + 1 \/ k \in 1 .. N
    BY <1>1
  <2> QED
    BY <1>1, <2>1
<1>4. ASSUME NEW a \in DOMAIN longer, NEW b \in DOMAIN longer, a < b
      PROVE  \/ longer[a].priority < longer[b].priority
             \/ /\ longer[a].priority = longer[b].priority
                /\ f[longer[a].message] > f[longer[b].message]
  <2>1. a \in 1 .. N /\ longer[a] = list[a]
    BY <1>1, <1>4
  <2>2. CASE b = N + 1
    BY <1>1, <1>2, <2>1, <2>2
  <2>3. CASE b # N + 1
    <3>1. b \in 1 .. N /\ longer[b] = list[b]
      BY <1>1, <2>3
    <3> QED
      BY <1>1, <1>4, <2>1, <3>1 DEF Ordered
  <2> QED
    BY <2>2, <2>3
<1>5. Ordered(longer, f)
  BY <1>4 DEF Ordered
<1> QED
  BY <1>3, <1>5 DEF longer

\* A priority message that is put after all others keeps the order.
LEMMA OrderedInsert ==
  ASSUME NEW list \in Seq(Item(Priority)), NEW item \in Item(Priority), NEW f,
         Ordered(list, f),
         \A i \in DOMAIN list : f[item.message] > f[list[i].message]
  PROVE  /\ Ordered(PrioInsert(list, item, TRUE), f)
         /\ \A k \in DOMAIN PrioInsert(list, item, TRUE) :
              \/ PrioInsert(list, item, TRUE)[k] = item
              \/ \E i \in DOMAIN list : PrioInsert(list, item, TRUE)[k] = list[i]
<1> DEFINE r == PrioInsert(list, item, TRUE)
           N == Len(list)
<1>1. PICK pos \in 1 .. (N + 1) :
        /\ r = InsertAt(list, pos, item)
        /\ \A k \in 1 .. (pos - 1) : list[k].priority < item.priority
        /\ pos <= N => item.priority <= list[pos].priority
  BY PrioInsertPlace
<1>2. /\ DOMAIN r = 1 .. (N + 1) /\ r[pos] = item
      /\ \A k \in 1 .. (pos - 1) : k \in DOMAIN list /\ r[k] = list[k]
      /\ \A k \in (pos + 1) .. (N + 1) : k - 1 \in DOMAIN list /\ r[k] = list[k - 1]
  <2>1. /\ DOMAIN InsertAt(list, pos, item) = 1 .. (N + 1)
        /\ InsertAt(list, pos, item)[pos] = item
        /\ \A k \in 1 .. (pos - 1) :
             k \in DOMAIN list /\ InsertAt(list, pos, item)[k] = list[k]
        /\ \A k \in (pos + 1) .. (N + 1) :
             k - 1 \in DOMAIN list /\ InsertAt(list, pos, item)[k] = list[k - 1]
    BY InsertAtProperties
  <2> HIDE DEF r
  <2> QED
    BY <1>1, <2>1
<1>3. /\ N \in Nat /\ DOMAIN list = 1 .. N /\ item.priority \in Nat
      /\ \A i \in DOMAIN list : list[i].priority \in Nat
  <2>1. \A i \in DOMAIN list : list[i] \in Item(Priority)
    OBVIOUS
  <2> QED
    BY <2>1 DEF Item, Priority
<1> HIDE DEF r, N
<1>4. \A k \in DOMAIN r : \/ k = pos /\ r[k] = item
                          \/ k \in 1 .. (pos - 1) /\ k \in DOMAIN list /\ r[k] = list[k]
                          \/ /\ k \in (pos + 1) .. (N + 1) /\ k - 1 \in DOMAIN list
                             /\ r[k] = list[k - 1]
  <2>1. \A k \in 1 .. (N + 1) : k = pos \/ k \in 1 .. (pos - 1) \/ k \in (pos + 1) .. (N + 1)
    BY <1>3
  <2> QED
    BY <1>2, <2>1
<1>5. \A i \in DOMAIN list : i >= pos => item.priority <= list[i].priority
  <2>1. SUFFICES ASSUME NEW i \in DOMAIN list, i >= pos
                 PROVE  item.priority <= list[i].priority
    OBVIOUS
  <2>2. pos \in DOMAIN list /\ pos <= N
    BY <1>3, <2>1
  <2>3. i = pos \/ pos < i
    BY <1>3, <2>1
  <2>4. list[pos].priority <= list[i].priority
    <3>1. list[pos].priority \in Nat /\ list[i].priority \in Nat
      BY <1>3, <2>2
    <3>2. pos < i => \/ list[pos].priority < list[i].priority
                     \/ list[pos].priority = list[i].priority
      BY <2>2 DEF Ordered
    <3> QED
      BY <2>3, <3>1, <3>2
  <2> QED
    BY <1>1, <1>3, <2>2, <2>4
<1>6. ASSUME NEW a \in DOMAIN r, NEW b \in DOMAIN r, a < b
      PROVE  \/ r[a].priority < r[b].priority
             \/ r[a].priority = r[b].priority /\ f[r[a].message] > f[r[b].message]
  <2>1. a \in Nat /\ b \in Nat /\ pos \in Nat
    BY <1>2, <1>3
  <2>2. CASE b = pos
    <3>1. a \in 1 .. (pos - 1) /\ r[a] = list[a]
      BY <1>4, <1>6, <2>1, <2>2
    <3> QED
      BY <1>1, <1>2, <2>2, <3>1
  <2>3. CASE a = pos
    <3>1. /\ b \in (pos + 1) .. (N + 1) /\ b - 1 \in DOMAIN list /\ r[b] = list[b - 1]
          /\ b - 1 >= pos
      BY <1>4, <1>6, <2>1, <2>3
    <3>2. item.priority <= list[b - 1].priority /\ list[b - 1].priority \in Nat
      BY <1>3, <1>5, <3>1
    <3> QED
      BY <1>2, <1>3, <2>3, <3>1, <3>2
  <2>4. CASE a # pos /\ b # pos
    <3> DEFINE old(k) == IF k < pos THEN k ELSE k - 1
    <3>1. /\ old(a) \in DOMAIN list /\ r[a] = list[old(a)]
          /\ old(b) \in DOMAIN list /\ r[b] = list[old(b)]
      BY <1>4, <2>1, <2>4
    <3>2. old(a) < old(b)
      BY <1>6, <2>1, <2>4
    <3> HIDE DEF old
    <3> QED
      BY <3>1, <3>2 DEF Ordered
  <2> QED
    BY <2>2, <2>3, <2>4
<1>7. Ordered(r, f)
  BY <1>6 DEF Ordered
<1>8. \A k \in DOMAIN r : r[k] = item \/ \E i \in DOMAIN list : r[k] = list[i]
  BY <1>4
<1> QED
  BY <1>7, <1>8 DEF r

-----------------------------------------------------------------------------
(* The inductive invariant: the types, and the events that keep them.      *)

TypeInv ==
  /\ queue \in Queue /\ TimesTogether(queue)
  /\ ~queue.m_bInitialized => queue.m_messages = <<>> /\ queue.m_prioMessages = <<>>
  /\ fresh \subseteq Message
  /\ getter \in {"idle", "get", "wait", "ended"} /\ minimum \in Minimum
  /\ held \subseteq Item(Priority)
  /\ sent \in [Message -> Nat]

\* The types hold at the beginning.
LEMMA TypeInit == Init => TypeInv
<1> SUFFICES ASSUME Init PROVE TypeInv
  OBVIOUS
<1>1. NewQueue \in Queue
  <2>1. <<>> \in Seq(Item({0})) /\ <<>> \in Seq(Item(Priority \ {0})) /\ NoPts \in Time
    BY DEF Time
  <2> HIDE DEF NoPts
  <2> QED
    BY <2>1 DEF NewQueue, Queue
<1>2. /\ queue \in Queue /\ TimesTogether(queue)
      /\ ~queue.m_bInitialized => queue.m_messages = <<>> /\ queue.m_prioMessages = <<>>
  BY <1>1 DEF Init, NewQueue, TimesTogether
<1>3. minimum \in Minimum /\ sent \in [Message -> Nat]
  BY DEF Init, Minimum
<1> QED
  BY <1>2, <1>3 DEF Init, TypeInv

\* How many messages were put is a number, and grows by one with each.
LEMMA PutCount ==
  ASSUME NEW F \in SUBSET Message, NEW m \in F
  PROVE  /\ Cardinality(Message \ F) \in Nat
         /\ Cardinality(Message \ (F \ {m})) = Cardinality(Message \ F) + 1
<1>1. IsFiniteSet(Message \ F)
  BY DemuxAssumption, FS_Subset
<1>2. Message \ (F \ {m}) = (Message \ F) \cup {m} /\ m \notin Message \ F
  OBVIOUS
<1> QED
  BY <1>1, <1>2, FS_CardinalityType, FS_AddElement

\* A message comes to the queue: what TypeInv says of the queue.
LEMMA PutType ==
  ASSUME TypeInv, NEW m \in Message, NEW p \in Priority
  PROVE  LET r == Put(queue, m, p)
         IN /\ r \in Queue /\ TimesTogether(r)
            /\ ~r.m_bInitialized => r.m_messages = <<>> /\ r.m_prioMessages = <<>>
            /\ r.m_bAbortRequest = queue.m_bAbortRequest
            /\ r = queue \/ r.m_hEvent
<1> DEFINE r == Put(queue, m, p)
<1>1. queue \in Queue /\ TimesTogether(queue)
      /\ (~queue.m_bInitialized => queue.m_messages = <<>> /\ queue.m_prioMessages = <<>>)
  BY DEF TypeInv
<1>2. CASE ~queue.m_bInitialized
  BY <1>1, <1>2 DEF Put, PutMessage
<1>3. CASE queue.m_bInitialized /\ p # 0
  <2>1. /\ r \in Queue /\ SameFlags(r, queue) /\ r.m_hEvent
        /\ r.m_TimeFront = queue.m_TimeFront /\ r.m_TimeBack = queue.m_TimeBack
    BY <1>1, <1>3, PutPriorityFields
  <2> HIDE DEF r
  <2>2. TimesTogether(r) /\ r.m_bInitialized /\ r.m_bAbortRequest = queue.m_bAbortRequest
    BY <1>1, <1>3, <2>1 DEF SameFlags, TimesTogether
  <2> QED
    BY <2>1, <2>2 DEF r
<1>4. CASE queue.m_bInitialized /\ p = 0
  <2> DEFINE tf   == IF queue.m_messages = <<>> THEN NoPts ELSE queue.m_TimeFront
             tb   == IF queue.m_messages = <<>> THEN NoPts ELSE queue.m_TimeBack
             time == IF TimeOf[m] # NoPts THEN TimeOf[m] ELSE tf
  <2>1. r = PutMessage(queue, m, 0, TRUE)
    BY <1>4 DEF Put
  <2>2. /\ r \in Queue /\ SameFlags(r, queue) /\ r.m_hEvent
        /\ ~IsPacket(m) => r.m_TimeFront = tf /\ r.m_TimeBack = tb
        /\ IsPacket(m) => /\ r.m_TimeFront = time
                          /\ r.m_TimeBack = IF tb = NoPts THEN time ELSE tb
    <3> DEFINE q == PutMessage(queue, m, 0, TRUE)
    <3>1. q \in Queue /\ SameFlags(q, queue) /\ q.m_hEvent
      BY <1>1, <1>4, PutFields
    <3>2. ~IsPacket(m) => q.m_TimeFront = tf /\ q.m_TimeBack = tb
      BY <1>1, <1>4, PutFields
    <3>3. IsPacket(m) => q.m_TimeFront = time
      BY <1>1, <1>4, PutFields
    <3>4. IsPacket(m) => q.m_TimeBack = IF tb = NoPts THEN time ELSE tb
      BY <1>1, <1>4, PutFields
    <3> QED
      BY <2>1, <3>1, <3>2, <3>3, <3>4
  <2>3. tf = NoPts <=> tb = NoPts
    BY <1>1 DEF TimesTogether
  <2> HIDE DEF r, tf, tb
  <2>4. TimesTogether(r) /\ r.m_bInitialized /\ r.m_bAbortRequest = queue.m_bAbortRequest
    BY <1>4, <2>2, <2>3 DEF SameFlags, TimesTogether
  <2> QED
    BY <2>2, <2>4 DEF r
<1> QED
  BY <1>2, <1>3, <1>4

\* The same for a packet that is put back.
LEMMA PutBackType ==
  ASSUME TypeInv, NEW m \in Message
  PROVE  LET r == PutBack(queue, m, 0)
         IN /\ r \in Queue /\ TimesTogether(r)
            /\ ~r.m_bInitialized => r.m_messages = <<>> /\ r.m_prioMessages = <<>>
            /\ r = queue \/ r.m_hEvent
<1> DEFINE r == PutBack(queue, m, 0)
<1>1. queue \in Queue /\ TimesTogether(queue)
      /\ (~queue.m_bInitialized => queue.m_messages = <<>> /\ queue.m_prioMessages = <<>>)
  BY DEF TypeInv
<1>2. CASE ~queue.m_bInitialized
  BY <1>1, <1>2 DEF PutBack, PutMessage
<1>3. CASE queue.m_bInitialized
  <2> DEFINE tf   == IF queue.m_messages = <<>> THEN NoPts ELSE queue.m_TimeFront
             tb   == IF queue.m_messages = <<>> THEN NoPts ELSE queue.m_TimeBack
             time == IF TimeOf[m] # NoPts THEN TimeOf[m] ELSE tb
  <2>1. r = PutMessage(queue, m, 0, FALSE)
    BY DEF PutBack
  <2>2. /\ r \in Queue /\ SameFlags(r, queue) /\ r.m_hEvent
        /\ ~IsPacket(m) => r.m_TimeFront = tf /\ r.m_TimeBack = tb
        /\ IsPacket(m) => /\ r.m_TimeFront = IF tf = NoPts THEN time ELSE tf
                          /\ r.m_TimeBack = time
    <3> DEFINE q == PutMessage(queue, m, 0, FALSE)
    <3>1. q \in Queue /\ SameFlags(q, queue) /\ q.m_hEvent
      BY <1>1, <1>3, PutFields
    <3>2. ~IsPacket(m) => q.m_TimeFront = tf /\ q.m_TimeBack = tb
      BY <1>1, <1>3, PutFields
    <3>3. IsPacket(m) => q.m_TimeFront = IF tf = NoPts THEN time ELSE tf
      BY <1>1, <1>3, PutFields
    <3>4. IsPacket(m) => q.m_TimeBack = time
      BY <1>1, <1>3, PutFields
    <3> QED
      BY <2>1, <3>1, <3>2, <3>3, <3>4
  <2>3. tf = NoPts <=> tb = NoPts
    BY <1>1 DEF TimesTogether
  <2> HIDE DEF r, tf, tb
  <2>4. TimesTogether(r) /\ r.m_bInitialized
    BY <1>3, <2>2, <2>3 DEF SameFlags, TimesTogether
  <2> QED
    BY <2>2, <2>4 DEF r
<1> QED
  BY <1>2, <1>3

\* Every step keeps the types.
LEMMA TypeStep == TypeInv /\ [Next]_vars => TypeInv'
<1> SUFFICES ASSUME TypeInv, [Next]_vars PROVE TypeInv'
  OBVIOUS
<1> USE DEF TypeInv
<1>1. CASE QueueInit
  <2>1. TimesTogether(queue)' /\ (queue \in Queue)' /\ queue'.m_bInitialized
    BY <1>1, InitEndFields DEF QueueInit, TimesTogether
  <2> QED
    BY <1>1, <2>1 DEF QueueInit
<1>2. ASSUME NEW m \in Message, NEW p \in Priority, QueuePut(m, p) PROVE TypeInv'
  <2>1. /\ (queue \in Queue)' /\ TimesTogether(queue)'
        /\ ~queue'.m_bInitialized => queue'.m_messages = <<>> /\ queue'.m_prioMessages = <<>>
    BY <1>2, PutType DEF QueuePut, TimesTogether
  <2>2. m \in fresh /\ Cardinality(Message \ fresh) \in Nat
    BY <1>2, PutCount DEF QueuePut
  <2>3. (sent \in [Message -> Nat])' /\ (fresh \subseteq Message)'
    BY <1>2, <2>2 DEF QueuePut
  <2> QED
    BY <1>2, <2>1, <2>3 DEF QueuePut
<1>3. ASSUME NEW type, QueueFlush(type) PROVE TypeInv'
  <2>1. (queue \in Queue)' /\ TimesTogether(queue)'
        /\ queue'.m_bInitialized = queue.m_bInitialized
        /\ queue'.m_messages = WithoutType(queue.m_messages, type)
        /\ queue'.m_prioMessages = WithoutType(queue.m_prioMessages, type)
    BY <1>3, FlushFields DEF QueueFlush, TimesTogether, SameFlags
  <2>2. WithoutType(<<>>, type) = <<>>
    <3>1. \A I \in SUBSET {} : I = {}
      OBVIOUS
    <3>2. WithoutType(<<>>, type) = SubSeqAt(<<>>, {}) /\ DOMAIN <<>> = {}
      BY <3>1 DEF WithoutType
    <3>3. <<>> \in Seq({}) /\ {} \in SUBSET DOMAIN <<>> /\ Cardinality({}) = 0
      BY <3>2, FS_EmptySet
    <3>4. SubSeqAt(<<>>, {}) \in Seq({})
      BY <3>3, SubSeqAtProperties
    <3> QED
      BY <3>2, <3>4
  <2> QED
    BY <1>3, <2>1, <2>2 DEF QueueFlush
<1>4. CASE QueueAbort
  <2>1. queue' = AbortQueue(queue) /\ UNCHANGED <<fresh, getter, minimum, held, sent>>
    BY <1>4 DEF QueueAbort
  <2> QED
    BY <2>1, FlagFields DEF SameData, TimesTogether
<1>5. CASE QueueEnd
  <2>1. (queue \in Queue)' /\ TimesTogether(queue)'
        /\ queue'.m_messages = <<>> /\ queue'.m_prioMessages = <<>>
    BY <1>5, InitEndFields DEF QueueEnd, TimesTogether
  <2> QED
    BY <1>5, <2>1 DEF QueueEnd
<1>6. CASE SetDrain
  <2>1. queue' = Drained(queue) /\ UNCHANGED <<fresh, getter, minimum, held, sent>>
    BY <1>6 DEF SetDrain, Drained
  <2> QED
    BY <2>1, FlagFields DEF SameData, TimesTogether
<1>7. ASSUME NEW p \in Minimum, GetBegin(p) PROVE TypeInv'
  BY <1>7 DEF GetBegin
<1>8. CASE GetOK
  <2> DEFINE item == GetItem(queue, minimum)
  <2>1. /\ (queue \in Queue)' /\ SameFlags(queue', queue)
        /\ item \in Item(Priority \ {0}) \/ item \in Item({0})
        /\ TimesTogether(queue)'
    <3>1. queue' = Taken(queue, minimum) /\ HasMessage(queue, minimum)
          /\ minimum \in Minimum /\ queue \in Queue /\ TimesTogether(queue)
      BY <1>8 DEF GetOK
    <3> DEFINE r == Taken(queue, minimum)
               last == Last(r.m_messages).message
    <3>2. /\ r \in Queue /\ SameFlags(r, queue)
          /\ item \in Item(Priority \ {0}) \/ item \in Item({0})
          /\ IF r.m_messages # <<>> /\ Timed(last)
             THEN /\ r.m_TimeBack = TimeOf[last]
                  /\ r.m_TimeFront = IF queue.m_TimeFront = NoPts THEN TimeOf[last]
                                     ELSE queue.m_TimeFront
             ELSE r.m_TimeBack = queue.m_TimeBack /\ r.m_TimeFront = queue.m_TimeFront
      BY <3>1, TakenFields
    <3> HIDE DEF r, item, last
    <3>3. r.m_TimeFront = NoPts <=> r.m_TimeBack = NoPts
      BY <3>1, <3>2 DEF TimesTogether, Timed
    <3> QED
      BY <3>1, <3>2, <3>3 DEF r, TimesTogether
  <2>2. item \in Item(Priority)
    BY <2>1 DEF Item, Priority
  <2>3. ~queue'.m_bInitialized => queue'.m_messages = <<>> /\ queue'.m_prioMessages = <<>>
    BY <1>8, <2>1, HasMessageMeaning DEF GetOK, SameFlags
  <2>4. minimum' \in Minimum /\ held' \subseteq Item(Priority)
    BY <1>8, <2>2 DEF GetOK, Minimum
  <2> QED
    BY <1>8, <2>1, <2>3, <2>4 DEF GetOK
<1>9. CASE GetUnlock
  <2>1. queue' = Unset(queue) /\ getter' = "wait" /\ UNCHANGED <<fresh, minimum, held, sent>>
    BY <1>9 DEF GetUnlock, Unset
  <2> QED
    BY <2>1, FlagFields DEF SameData, SameFlags, TimesTogether
<1>10. CASE GetAborted
  BY <1>10 DEF GetAborted, Minimum
<1>11. CASE GetWoken
  BY <1>11 DEF GetWoken
<1>12. CASE GetTimeout
  BY <1>12 DEF GetTimeout, Minimum
<1>13. CASE PutItemBack
  <2>1. PICK item \in held : queue' = PutBack(queue, item.message, 0)
    BY <1>13 DEF PutItemBack
  <2>2. item.message \in Message
    BY <2>1 DEF Item
  <2>3. /\ (queue \in Queue)' /\ TimesTogether(queue)'
        /\ ~queue'.m_bInitialized => queue'.m_messages = <<>> /\ queue'.m_prioMessages = <<>>
    BY <2>1, <2>2, PutBackType DEF TimesTogether
  <2> QED
    BY <1>13, <2>3 DEF PutItemBack
<1>14. CASE UNCHANGED vars
  BY <1>14 DEF vars, TimesTogether
<1> QED
  BY <1>1, <1>2, <1>3, <1>4, <1>5, <1>6, <1>7, <1>8, <1>9, <1>10, <1>11, <1>12, <1>13,
     <1>14 DEF Next, Owner, Getting

\* Every step: either it leaves the data of the queue alone, or it is one of the
\* steps the invariants are about.
LEMMA QuietSteps ==
  ASSUME TypeInv, [Next]_vars
  PROVE  \/ /\ SameData(queue', queue) /\ UNCHANGED <<fresh, sent>>
            /\ held' \subseteq held
         \/ /\ queue'.m_messages = <<>> /\ queue'.m_prioMessages = <<>>
            /\ queue'.m_iDataSize = 0
            /\ queue'.m_TimeFront = NoPts /\ queue'.m_TimeBack = NoPts
            /\ UNCHANGED <<fresh, sent, held>>
         \/ \E m \in Message, p \in Priority : QueuePut(m, p)
         \/ \E type : QueueFlush(type)
         \/ GetOK \/ PutItemBack
<1> USE DEF TypeInv
<1>1. CASE QueueInit
  BY <1>1, InitEndFields DEF QueueInit
<1>2. CASE QueueAbort
  BY <1>2, FlagFields DEF QueueAbort
<1>3. CASE QueueEnd
  BY <1>3, InitEndFields DEF QueueEnd
<1>4. CASE SetDrain
  BY <1>4, FlagFields DEF SetDrain, Drained
<1>5. ASSUME NEW p \in Minimum, GetBegin(p)
      PROVE  SameData(queue', queue) /\ UNCHANGED <<fresh, sent>> /\ held' \subseteq held
  BY <1>5 DEF GetBegin, SameData
<1>6. CASE GetUnlock
  BY <1>6, FlagFields DEF GetUnlock, Unset
<1>7. CASE GetAborted \/ GetWoken \/ GetTimeout \/ UNCHANGED vars
  BY <1>7 DEF GetAborted, GetWoken, GetTimeout, vars, SameData
<1> QED
  BY <1>1, <1>2, <1>3, <1>4, <1>5, <1>6, <1>7 DEF Next, Owner, Getting

\* No wake-up is lost.
LEMMA WakeStep == TypeInv /\ NoLostWakeup /\ [Next]_vars => NoLostWakeup'
<1> SUFFICES ASSUME TypeInv, NoLostWakeup, [Next]_vars,
                    getter' = "wait",
                    HasMessage(queue, minimum)' \/ queue'.m_bAbortRequest
             PROVE  queue'.m_hEvent
  BY DEF NoLostWakeup
<1>1. /\ queue \in Queue /\ (queue \in Queue)'
      /\ minimum \in Minimum /\ (minimum \in Minimum)'
      /\ ~queue.m_bInitialized => queue.m_messages = <<>> /\ queue.m_prioMessages = <<>>
  BY TypeStep DEF TypeInv
<1>2. /\ HasMessage(queue, minimum) <=>
           queue.m_prioMessages # <<>> \/ (minimum = 0 /\ queue.m_messages # <<>>)
      /\ HasMessage(queue, minimum)' <=>
           queue'.m_prioMessages # <<>> \/ (minimum' = 0 /\ queue'.m_messages # <<>>)
  BY <1>1, HasMessageMeaning
<1>3. CASE QueueInit
  BY <1>1, <1>2, <1>3, InitEndFields DEF QueueInit
<1>4. ASSUME NEW m \in Message, NEW p \in Priority, QueuePut(m, p) PROVE queue'.m_hEvent
  <2>1. queue' = queue \/ queue'.m_hEvent
    BY <1>4, PutType DEF QueuePut
  <2> QED
    BY <1>4, <2>1 DEF QueuePut, NoLostWakeup
<1>5. ASSUME NEW type, QueueFlush(type) PROVE queue'.m_hEvent
  <2>1. /\ queue'.m_hEvent = queue.m_hEvent
        /\ queue'.m_bAbortRequest = queue.m_bAbortRequest
        /\ queue'.m_messages = WithoutType(queue.m_messages, type)
        /\ queue'.m_prioMessages = WithoutType(queue.m_prioMessages, type)
    BY <1>1, <1>5, FlushFields DEF QueueFlush, SameFlags
  <2>2. ASSUME NEW S, NEW list \in Seq(S), list = <<>> PROVE WithoutType(list, type) = <<>>
    <3>1. WithoutType(list, type) \in Seq({})
      <4>1. list \in Seq({})
        BY <2>2
      <4> QED
        BY <4>1, WithoutTypeProperties
    <3> QED
      BY <3>1
  <2>3. /\ queue'.m_messages # <<>> => queue.m_messages # <<>>
        /\ queue'.m_prioMessages # <<>> => queue.m_prioMessages # <<>>
    BY <1>1, <2>1, <2>2 DEF Queue
  <2> QED
    BY <1>2, <1>5, <2>1, <2>3 DEF QueueFlush, NoLostWakeup
<1>6. CASE QueueAbort
  BY <1>1, <1>6, FlagFields DEF QueueAbort
<1>7. CASE SetDrain
  <2>1. queue' = Drained(queue) /\ UNCHANGED <<getter, minimum>>
    BY <1>7 DEF SetDrain, Drained
  <2> QED
    BY <1>1, <1>2, <2>1, FlagFields DEF SameData, NoLostWakeup
<1>8. CASE GetUnlock
  <2>1. SameData(queue', queue) /\ SameFlags(queue', queue) /\ minimum' = minimum
    BY <1>1, <1>8, FlagFields DEF GetUnlock, Unset
  <2> QED
    BY <1>2, <1>8, <2>1 DEF GetUnlock, SameData, SameFlags
<1>9. CASE QueueEnd \/ GetOK \/ GetAborted \/ GetWoken \/ GetTimeout \/ PutItemBack
           \/ \E p \in Minimum : GetBegin(p)
  BY <1>9 DEF QueueEnd, GetOK, GetAborted, GetWoken, GetTimeout, PutItemBack, GetBegin
<1>10. CASE UNCHANGED vars
  BY <1>2, <1>10 DEF vars, NoLostWakeup
<1> QED
  BY <1>3, <1>4, <1>5, <1>6, <1>7, <1>8, <1>9, <1>10 DEF Next, Owner, Getting

-----------------------------------------------------------------------------
(* The size.                                                               *)

SizeInv == HasSize(queue.m_messages, queue.m_iDataSize)

\* Every step keeps the size exact: m_iDataSize is what the packets take.
LEMMA SizeStep == TypeInv /\ SizeInv /\ [Next]_vars => SizeInv'
<1> SUFFICES ASSUME TypeInv, SizeInv, [Next]_vars PROVE SizeInv'
  OBVIOUS
<1>1. queue \in Queue /\ queue.m_messages \in Seq(Item({0})) /\ TimesTogether(queue)
      /\ minimum \in Minimum /\ held \subseteq Item(Priority) /\ queue.m_iDataSize \in Int
  BY DEF TypeInv, Queue
<1>2. CASE SameData(queue', queue)
  BY <1>2 DEF SameData, SizeInv
<1>3. CASE queue'.m_messages = <<>> /\ queue'.m_iDataSize = 0
  <2>1. <<>> \in Seq(Item({0})) /\ DOMAIN <<>> = {}
    OBVIOUS
  <2>2. HasSize(<<>>, 0)
    BY <2>1, NoSize
  <2> QED
    BY <1>3, <2>2 DEF SizeInv
<1>4. ASSUME NEW m \in Message, NEW front \in BOOLEAN, queue.m_bInitialized,
             queue' = PutMessage(queue, m, 0, front)
      PROVE  SizeInv'
  <2> DEFINE item == [message |-> m, priority |-> 0]
  <2>1. item \in Item({0})
    BY DEF Item
  <2>2. /\ queue'.m_messages = IF front THEN <<item>> \o queue.m_messages
                               ELSE Append(queue.m_messages, item)
        /\ queue'.m_iDataSize = (IF queue.m_messages = <<>> THEN 0 ELSE queue.m_iDataSize)
                                  + SizeOf(item)
    BY <1>1, <1>4, PutFields
  <2> HIDE DEF item
  <2>3. queue.m_messages = <<>> => queue.m_iDataSize = 0
    BY EmptySize DEF SizeInv
  <2>4. queue'.m_iDataSize = queue.m_iDataSize + SizeOf(item)
    BY <2>2, <2>3
  <2>5. HasSize(queue.m_messages, queue.m_iDataSize)
    BY DEF SizeInv
  <2>6. /\ HasSize(<<item>> \o queue.m_messages, queue.m_iDataSize + SizeOf(item))
        /\ HasSize(Append(queue.m_messages, item), queue.m_iDataSize + SizeOf(item))
    BY <1>1, <2>1, <2>5, ConsSize, AppendSize
  <2> QED
    BY <2>2, <2>4, <2>6 DEF SizeInv
<1>5. ASSUME NEW m \in Message, NEW p \in Priority, QueuePut(m, p) PROVE SizeInv'
  <2>1. queue' = Put(queue, m, p)
    BY <1>5 DEF QueuePut
  <2>2. CASE ~queue.m_bInitialized
    BY <2>1, <2>2 DEF Put, PutMessage, SizeInv
  <2>3. CASE queue.m_bInitialized /\ p # 0
    BY <1>1, <2>1, <2>3, PutPriorityFields DEF SizeInv
  <2>4. CASE queue.m_bInitialized /\ p = 0
    BY <1>4, <2>1, <2>4 DEF Put
  <2> QED
    BY <2>2, <2>3, <2>4
<1>6. ASSUME NEW type, QueueFlush(type) PROVE SizeInv'
  <2> DEFINE list == queue.m_messages
             rest == WithoutType(list, type)
  <2>1. /\ queue'.m_messages = rest
        /\ queue'.m_iDataSize = IF type = "packet" THEN 0 ELSE queue.m_iDataSize
    BY <1>1, <1>6, FlushFields DEF QueueFlush
  <2>2. CASE type = "packet"
    <3>1. /\ rest \in Seq(Item({0}))
          /\ \A k \in DOMAIN rest :
               Nth(KeptPositions(list, type), k) \in KeptPositions(list, type)
               /\ rest[k] = list[Nth(KeptPositions(list, type), k)]
      BY <1>1, WithoutTypeProperties
    <3>2. \A k \in DOMAIN rest : ~IsPacket(rest[k].message)
      BY <2>2, <3>1 DEF KeptPositions, IsPacket
    <3> HIDE DEF rest
    <3>3. HasSize(rest, 0)
      BY <3>1, <3>2, NoSize
    <3> QED
      BY <2>1, <2>2, <3>3 DEF SizeInv
  <2>3. CASE type # "packet"
    BY <1>1, <2>1, <2>3, WithoutSize DEF SizeInv
  <2> QED
    BY <2>2, <2>3
<1>7. CASE GetOK
  <2> DEFINE item == GetItem(queue, minimum)
             r    == Taken(queue, minimum)
  <2>1. queue' = r /\ HasMessage(queue, minimum)
    BY <1>7 DEF GetOK
  <2>2. /\ queue.m_prioMessages # <<>> =>
             r.m_messages = queue.m_messages /\ r.m_iDataSize = queue.m_iDataSize
        /\ queue.m_prioMessages = <<>> =>
             /\ queue.m_messages # <<>> /\ item = Last(queue.m_messages)
             /\ r.m_messages = Front(queue.m_messages)
             /\ r.m_iDataSize = queue.m_iDataSize - SizeOf(item)
    BY <1>1, <2>1, TakenFields
  <2> HIDE DEF r, item
  <2>3. CASE queue.m_prioMessages # <<>>
    BY <2>1, <2>2, <2>3 DEF SizeInv
  <2>4. CASE queue.m_prioMessages = <<>>
    <3>1. HasSize(queue.m_messages, queue.m_iDataSize)
      BY DEF SizeInv
    <3>2. HasSize(Front(queue.m_messages),
                  queue.m_iDataSize - SizeOf(Last(queue.m_messages)))
      BY <1>1, <2>2, <2>4, <3>1, FrontSize
    <3> QED
      BY <2>1, <2>2, <2>4, <3>2 DEF SizeInv
  <2> QED
    BY <2>3, <2>4
<1>8. CASE PutItemBack
  <2>1. PICK item \in held : queue' = PutBack(queue, item.message, 0)
    BY <1>8 DEF PutItemBack
  <2>2. item.message \in Message
    BY <1>1, <2>1 DEF Item
  <2>3. CASE queue.m_bInitialized
    BY <1>4, <2>1, <2>2, <2>3 DEF PutBack
  <2>4. CASE ~queue.m_bInitialized
    BY <2>1, <2>4 DEF PutBack, PutMessage, SizeInv
  <2> QED
    BY <2>3, <2>4
<1> QED
  BY <1>2, <1>3, <1>5, <1>6, <1>7, <1>8, QuietSteps

-----------------------------------------------------------------------------
(* The order of delivery.                                                  *)

\* Every list is in order, by what was put before; what is queued or held was
\* put; and what was got from m_messages was put before all that is left in it.
SentInv ==
  /\ \A m \in Message \ fresh : sent[m] < Cardinality(Message \ fresh)
  /\ \A item \in held : item.message \notin fresh
  /\ \A i \in DOMAIN queue.m_messages : queue.m_messages[i].message \notin fresh
  /\ \A i \in DOMAIN queue.m_prioMessages : queue.m_prioMessages[i].message \notin fresh
OrderInv ==
  /\ SentInv
  /\ Ordered(queue.m_messages, sent) /\ Ordered(queue.m_prioMessages, sent)
  /\ \A item \in held : item.priority = 0 =>
       \A i \in DOMAIN queue.m_messages :
         sent[queue.m_messages[i].message] > sent[item.message]

\* What a put does to the history: the message is now the last that was put.
LEMMA PutHistory ==
  ASSUME TypeInv, SentInv, NEW m \in Message, NEW p \in Priority, QueuePut(m, p)
  PROVE  /\ fresh' = fresh \ {m} /\ m \in fresh
         /\ \A x \in Message \ fresh : x # m /\ x \notin fresh' /\ sent'[x] = sent[x]
                                       /\ sent'[m] > sent'[x]
         /\ \A x \in Message \ fresh' : sent'[x] < Cardinality(Message \ fresh)'
<1>1. /\ fresh \in SUBSET Message /\ m \in fresh /\ fresh' = fresh \ {m}
      /\ sent \in [Message -> Nat]
      /\ sent' = [sent EXCEPT ![m] = Cardinality(Message \ fresh)]
  BY DEF TypeInv, QueuePut
<1> DEFINE n == Cardinality(Message \ fresh)
<1>2. n \in Nat /\ Cardinality(Message \ fresh)' = n + 1
  BY <1>1, PutCount
<1>3. \A x \in Message \ fresh : sent[x] < n
  BY DEF SentInv
<1> HIDE DEF n
<1>4. sent'[m] = n /\ \A x \in Message \ fresh : x # m /\ x \notin fresh' /\ sent'[x] = sent[x]
  BY <1>1 DEF n
<1>5. \A x \in Message \ fresh : sent'[m] > sent'[x]
  BY <1>1, <1>2, <1>3, <1>4
<1>6. \A x \in Message \ fresh' : sent'[x] < n + 1
  <2>1. \A x \in Message \ fresh' : x = m \/ x \in Message \ fresh
    BY <1>1
  <2> QED
    BY <1>1, <1>2, <1>3, <1>4, <2>1
<1> QED
  BY <1>1, <1>2, <1>4, <1>5, <1>6

\* Every step keeps the lists in the order of priority and arrival.
LEMMA OrderStep == TypeInv /\ OrderInv /\ [Next]_vars => OrderInv'
<1> SUFFICES ASSUME TypeInv, OrderInv, [Next]_vars PROVE OrderInv'
  OBVIOUS
<1>1. /\ queue \in Queue /\ TimesTogether(queue) /\ minimum \in Minimum
      /\ queue.m_messages \in Seq(Item({0}))
      /\ queue.m_prioMessages \in Seq(Item(Priority \ {0}))
      /\ queue.m_prioMessages \in Seq(Item(Priority))
      /\ held \subseteq Item(Priority)
  <2>1. queue \in Queue /\ TimesTogether(queue) /\ minimum \in Minimum
        /\ held \subseteq Item(Priority)
    BY DEF TypeInv
  <2>2. queue.m_messages \in Seq(Item({0}))
        /\ queue.m_prioMessages \in Seq(Item(Priority \ {0}))
    BY <2>1 DEF Queue
  <2>3. Item(Priority \ {0}) \subseteq Item(Priority)
    BY DEF Item
  <2>4. queue.m_prioMessages \in Seq(Item(Priority))
    BY <2>2, <2>3, SeqMonotone
  <2> QED
    BY <2>1, <2>2, <2>4
<1>2. /\ \A i \in DOMAIN queue.m_messages :
           /\ queue.m_messages[i] \in Item({0})
           /\ queue.m_messages[i].message \in Message \ fresh
      /\ \A i \in DOMAIN queue.m_prioMessages :
           queue.m_prioMessages[i].message \in Message \ fresh
      /\ \A item \in held : item.message \in Message \ fresh
  <2>1. /\ \A i \in DOMAIN queue.m_messages : queue.m_messages[i] \in Item({0})
        /\ \A i \in DOMAIN queue.m_prioMessages : queue.m_prioMessages[i] \in Item(Priority)
    BY <1>1
  <2> QED
    BY <1>1, <2>1 DEF Item, OrderInv, SentInv
<1>3. CASE SameData(queue', queue) /\ UNCHANGED <<fresh, sent>> /\ held' \subseteq held
  BY <1>3 DEF OrderInv, SentInv, SameData
<1>4. CASE /\ queue'.m_messages = <<>> /\ queue'.m_prioMessages = <<>>
           /\ UNCHANGED <<fresh, sent, held>>
  <2>1. DOMAIN <<>> = {}
    OBVIOUS
  <2> QED
    BY <1>4, <2>1 DEF OrderInv, SentInv, Ordered
<1>5. ASSUME NEW m \in Message, NEW p \in Priority, QueuePut(m, p) PROVE OrderInv'
  <2>1. /\ fresh' = fresh \ {m} /\ m \in fresh
        /\ \A x \in Message \ fresh : x # m /\ x \notin fresh' /\ sent'[x] = sent[x]
                                      /\ sent'[m] > sent'[x]
        /\ \A x \in Message \ fresh' : sent'[x] < Cardinality(Message \ fresh)'
    BY <1>5, PutHistory DEF OrderInv
  <2>2. Ordered(queue.m_messages, sent') /\ Ordered(queue.m_prioMessages, sent')
    <3>1. /\ \A i \in DOMAIN queue.m_messages :
               sent[queue.m_messages[i].message] = sent'[queue.m_messages[i].message]
          /\ \A i \in DOMAIN queue.m_prioMessages :
               sent[queue.m_prioMessages[i].message] = sent'[queue.m_prioMessages[i].message]
      BY <1>2, <2>1
    <3> QED
      BY <3>1, OrderedElsewhere DEF OrderInv
  <2>3. \A item \in held : /\ item.message \notin fresh'
                           /\ item.priority = 0 =>
                                /\ \A i \in DOMAIN queue.m_messages :
                                     sent'[queue.m_messages[i].message] > sent'[item.message]
                                /\ sent'[m] > sent'[item.message]
    BY <1>2, <2>1 DEF OrderInv
  <2>4. queue' = Put(queue, m, p) /\ held' = held
    BY <1>5 DEF QueuePut
  <2> DEFINE item == [message |-> m, priority |-> p]
  <2>5. item \in Item(Priority) /\ (p = 0 => item \in Item({0})) /\ item.message = m
    BY DEF Item
  <2>6. CASE ~queue.m_bInitialized
    <3>1. queue' = queue
      BY <2>4, <2>6 DEF Put, PutMessage
    <3>2. SentInv'
      BY <1>2, <2>1, <2>3, <2>4, <3>1 DEF SentInv
    <3> QED
      BY <2>2, <2>3, <2>4, <3>1, <3>2 DEF OrderInv
  <2>7. CASE queue.m_bInitialized /\ p # 0
    <3> DEFINE list == PrioInsert(queue.m_prioMessages, item, TRUE)
    <3>1. queue'.m_messages = queue.m_messages /\ queue'.m_prioMessages = list
      BY <1>1, <2>4, <2>7, PutPriorityFields
    <3> HIDE DEF item
    <3>2. \A i \in DOMAIN queue.m_prioMessages :
            sent'[item.message] > sent'[queue.m_prioMessages[i].message]
      BY <1>2, <2>1, <2>5
    <3>3. /\ Ordered(list, sent')
          /\ \A k \in DOMAIN list :
               list[k] = item \/ \E i \in DOMAIN queue.m_prioMessages :
                                   list[k] = queue.m_prioMessages[i]
      BY <1>1, <2>2, <2>5, <3>2, OrderedInsert
    <3> HIDE DEF list
    <3>4. \A k \in DOMAIN list : list[k].message \notin fresh'
      BY <1>2, <2>1, <2>5, <3>3
    <3>5. SentInv'
      BY <1>2, <2>1, <2>3, <2>4, <3>1, <3>4 DEF SentInv
    <3> QED
      BY <2>2, <2>3, <2>4, <3>1, <3>3, <3>5 DEF OrderInv
  <2>8. CASE queue.m_bInitialized /\ p = 0
    <3> DEFINE list == <<item>> \o queue.m_messages
    <3>1. queue'.m_messages = list /\ queue'.m_prioMessages = queue.m_prioMessages
      <4>1. queue' = PutMessage(queue, m, 0, TRUE)
        BY <2>4, <2>8 DEF Put
      <4> QED
        BY <1>1, <2>8, <4>1, PutFields
    <3> HIDE DEF item
    <3>2. \A i \in DOMAIN queue.m_messages :
            sent'[item.message] > sent'[queue.m_messages[i].message]
      BY <1>2, <2>1, <2>5
    <3>3. /\ Ordered(list, sent')
          /\ \A k \in DOMAIN list :
               list[k] = item \/ \E i \in DOMAIN queue.m_messages :
                                   list[k] = queue.m_messages[i]
      BY <1>1, <2>2, <2>5, <2>8, <3>2, OrderedCons
    <3> HIDE DEF list
    <3>4. \A k \in DOMAIN list : list[k].message \notin fresh'
      BY <1>2, <2>1, <2>5, <3>3
    <3>5. SentInv'
      BY <1>2, <2>1, <2>3, <2>4, <3>1, <3>4 DEF SentInv
    <3>6. \A old \in held : old.priority = 0 =>
            \A k \in DOMAIN list : sent'[list[k].message] > sent'[old.message]
      BY <2>3, <2>5, <3>3
    <3> QED
      BY <2>2, <2>4, <3>1, <3>3, <3>5, <3>6 DEF OrderInv
  <2> QED
    BY <2>6, <2>7, <2>8
<1>6. ASSUME NEW type, QueueFlush(type) PROVE OrderInv'
  <2> DEFINE a == WithoutType(queue.m_messages, type)
             b == WithoutType(queue.m_prioMessages, type)
  <2>1. /\ queue'.m_messages = a /\ queue'.m_prioMessages = b
        /\ UNCHANGED <<fresh, held, sent>>
    BY <1>1, <1>6, FlushFields DEF QueueFlush
  <2>2. Ordered(a, sent) /\ Ordered(b, sent)
    BY <1>1, OrderedWithout DEF OrderInv
  <2>3. /\ \A k \in DOMAIN a : \E i \in DOMAIN queue.m_messages : a[k] = queue.m_messages[i]
        /\ \A k \in DOMAIN b : \E i \in DOMAIN queue.m_prioMessages :
                                 b[k] = queue.m_prioMessages[i]
    <3>1. \A S : \A list \in Seq(S) : \A k \in DOMAIN WithoutType(list, type) :
            \E i \in DOMAIN list : WithoutType(list, type)[k] = list[i]
      <4>1. SUFFICES ASSUME NEW S, NEW list \in Seq(S),
                            NEW k \in DOMAIN WithoutType(list, type)
                     PROVE  \E i \in DOMAIN list : WithoutType(list, type)[k] = list[i]
        OBVIOUS
      <4>2. /\ Nth(KeptPositions(list, type), k) \in KeptPositions(list, type)
            /\ WithoutType(list, type)[k] = list[Nth(KeptPositions(list, type), k)]
        BY WithoutTypeProperties
      <4> QED
        BY <4>2 DEF KeptPositions
    <3> QED
      BY <1>1, <3>1
  <2> HIDE DEF a, b
  <2>4. SentInv'
    BY <2>1, <2>3 DEF OrderInv, SentInv
  <2> QED
    BY <2>1, <2>2, <2>3, <2>4 DEF OrderInv
<1>7. CASE GetOK
  <2> DEFINE item == GetItem(queue, minimum)
             r    == Taken(queue, minimum)
             a    == Front(queue.m_messages)
             b    == Front(queue.m_prioMessages)
  <2>1. queue' = r /\ HasMessage(queue, minimum) /\ held' = {item}
        /\ UNCHANGED <<fresh, sent>>
    BY <1>7 DEF GetOK
  <2>2. /\ queue.m_prioMessages # <<>> =>
             /\ item = Last(queue.m_prioMessages) /\ item \in Item(Priority \ {0})
             /\ r.m_messages = queue.m_messages /\ r.m_prioMessages = b
        /\ queue.m_prioMessages = <<>> =>
             /\ queue.m_messages # <<>> /\ item = Last(queue.m_messages)
             /\ r.m_messages = a /\ r.m_prioMessages = queue.m_prioMessages
    BY <1>1, <2>1, TakenFields
  <2> HIDE DEF r, item, a, b
  <2>3. CASE queue.m_prioMessages # <<>>
    <3> DEFINE n == Len(queue.m_prioMessages)
    <3>1. /\ Ordered(b, sent)
          /\ \A k \in DOMAIN b : k \in DOMAIN queue.m_prioMessages
                                 /\ b[k] = queue.m_prioMessages[k]
      BY <1>1, <2>3, OrderedFront DEF OrderInv, b
    <3>2. item.priority # 0
      BY <2>2, <2>3 DEF Item
    <3>3. n \in DOMAIN queue.m_prioMessages /\ item = queue.m_prioMessages[n]
      BY <1>1, <2>2, <2>3, FrontLastProperties
    <3>4. SentInv'
      BY <2>1, <2>2, <2>3, <3>1, <3>3 DEF OrderInv, SentInv
    <3> QED
      BY <2>1, <2>2, <2>3, <3>1, <3>2, <3>4 DEF OrderInv
  <2>4. CASE queue.m_prioMessages = <<>>
    <3> DEFINE n == Len(queue.m_messages)
    <3>1. /\ Ordered(a, sent)
          /\ \A k \in DOMAIN a : /\ k \in DOMAIN queue.m_messages
                                 /\ a[k] = queue.m_messages[k] /\ k < n
      BY <1>1, <2>2, <2>4, OrderedFront DEF OrderInv, a
    <3>6. queue.m_messages # <<>> /\ item = Last(queue.m_messages)
      BY <2>2, <2>4
    <3>2. n \in DOMAIN queue.m_messages /\ item = queue.m_messages[n]
      <4>1. /\ Len(queue.m_messages) \in Nat \ {0}
            /\ DOMAIN queue.m_messages = 1 .. Len(queue.m_messages)
            /\ Last(queue.m_messages) = queue.m_messages[Len(queue.m_messages)]
        BY <1>1, <3>6, FrontLastProperties
      <4>2. n \in 1 .. n
        BY <4>1
      <4> QED
        BY <3>6, <4>1, <4>2
    <3>3. \A k \in DOMAIN a : sent[a[k].message] > sent[item.message]
      <4>1. SUFFICES ASSUME NEW k \in DOMAIN a PROVE sent[a[k].message] > sent[item.message]
        OBVIOUS
      <4>2. queue.m_messages[k].priority = 0 /\ queue.m_messages[n].priority = 0
            /\ k \in DOMAIN queue.m_messages
        BY <1>2, <3>1, <3>2 DEF Item
      <4>3. ~(queue.m_messages[k].priority < queue.m_messages[n].priority)
        BY <4>2
      <4> HIDE DEF n
      <4> QED
        BY <3>1, <3>2, <4>2, <4>3 DEF OrderInv, Ordered
    <3> HIDE DEF n
    <3>4. SentInv'
      BY <2>1, <2>2, <2>4, <3>1, <3>2 DEF OrderInv, SentInv
    <3>5. Ordered(queue.m_prioMessages, sent)
      BY DEF OrderInv
    <3> QED
      BY <2>1, <2>2, <2>4, <3>1, <3>3, <3>4, <3>5 DEF OrderInv
  <2> QED
    BY <2>3, <2>4
<1>8. CASE PutItemBack
  <2>1. PICK old \in held : old.priority = 0 /\ queue' = PutBack(queue, old.message, 0)
    BY <1>8 DEF PutItemBack
  <2>2. held' = {} /\ UNCHANGED <<fresh, sent>>
    BY <1>8 DEF PutItemBack
  <2>3. CASE ~queue.m_bInitialized
    <3>1. queue' = queue
      BY <2>1, <2>3 DEF PutBack, PutMessage
    <3> QED
      BY <2>2, <3>1 DEF OrderInv, SentInv
  <2>4. CASE queue.m_bInitialized
    <3> DEFINE item == [message |-> old.message, priority |-> 0]
               list == Append(queue.m_messages, item)
    <3>1. item \in Item({0}) /\ item.message = old.message /\ old.message \in Message
      BY <1>2, <2>1 DEF Item
    <3>2. queue'.m_messages = list /\ queue'.m_prioMessages = queue.m_prioMessages
      <4>1. PICK m \in Message : m = old.message
        BY <3>1
      <4>2. queue' = PutMessage(queue, m, 0, FALSE)
        BY <2>1, <4>1 DEF PutBack
      <4>3. /\ queue'.m_messages = Append(queue.m_messages, [message |-> m, priority |-> 0])
            /\ queue'.m_prioMessages = queue.m_prioMessages
        BY <1>1, <2>4, <4>2, PutFields
      <4> QED
        BY <4>1, <4>3
    <3> HIDE DEF item
    <3>3. \A i \in DOMAIN queue.m_messages :
            sent[queue.m_messages[i].message] > sent[item.message]
      BY <2>1, <3>1 DEF OrderInv
    <3>4. /\ Ordered(list, sent)
          /\ \A k \in DOMAIN list :
               list[k] = item \/ \E i \in DOMAIN queue.m_messages :
                                   list[k] = queue.m_messages[i]
      BY <1>1, <3>1, <3>3, OrderedAppend DEF OrderInv
    <3> HIDE DEF list
    <3>5. SentInv'
      BY <1>2, <2>1, <2>2, <3>1, <3>2, <3>4 DEF OrderInv, SentInv
    <3> QED
      BY <2>2, <3>2, <3>4, <3>5 DEF OrderInv
  <2> QED
    BY <2>3, <2>4
<1> QED
  BY <1>3, <1>4, <1>5, <1>6, <1>7, <1>8, QuietSteps

-----------------------------------------------------------------------------
(* The span of times.                                                      *)

\* Packets have been put in the order of their times.
TimesFollow ==
  \A a, b \in Message :
    /\ Timed(a) /\ Timed(b) /\ a \notin fresh
    /\ b \in fresh \/ sent[a] < sent[b]
    => TimeOf[a] <= TimeOf[b]

\* The span covers what is queued, is behind what comes, and m_TimeFront is not
\* behind the packet that may be put back.
SpanInv ==
  /\ TimesFollow
  /\ \A i \in DOMAIN queue.m_messages :
       LET x == queue.m_messages[i].message
       IN Timed(x) => /\ queue.m_TimeFront # NoPts
                      /\ queue.m_TimeBack <= TimeOf[x] /\ TimeOf[x] <= queue.m_TimeFront
  /\ \A item \in held :
       /\ item.priority = 0 /\ Timed(item.message)
       /\ queue.m_messages # <<>> /\ queue.m_TimeFront # NoPts
       => TimeOf[item.message] <= queue.m_TimeFront
  /\ \A x \in fresh :
       Timed(x) => queue.m_TimeFront <= TimeOf[x] /\ queue.m_TimeBack <= TimeOf[x]

\* Times are numbers.
LEMMA TimedType ==
  ASSUME NEW m \in Message, Timed(m)
  PROVE  TimeOf[m] \in Nat /\ IsPacket(m) /\ TimeOf[m] # NoPts
BY MessageAssumption DEF Timed

\* The packets keep the order in which the demuxer reads them.
LEMMA FollowStep ==
  ASSUME TypeInv, SentInv, TimesFollow, NEW m \in Message, NEW p \in Priority,
         QueuePut(m, p)
  PROVE  TimesFollow'
<1>1. /\ fresh' = fresh \ {m} /\ m \in fresh
      /\ \A x \in Message \ fresh : x # m /\ x \notin fresh' /\ sent'[x] = sent[x]
                                    /\ sent'[m] > sent'[x]
  BY PutHistory
<1>2. (sent \in [Message -> Nat])' /\ fresh \subseteq Message
  BY TypeStep DEF TypeInv, Next, Owner
<1>3. SUFFICES ASSUME NEW a \in Message, NEW b \in Message, Timed(a), Timed(b),
                      a \notin fresh', b \in fresh' \/ sent'[a] < sent'[b]
               PROVE  TimeOf[a] <= TimeOf[b]
  BY DEF TimesFollow, Timed, IsPacket
<1>4. CASE a # m
  <2>1. a \notin fresh /\ sent'[a] = sent[a]
    BY <1>1, <1>3, <1>4
  <2>2. b \in fresh \/ sent[a] < sent[b]
    <3>1. b \notin fresh => sent'[b] = sent[b] /\ b \notin fresh'
      BY <1>1
    <3> QED
      BY <1>3, <2>1, <3>1
  <2> QED
    BY <1>3, <2>1, <2>2 DEF TimesFollow
<1>5. CASE a = m
  <2>1. b \in fresh /\ b # m
    <3>1. sent'[a] \in Nat /\ sent'[b] \in Nat /\ ~(sent'[a] < sent'[a])
      BY <1>2
    <3>2. b \notin fresh => sent'[m] > sent'[b] /\ b \notin fresh'
      BY <1>1
    <3> QED
      BY <1>1, <1>3, <1>5, <3>1, <3>2
  <2>2. \A k \in Message : IsPacket(k) => \E i \in DOMAIN DemuxOrder : DemuxOrder[i] = k
    BY DemuxAssumption DEF ToSet
  <2>3. PICK i \in DOMAIN DemuxOrder : DemuxOrder[i] = a
    BY <1>3, <2>2, TimedType
  <2>4. PICK k \in DOMAIN DemuxOrder : DemuxOrder[k] = b
    BY <1>3, <2>2, TimedType
  <2>5. ~(k < i)
    BY <1>5, <2>1, <2>3, <2>4 DEF QueuePut, Turn
  <2>6. i < k
    <3>1. i # k /\ i \in Nat /\ k \in Nat
      BY <1>5, <2>1, <2>3, <2>4, DemuxAssumption
    <3> QED
      BY <2>5, <3>1
  <2>7. TimeOf[a] \in Nat /\ TimeOf[b] \in Nat
    BY <1>3, TimedType
  <2> QED
    BY <2>3, <2>4, <2>6, <2>7, DemuxAssumption
<1> QED
  BY <1>4, <1>5

\* Every step keeps m_TimeFront and m_TimeBack around the packets.
LEMMA SpanStep == TypeInv /\ OrderInv /\ SpanInv /\ [Next]_vars => SpanInv'
<1> SUFFICES ASSUME TypeInv, OrderInv, SpanInv, [Next]_vars PROVE SpanInv'
  OBVIOUS
<1>1. /\ queue \in Queue /\ TimesTogether(queue) /\ minimum \in Minimum
      /\ queue.m_messages \in Seq(Item({0}))
      /\ held \subseteq Item(Priority) /\ fresh \subseteq Message
      /\ queue.m_TimeFront \in Time /\ queue.m_TimeBack \in Time
  BY DEF TypeInv, Queue
<1>2. /\ \A i \in DOMAIN queue.m_messages :
           queue.m_messages[i].message \in Message \ fresh
      /\ \A item \in held : item.message \in Message \ fresh
  <2>1. \A i \in DOMAIN queue.m_messages : queue.m_messages[i] \in Item({0})
    BY <1>1
  <2> QED
    BY <1>1, <2>1 DEF Item, OrderInv, SentInv
<1>3. NoPts \in Int /\ \A n \in Nat : NoPts < n
  BY DEF NoPts
<1>4. TimesFollow'
  <2>1. CASE UNCHANGED <<fresh, sent>>
    BY <2>1 DEF SpanInv, TimesFollow, Timed, IsPacket
  <2>2. ASSUME NEW m \in Message, NEW p \in Priority, QueuePut(m, p) PROVE TimesFollow'
    BY <2>2, FollowStep DEF OrderInv, SpanInv
  <2> QED
    BY <2>1, <2>2, QuietSteps DEF QueueFlush, GetOK, PutItemBack
<1>5. CASE SameData(queue', queue) /\ UNCHANGED <<fresh, sent>> /\ held' \subseteq held
  BY <1>4, <1>5 DEF SpanInv, SameData, Timed, IsPacket
<1>6. CASE /\ queue'.m_messages = <<>>
           /\ queue'.m_TimeFront = NoPts /\ queue'.m_TimeBack = NoPts
           /\ UNCHANGED <<fresh, sent, held>>
  <2>1. DOMAIN <<>> = {}
    OBVIOUS
  <2>2. \A x \in fresh : Timed(x) => NoPts <= TimeOf[x]
    BY <1>1, <1>3, TimedType
  <2> QED
    BY <1>4, <1>6, <2>1, <2>2 DEF SpanInv, Timed, IsPacket
\* A put at the head.
<1>7. ASSUME NEW m \in Message, NEW p \in Priority, QueuePut(m, p) PROVE SpanInv'
  <2>1. queue' = Put(queue, m, p) /\ held' = held /\ fresh' = fresh \ {m} /\ m \in fresh
    BY <1>7 DEF QueuePut
  <2>2. CASE \/ ~queue.m_bInitialized
             \/ queue.m_bInitialized /\ p # 0
    <3>1. /\ queue'.m_messages = queue.m_messages
          /\ queue'.m_TimeFront = queue.m_TimeFront /\ queue'.m_TimeBack = queue.m_TimeBack
      <4>1. ~queue.m_bInitialized => queue' = queue
        BY <2>1 DEF Put, PutMessage
      <4> QED
        BY <1>1, <2>1, <2>2, <4>1, PutPriorityFields
    <3> QED
      BY <1>4, <2>1, <3>1 DEF SpanInv, Timed, IsPacket
  <2>3. CASE queue.m_bInitialized /\ p = 0
    <3> DEFINE item == [message |-> m, priority |-> 0]
               none == queue.m_messages = <<>>
               list == <<item>> \o queue.m_messages
               tf   == IF none THEN NoPts ELSE queue.m_TimeFront
               tb   == IF none THEN NoPts ELSE queue.m_TimeBack
               F    == queue'.m_TimeFront
               B    == queue'.m_TimeBack
    <3>1. queue' = PutMessage(queue, m, 0, TRUE)
      BY <2>1, <2>3 DEF Put
    <3>2. queue'.m_messages = list
      BY <1>1, <2>3, <3>1, PutFields
    <3>3. ~IsPacket(m) => F = tf /\ B = tb
      BY <1>1, <2>3, <3>1, PutFields
    <3>4. IsPacket(m) => F = IF TimeOf[m] # NoPts THEN TimeOf[m] ELSE tf
      BY <1>1, <2>3, <3>1, PutFields
    <3>5. IsPacket(m) => B = IF tb = NoPts
                             THEN IF TimeOf[m] # NoPts THEN TimeOf[m] ELSE tf
                             ELSE tb
      BY <1>1, <2>3, <3>1, PutFields
    <3>6. item \in Item({0}) /\ item.message = m
      BY DEF Item
    <3>7. \A k \in DOMAIN list :
            \/ list[k].message = m
            \/ /\ ~none
               /\ \E i \in DOMAIN queue.m_messages : list[k] = queue.m_messages[i]
      <4> HIDE DEF item
      <4>1. \A k \in 2 .. (Len(queue.m_messages) + 1) :
              k - 1 \in DOMAIN queue.m_messages /\ list[k] = queue.m_messages[k - 1]
        BY <1>1, <3>6, ConsProperties
      <4>2. DOMAIN list = 1 .. (Len(queue.m_messages) + 1) /\ list[1] = item
        BY <1>1, <3>6, ConsProperties
      <4>3. \A k \in 1 .. (Len(queue.m_messages) + 1) :
              k = 1 \/ k \in 2 .. (Len(queue.m_messages) + 1)
        OBVIOUS
      <4>4. none => DOMAIN queue.m_messages = {}
        OBVIOUS
      <4> HIDE DEF list
      <4> QED
        BY <3>6, <4>1, <4>2, <4>3, <4>4
    <3> HIDE DEF list, item
    <3>8. tf \in Time /\ tb \in Time /\ (tf = NoPts <=> tb = NoPts)
          /\ (~none => tf = queue.m_TimeFront /\ tb = queue.m_TimeBack)
          /\ (none => tf = NoPts)
      BY <1>1 DEF TimesTogether, Time
    <3>9. \A x \in fresh : Timed(x) => tf <= TimeOf[x] /\ tb <= TimeOf[x]
      BY <1>1, <1>3, <3>8, TimedType DEF SpanInv
    <3>10. none \/ ~none
      OBVIOUS
    <3> HIDE DEF none, tf, tb, F, B
    <3>11. CASE ~Timed(m)
      <4>1. F = tf /\ B = tb
        BY <3>3, <3>4, <3>5, <3>8, <3>11 DEF Timed
      <4>2. \A k \in DOMAIN list :
              Timed(list[k].message) =>
                /\ F # NoPts
                /\ B <= TimeOf[list[k].message] /\ TimeOf[list[k].message] <= F
        BY <3>7, <3>8, <3>11, <4>1 DEF SpanInv
      <4>3. \A old \in held : old.priority = 0 /\ Timed(old.message) /\ F # NoPts
                                => TimeOf[old.message] <= F
        BY <3>8, <3>10, <4>1 DEF SpanInv, none
      <4>4. \A x \in fresh' : Timed(x) => F <= TimeOf[x] /\ B <= TimeOf[x]
        BY <2>1, <3>9, <4>1
      <4> QED
        BY <1>4, <2>1, <3>2, <4>2, <4>3, <4>4 DEF SpanInv, F, B, Timed, IsPacket
    <3>12. CASE Timed(m)
      <4>1. /\ F = TimeOf[m] /\ B = IF tb = NoPts THEN TimeOf[m] ELSE tb
            /\ TimeOf[m] \in Nat /\ TimeOf[m] # NoPts
        BY <3>4, <3>5, <3>12, TimedType
      <4>2. tf <= TimeOf[m] /\ tb <= TimeOf[m] /\ B <= TimeOf[m]
        BY <2>1, <3>9, <3>12, <4>1
      <4>3. ASSUME NEW k \in DOMAIN list, Timed(list[k].message)
            PROVE  /\ F # NoPts
                   /\ B <= TimeOf[list[k].message] /\ TimeOf[list[k].message] <= F
        <5>1. CASE list[k].message = m
          BY <4>1, <4>2, <5>1
        <5>2. CASE list[k].message # m
          <6>1. PICK i \in DOMAIN queue.m_messages : ~none /\ list[k] = queue.m_messages[i]
            BY <3>7, <5>2
          <6> DEFINE x == queue.m_messages[i].message
          <6>2. x \in Message /\ Timed(x) /\ list[k].message = x
            BY <1>2, <4>3, <6>1
          <6>3. /\ tf # NoPts /\ tb # NoPts /\ tb <= TimeOf[x] /\ TimeOf[x] <= tf
                /\ TimeOf[x] \in Nat
            BY <3>8, <6>1, <6>2, TimedType DEF SpanInv
          <6> HIDE DEF x
          <6>4. TimeOf[x] <= TimeOf[m]
            BY <3>8, <4>1, <4>2, <6>3 DEF Time
          <6> QED
            BY <4>1, <6>2, <6>3, <6>4
        <5> QED
          BY <5>1, <5>2
      <4>4. \A old \in held : old.priority = 0 /\ Timed(old.message)
                                => TimeOf[old.message] <= F
        BY <1>1, <1>2, <2>1, <3>12, <4>1 DEF SpanInv, TimesFollow
      <4>5. \A x \in fresh' : Timed(x) => F <= TimeOf[x] /\ B <= TimeOf[x]
        <5>1. SUFFICES ASSUME NEW x \in fresh', Timed(x)
                       PROVE  F <= TimeOf[x] /\ B <= TimeOf[x]
          OBVIOUS
        <5>2. x \in Message /\ x \in fresh /\ x \in fresh' /\ m \notin fresh'
              /\ TimeOf[x] \in Nat
          BY <1>1, <2>1, <5>1, TimedType
        <5>3. TimeOf[m] <= TimeOf[x]
          BY <1>4, <3>12, <5>1, <5>2 DEF TimesFollow, Timed, IsPacket
        <5>4. tb <= TimeOf[x]
          BY <3>9, <5>1, <5>2
        <5> QED
          BY <4>1, <5>3, <5>4
      <4> QED
        BY <1>4, <2>1, <3>2, <4>3, <4>4, <4>5 DEF SpanInv, F, B, Timed, IsPacket
    <3> QED
      BY <3>11, <3>12
  <2> QED
    BY <2>2, <2>3
\* A flush.
<1>8. ASSUME NEW type, QueueFlush(type) PROVE SpanInv'
  <2> DEFINE list == queue.m_messages
             rest == WithoutType(list, type)
  <2>1. /\ queue'.m_messages = rest /\ UNCHANGED <<fresh, held, sent>>
        /\ IF type = "packet"
           THEN queue'.m_TimeFront = NoPts /\ queue'.m_TimeBack = NoPts
           ELSE /\ queue'.m_TimeFront = queue.m_TimeFront
                /\ queue'.m_TimeBack = queue.m_TimeBack
    BY <1>1, <1>8, FlushFields DEF QueueFlush
  <2>2. \A k \in DOMAIN rest :
          \E i \in DOMAIN list : rest[k] = list[i] /\ TypeOf[list[i].message] # type
    <3>1. \A k \in DOMAIN rest : /\ Nth(KeptPositions(list, type), k) \in KeptPositions(list, type)
                                 /\ rest[k] = list[Nth(KeptPositions(list, type), k)]
      BY <1>1, WithoutTypeProperties
    <3> QED
      BY <3>1 DEF KeptPositions
  <2>3. rest # <<>> => queue.m_messages # <<>>
    <3>1. SUFFICES ASSUME queue.m_messages = <<>> PROVE rest = <<>>
      OBVIOUS
    <3>2. rest \in Seq({})
      <4>1. list \in Seq({})
        BY <3>1
      <4> QED
        BY <4>1, WithoutTypeProperties
    <3> QED
      BY <3>2
  <2> HIDE DEF rest
  <2>4. CASE type = "packet"
    <3>1. \A k \in DOMAIN rest : ~Timed(rest[k].message)
      BY <2>2, <2>4 DEF Timed, IsPacket
    <3>2. \A x \in fresh : Timed(x) => NoPts <= TimeOf[x]
      BY <1>1, <1>3, TimedType
    <3> QED
      BY <1>4, <2>1, <2>4, <3>1, <3>2 DEF SpanInv, Timed, IsPacket
  <2>5. CASE type # "packet"
    BY <1>4, <2>1, <2>2, <2>3, <2>5 DEF SpanInv, Timed, IsPacket
  <2> QED
    BY <2>4, <2>5
\* Times fall from the head to the end.
<1>9. \A i, k \in DOMAIN queue.m_messages :
        LET a == queue.m_messages[i].message
            b == queue.m_messages[k].message
        IN i < k /\ Timed(a) /\ Timed(b) => TimeOf[b] <= TimeOf[a]
  <2>1. SUFFICES ASSUME NEW i \in DOMAIN queue.m_messages,
                        NEW k \in DOMAIN queue.m_messages, i < k,
                        Timed(queue.m_messages[i].message),
                        Timed(queue.m_messages[k].message)
                 PROVE  TimeOf[queue.m_messages[k].message]
                          <= TimeOf[queue.m_messages[i].message]
    OBVIOUS
  <2>2. queue.m_messages[i] \in Item({0}) /\ queue.m_messages[k] \in Item({0})
    BY <1>1
  <2>3. ~(queue.m_messages[i].priority < queue.m_messages[k].priority)
    BY <2>2 DEF Item
  <2>4. sent[queue.m_messages[i].message] > sent[queue.m_messages[k].message]
    BY <2>1, <2>3 DEF OrderInv, Ordered
  <2> DEFINE a == queue.m_messages[i].message
             b == queue.m_messages[k].message
  <2>5. sent[a] \in Nat /\ sent[b] \in Nat /\ a \in Message /\ b \in Message
        /\ b \notin fresh
    BY <1>2 DEF TypeInv
  <2>6. sent[b] < sent[a]
    BY <2>4, <2>5
  <2> HIDE DEF a, b
  <2>7. Timed(a) /\ Timed(b) => TimeOf[b] <= TimeOf[a]
    BY <2>5, <2>6 DEF SpanInv, TimesFollow
  <2> QED
    BY <2>1, <2>7 DEF a, b
\* Something is got; m_TimeBack becomes the time of what is last then.
<1>10. CASE GetOK
  <2> DEFINE item == GetItem(queue, minimum)
             r    == Taken(queue, minimum)
             a    == Front(queue.m_messages)
             F    == queue'.m_TimeFront
             B    == queue'.m_TimeBack
             list == queue'.m_messages
             last == Last(list).message
             urgent == queue.m_prioMessages # <<>>
  <2>1. queue' = r /\ HasMessage(queue, minimum) /\ held' = {item}
        /\ UNCHANGED <<fresh, sent>>
    BY <1>10 DEF GetOK
  <2>2. /\ r \in Queue
        /\ urgent => item \in Item(Priority \ {0}) /\ r.m_messages = queue.m_messages
        /\ ~urgent => /\ queue.m_messages # <<>> /\ item = Last(queue.m_messages)
                      /\ r.m_messages = a
    BY <1>1, <2>1, TakenFields
  <2>3. IF r.m_messages # <<>> /\ Timed(Last(r.m_messages).message)
        THEN /\ r.m_TimeBack = TimeOf[Last(r.m_messages).message]
             /\ r.m_TimeFront = IF queue.m_TimeFront = NoPts
                                THEN TimeOf[Last(r.m_messages).message]
                                ELSE queue.m_TimeFront
        ELSE r.m_TimeBack = queue.m_TimeBack /\ r.m_TimeFront = queue.m_TimeFront
    BY <1>1, <2>1, TakenFields
  <2> HIDE DEF item, r
  <2>4. list \in Seq(Item({0}))
    BY <2>1, <2>2 DEF Queue
  <2>5. \A k \in DOMAIN list : k \in DOMAIN queue.m_messages /\ list[k] = queue.m_messages[k]
    <3>1. CASE urgent
      BY <2>1, <2>2, <3>1
    <3>2. CASE ~urgent
      <4>1. queue.m_messages # <<>> /\ list = a
        BY <2>1, <2>2, <3>2
      <4>2. \A k \in DOMAIN a : k \in DOMAIN queue.m_messages /\ a[k] = queue.m_messages[k]
        <5>1. /\ Len(queue.m_messages) \in Nat
              /\ DOMAIN queue.m_messages = 1 .. Len(queue.m_messages)
              /\ DOMAIN a = 1 .. (Len(queue.m_messages) - 1)
              /\ \A k \in 1 .. (Len(queue.m_messages) - 1) : a[k] = queue.m_messages[k]
          BY <1>1, <4>1, FrontLastProperties
        <5> HIDE DEF a
        <5> QED
          BY <5>1
      <4> HIDE DEF a, list
      <4> QED
        BY <4>1, <4>2
    <3> QED
      BY <3>1, <3>2
  <2>6. IF list # <<>> /\ Timed(last)
        THEN B = TimeOf[last] /\ F = IF queue.m_TimeFront = NoPts THEN TimeOf[last]
                                     ELSE queue.m_TimeFront
        ELSE B = queue.m_TimeBack /\ F = queue.m_TimeFront
    BY <2>1, <2>3
  <2>7. list # <<>> => /\ Len(list) \in DOMAIN list /\ last = list[Len(list)].message
                       /\ \A k \in DOMAIN list : k = Len(list) \/ k < Len(list)
    <3>1. SUFFICES ASSUME list # <<>>
                   PROVE  /\ Len(list) \in DOMAIN list /\ last = list[Len(list)].message
                          /\ \A k \in DOMAIN list : k = Len(list) \/ k < Len(list)
      OBVIOUS
    <3> HIDE DEF list
    <3>2. /\ Len(list) \in Nat \ {0} /\ DOMAIN list = 1 .. Len(list)
          /\ Last(list) = list[Len(list)]
      BY <2>4, <3>1, FrontLastProperties
    <3>3. Len(list) \in 1 .. Len(list)
          /\ \A k \in 1 .. Len(list) : k = Len(list) \/ k < Len(list)
      <4>1. \A l \in Nat \ {0} : l \in 1 .. l /\ \A k \in 1 .. l : k = l \/ k < l
        OBVIOUS
      <4> QED
        BY <3>2, <4>1
    <3> QED
      BY <3>2, <3>3
  <2>8. /\ \A k \in DOMAIN queue.m_messages :
             LET x == queue.m_messages[k].message
             IN Timed(x) => /\ queue.m_TimeFront # NoPts /\ queue.m_TimeBack <= TimeOf[x]
                            /\ TimeOf[x] <= queue.m_TimeFront
        /\ \A x \in fresh : Timed(x) => /\ queue.m_TimeFront <= TimeOf[x]
                                        /\ queue.m_TimeBack <= TimeOf[x]
    BY DEF SpanInv
  <2> DEFINE n == Len(list)
  <2> HIDE DEF F, B, list, last, n
  <2>9. list # <<>> /\ Timed(last) =>
          /\ n \in DOMAIN queue.m_messages /\ last = queue.m_messages[n].message
          /\ F = queue.m_TimeFront /\ B = TimeOf[last]
          /\ last \in Message \ fresh
    BY <1>2, <2>5, <2>6, <2>7, <2>8 DEF n
  <2>10. ASSUME NEW k \in DOMAIN list, Timed(list[k].message)
         PROVE  /\ F # NoPts
                /\ B <= TimeOf[list[k].message] /\ TimeOf[list[k].message] <= F
    <3>1. k \in DOMAIN queue.m_messages /\ list[k] = queue.m_messages[k] /\ list # <<>>
      <4>1. list # <<>>
        <5>1. DOMAIN <<>> = {}
          OBVIOUS
        <5> QED
          BY <2>10, <5>1
      <4> QED
        BY <2>5, <4>1
    <3>2. CASE ~Timed(last)
      BY <2>6, <2>8, <2>10, <3>1, <3>2
    <3>3. CASE Timed(last)
      <4>1. k = n \/ k < n
        BY <2>7, <3>1 DEF n
      <4>2. CASE k = n
        <5>1. list[k].message = last /\ TimeOf[last] \in Nat
          BY <2>9, <3>1, <3>3, <4>2, TimedType
        <5> QED
          BY <2>8, <2>9, <2>10, <3>1, <3>3, <5>1
      <4>3. CASE k < n
        BY <1>9, <2>8, <2>9, <2>10, <3>1, <3>3, <4>3
      <4> QED
        BY <4>1, <4>2, <4>3
    <3> QED
      BY <3>2, <3>3
  <2>11. ASSUME item.priority = 0, Timed(item.message), list # <<>>, F # NoPts
         PROVE  TimeOf[item.message] <= F
    <3>1. ~urgent
      BY <2>2, <2>11 DEF Item
    <3>2. queue.m_messages # <<>> /\ item = Last(queue.m_messages)
      BY <2>2, <3>1
    <3>3. /\ Len(queue.m_messages) \in Nat \ {0}
          /\ DOMAIN queue.m_messages = 1 .. Len(queue.m_messages)
          /\ item = queue.m_messages[Len(queue.m_messages)]
      BY <1>1, <3>2, FrontLastProperties
    <3>4. Len(queue.m_messages) \in DOMAIN queue.m_messages
      BY <3>3
    <3>5. queue.m_TimeFront # NoPts /\ TimeOf[item.message] <= queue.m_TimeFront
      BY <2>8, <2>11, <3>3, <3>4
    <3>6. F = queue.m_TimeFront
      BY <2>6, <2>9, <2>11
    <3> QED
      BY <3>5, <3>6
  <2>12. ASSUME NEW x \in fresh, Timed(x) PROVE F <= TimeOf[x] /\ B <= TimeOf[x]
    <3>1. CASE list # <<>> /\ Timed(last)
      <4>1. TimeOf[last] <= TimeOf[x]
        BY <1>1, <2>9, <2>12, <3>1 DEF SpanInv, TimesFollow
      <4> QED
        BY <2>8, <2>9, <2>12, <3>1, <4>1
    <3>2. CASE ~(list # <<>> /\ Timed(last))
      BY <2>6, <2>8, <2>12, <3>2
    <3> QED
      BY <3>1, <3>2
  <2> QED
    BY <1>4, <2>1, <2>10, <2>11, <2>12 DEF SpanInv, F, B, list, Timed, IsPacket
\* A packet is put back at the end.
<1>11. CASE PutItemBack
  <2>1. PICK old \in held : /\ IsPacket(old.message) /\ old.priority = 0
                            /\ queue' = PutBack(queue, old.message, 0)
    BY <1>11 DEF PutItemBack
  <2>2. held' = {} /\ UNCHANGED <<fresh, sent>>
    BY <1>11 DEF PutItemBack
  <2>3. CASE ~queue.m_bInitialized
    <3>1. queue' = queue
      BY <2>1, <2>3 DEF PutBack, PutMessage
    <3> QED
      BY <1>4, <2>2, <3>1 DEF SpanInv, Timed, IsPacket
  <2>4. CASE queue.m_bInitialized
    <3>1. PICK m \in Message \ fresh : m = old.message
      BY <1>2, <2>1
    <3> DEFINE item == [message |-> m, priority |-> 0]
               none == queue.m_messages = <<>>
               list == Append(queue.m_messages, item)
               tf   == IF none THEN NoPts ELSE queue.m_TimeFront
               tb   == IF none THEN NoPts ELSE queue.m_TimeBack
               F    == queue'.m_TimeFront
               B    == queue'.m_TimeBack
    <3>2. queue' = PutMessage(queue, m, 0, FALSE) /\ IsPacket(m)
      BY <2>1, <3>1 DEF PutBack
    <3>3. queue'.m_messages = list
      BY <1>1, <2>4, <3>2, PutFields
    <3>4. B = IF TimeOf[m] # NoPts THEN TimeOf[m] ELSE tb
      <4>1. IsPacket(m) =>
              B = IF ~FALSE \/ tb = NoPts
                  THEN IF TimeOf[m] # NoPts THEN TimeOf[m] ELSE IF FALSE THEN tf ELSE tb
                  ELSE tb
        BY <1>1, <2>4, <3>2, PutFields
      <4> QED
        BY <3>2, <4>1
    <3>5. F = IF tf = NoPts THEN IF TimeOf[m] # NoPts THEN TimeOf[m] ELSE tb ELSE tf
      <4>1. IsPacket(m) =>
              F = IF FALSE \/ tf = NoPts
                  THEN IF TimeOf[m] # NoPts THEN TimeOf[m] ELSE IF FALSE THEN tf ELSE tb
                  ELSE tf
        BY <1>1, <2>4, <3>2, PutFields
      <4> QED
        BY <3>2, <4>1
    <3>6. item \in Item({0}) /\ item.message = m
      BY DEF Item
    <3>7. \A k \in DOMAIN list :
            \/ list[k].message = m
            \/ /\ ~none
               /\ \E i \in DOMAIN queue.m_messages : list[k] = queue.m_messages[i]
      <4> HIDE DEF item
      <4>1. /\ Len(queue.m_messages) \in Nat
            /\ DOMAIN queue.m_messages = 1 .. Len(queue.m_messages)
            /\ DOMAIN list = 1 .. (Len(queue.m_messages) + 1)
            /\ list[Len(queue.m_messages) + 1] = item
            /\ \A k \in 1 .. Len(queue.m_messages) : list[k] = queue.m_messages[k]
        BY <1>1
      <4>2. \A k \in 1 .. (Len(queue.m_messages) + 1) :
              k = Len(queue.m_messages) + 1 \/ k \in 1 .. Len(queue.m_messages)
        BY <4>1
      <4>3. none => DOMAIN queue.m_messages = {}
        OBVIOUS
      <4> HIDE DEF list
      <4> QED
        BY <3>6, <4>1, <4>2, <4>3
    <3> HIDE DEF list, item
    <3>8. tf \in Time /\ tb \in Time /\ (tf = NoPts <=> tb = NoPts)
          /\ (~none => tf = queue.m_TimeFront /\ tb = queue.m_TimeBack)
          /\ (none => tf = NoPts)
      BY <1>1 DEF TimesTogether, Time
    <3>9. \A x \in fresh : Timed(x) => tf <= TimeOf[x] /\ tb <= TimeOf[x]
      BY <1>1, <1>3, <3>8, TimedType DEF SpanInv
    <3>10. Timed(m) /\ ~none /\ tf # NoPts => TimeOf[m] <= tf
      BY <2>1, <3>1, <3>8 DEF SpanInv
    <3>11. \A i \in DOMAIN queue.m_messages :
             Timed(m) /\ Timed(queue.m_messages[i].message)
               => TimeOf[m] <= TimeOf[queue.m_messages[i].message]
      <4>1. SUFFICES ASSUME NEW i \in DOMAIN queue.m_messages, Timed(m),
                            Timed(queue.m_messages[i].message)
                     PROVE  TimeOf[m] <= TimeOf[queue.m_messages[i].message]
        OBVIOUS
      <4> DEFINE x == queue.m_messages[i].message
      <4>2. sent[x] > sent[m] /\ x \in Message /\ sent[x] \in Nat /\ sent[m] \in Nat
        BY <1>2, <2>1, <3>1 DEF OrderInv, TypeInv
      <4>3. Timed(x)
        BY <4>1
      <4> HIDE DEF x
      <4>4. sent[m] < sent[x]
        BY <4>2
      <4>5. TimeOf[m] <= TimeOf[x]
        BY <3>1, <4>1, <4>2, <4>3, <4>4 DEF SpanInv, TimesFollow
      <4> QED
        BY <4>5 DEF x
    <3> HIDE DEF none, tf, tb, F, B
    <3>12. CASE ~Timed(m)
      <4>1. F = tf /\ B = tb
        BY <3>2, <3>4, <3>5, <3>8, <3>12 DEF Timed
      <4>2. \A k \in DOMAIN list :
              Timed(list[k].message) =>
                /\ F # NoPts
                /\ B <= TimeOf[list[k].message] /\ TimeOf[list[k].message] <= F
        BY <3>7, <3>8, <3>12, <4>1 DEF SpanInv
      <4>3. \A x \in fresh : Timed(x) => F <= TimeOf[x] /\ B <= TimeOf[x]
        BY <3>9, <4>1
      <4> QED
        BY <1>4, <2>2, <3>3, <4>2, <4>3 DEF SpanInv, F, B, Timed, IsPacket
    <3>13. CASE Timed(m)
      <4>1. /\ B = TimeOf[m] /\ F = IF tf = NoPts THEN TimeOf[m] ELSE tf
            /\ TimeOf[m] \in Nat /\ TimeOf[m] # NoPts
        BY <3>4, <3>5, <3>13, TimedType
      <4>2. F # NoPts /\ TimeOf[m] <= F
        BY <3>8, <3>10, <3>13, <4>1
      <4>3. ASSUME NEW k \in DOMAIN list, Timed(list[k].message)
            PROVE  /\ F # NoPts
                   /\ B <= TimeOf[list[k].message] /\ TimeOf[list[k].message] <= F
        <5>1. CASE list[k].message = m
          BY <4>1, <4>2, <5>1
        <5>2. CASE list[k].message # m
          <6>1. PICK i \in DOMAIN queue.m_messages : ~none /\ list[k] = queue.m_messages[i]
            BY <3>7, <5>2
          <6>2. /\ tf # NoPts /\ TimeOf[queue.m_messages[i].message] <= tf
                /\ TimeOf[m] <= TimeOf[queue.m_messages[i].message]
            BY <3>8, <3>11, <3>13, <4>3, <6>1 DEF SpanInv
          <6> QED
            BY <4>1, <4>2, <6>1, <6>2
        <5> QED
          BY <5>1, <5>2
      <4>4. \A x \in fresh : Timed(x) => F <= TimeOf[x] /\ B <= TimeOf[x]
        <5>1. SUFFICES ASSUME NEW x \in fresh, Timed(x)
                       PROVE  F <= TimeOf[x] /\ B <= TimeOf[x]
          OBVIOUS
        <5>2. TimeOf[m] <= TimeOf[x]
          BY <1>1, <3>1, <3>13, <5>1 DEF SpanInv, TimesFollow
        <5>3. tf <= TimeOf[x]
          BY <3>9, <5>1
        <5> QED
          BY <4>1, <5>2, <5>3
      <4> QED
        BY <1>4, <2>2, <3>3, <4>3, <4>4 DEF SpanInv, F, B, Timed, IsPacket
    <3> QED
      BY <3>12, <3>13
  <2> QED
    BY <2>3, <2>4
<1> QED
  BY <1>5, <1>6, <1>7, <1>8, <1>10, <1>11, QuietSteps

-----------------------------------------------------------------------------
(* One queue: the theorems.                                                *)

IInv == TypeInv /\ NoLostWakeup /\ SizeInv /\ OrderInv /\ SpanInv

\* The invariant holds at the beginning.
LEMMA IInvInit == Init => IInv
<1> SUFFICES ASSUME Init PROVE IInv
  OBVIOUS
<1>1. TypeInv
  BY TypeInit
<1>2. NoLostWakeup
  BY DEF Init, NoLostWakeup
<1>3. /\ queue.m_messages = <<>> /\ queue.m_prioMessages = <<>> /\ queue.m_iDataSize = 0
      /\ queue.m_TimeFront = NoPts /\ queue.m_TimeBack = NoPts
      /\ fresh = Message /\ held = {}
  BY DEF Init, NewQueue
<1>4. <<>> \in Seq(Item({0})) /\ DOMAIN <<>> = {}
  OBVIOUS
<1>5. SizeInv
  BY <1>3, <1>4, NoSize DEF SizeInv
<1>6. OrderInv
  BY <1>3, <1>4 DEF OrderInv, SentInv, Ordered
<1>7. SpanInv
  <2>1. \A x \in Message : Timed(x) => NoPts <= TimeOf[x]
    BY TimedType DEF NoPts
  <2> QED
    BY <1>3, <1>4, <2>1 DEF SpanInv, TimesFollow
<1> QED
  BY <1>1, <1>2, <1>5, <1>6, <1>7 DEF IInv

\* Every step keeps the invariant.
LEMMA IInvStep == IInv /\ [Next]_vars => IInv'
BY TypeStep, WakeStep, SizeStep, OrderStep, SpanStep DEF IInv

\* The invariant of every reachable state.
LEMMA Invariance == Spec => []IInv
BY IInvInit, IInvStep, PTL DEF Spec

\* The level of the queue is computed from what the queue holds, for any messages,
\* sizes and times: no order of puts, put-backs, takes and flushes makes the size
\* or the span of times drift (DVDMessageQueue.cpp, Put, Get, Flush).
THEOREM LevelsAreExact == Spec => []LevelsExact
<1>1. IInv => LevelsExact
  <2> SUFFICES ASSUME IInv PROVE LevelsExact
    OBVIOUS
  <2>1. /\ queue \in Queue /\ queue.m_messages \in Seq(Item({0}))
        /\ queue.m_prioMessages \in Seq(Item(Priority \ {0}))
    BY DEF IInv, TypeInv, Queue
  <2>2. DataSizeExact /\ queue.m_iDataSize \in Nat
    BY <2>1, SizeIsFold DEF IInv, SizeInv, DataSizeExact
  <2>3. SpanCoversPackets
    BY DEF IInv, SpanInv, SpanCoversPackets
  <2>4. /\ \A i \in DOMAIN queue.m_messages : queue.m_messages[i] \in Item({0})
        /\ \A i \in DOMAIN queue.m_prioMessages :
             queue.m_prioMessages[i] \in Item(Priority \ {0})
    BY <2>1
  <2>5. TypeOK
    BY <2>2, <2>4 DEF IInv, TypeInv, TypeOK, Item
  <2> QED
    BY <2>2, <2>3, <2>5 DEF LevelsExact
<1> QED
  BY <1>1, Invariance, PTL

\* The getting thread never sleeps while there is a message for it or the queue is
\* aborted, unless its event is set: the event is reset before the section is left.
THEOREM NoWakeupIsLost == Spec => []NoLostWakeup
<1>1. IInv => NoLostWakeup
  BY DEF IInv
<1> QED
  BY <1>1, Invariance, PTL

\* Messages of one priority are delivered in the order they were put, and urgent
\* ones first, also when packets were put back or flushed in between.
THEOREM DeliveredInOrder == Spec => []DeliveryOrder
<1>1. IInv => DeliveryOrder
  BY DEF IInv, OrderInv, DeliveryOrder, InOrder, Ordered
<1> QED
  BY <1>1, Invariance, PTL

-----------------------------------------------------------------------------
(* A list by its messages and by which of them waits behind which.         *)

Msgs(list) == {list[i].message : i \in DOMAIN list}

\* The pairs of messages of which the first is got after the second.
Order(list) ==
  {e \in Msgs(list) \X Msgs(list) :
     \E i, k \in DOMAIN list :
       i < k /\ list[i].message = e[1] /\ list[k].message = e[2]}

\* What it means that a message waits behind another one.
LEMMA OrderMembers ==
  ASSUME NEW list, NEW a, NEW b
  PROVE  <<a, b>> \in Order(list) <=>
           \E i, k \in DOMAIN list :
             i < k /\ list[i].message = a /\ list[k].message = b
BY DEF Order, Msgs

\* A pair of the order of a list is a pair of its messages.
LEMMA OrderPairs ==
  ASSUME NEW list, NEW e \in Order(list)
  PROVE  e = <<e[1], e[2]>> /\ e[1] \in Msgs(list) /\ e[2] \in Msgs(list)
BY DEF Order

\* The empty list.
LEMMA EmptyMsgs ==
  ASSUME NEW S, NEW list \in Seq(S)
  PROVE  /\ Msgs(list) = {} <=> list = <<>>
         /\ Msgs(<<>>) = {} /\ Order(<<>>) = {}
<1>1. Msgs(<<>>) = {}
  BY DEF Msgs
<1>2. list # <<>> => 1 \in DOMAIN list
  OBVIOUS
<1>3. list # <<>> => Msgs(list) # {}
  BY <1>2 DEF Msgs
<1> QED
  BY <1>1, <1>3 DEF Order

\* An item in front of a list waits behind all others.
LEMMA ConsMsgs ==
  ASSUME NEW S, NEW list \in Seq(S), NEW item \in S
  PROVE  /\ Msgs(<<item>> \o list) = Msgs(list) \union {item.message}
         /\ Order(<<item>> \o list) \subseteq
              Order(list) \union ({item.message} \X Msgs(list))
<1> DEFINE r == <<item>> \o list
<1>1. /\ Len(list) \in Nat /\ DOMAIN list = 1 .. Len(list)
      /\ DOMAIN r = 1 .. (Len(list) + 1) /\ r[1] = item
      /\ \A i \in 2 .. (Len(list) + 1) : i - 1 \in DOMAIN list /\ r[i] = list[i - 1]
  BY ConsProperties
<1> HIDE DEF r
<1>2. \A i \in DOMAIN list : i + 1 \in DOMAIN r /\ r[i + 1] = list[i]
  <2>1. SUFFICES ASSUME NEW i \in DOMAIN list PROVE i + 1 \in DOMAIN r /\ r[i + 1] = list[i]
    OBVIOUS
  <2>2. i + 1 \in 2 .. (Len(list) + 1) /\ (i + 1) - 1 = i /\ i + 1 \in 1 .. (Len(list) + 1)
    BY <1>1
  <2> QED
    BY <1>1, <2>2
<1>3. Msgs(r) = Msgs(list) \union {item.message}
  <2>1. \A x \in Msgs(r) : x \in Msgs(list) \union {item.message}
    <3>1. SUFFICES ASSUME NEW i \in DOMAIN r
                   PROVE  r[i].message \in Msgs(list) \union {item.message}
      BY DEF Msgs
    <3>2. i = 1 \/ i \in 2 .. (Len(list) + 1)
      BY <1>1
    <3> QED
      BY <1>1, <3>2 DEF Msgs
  <2>2. item.message \in Msgs(r)
    <3>1. 1 \in DOMAIN r
      BY <1>1
    <3> QED
      BY <1>1, <3>1 DEF Msgs
  <2>3. \A x \in Msgs(list) : x \in Msgs(r)
    BY <1>2 DEF Msgs
  <2> QED
    BY <2>1, <2>2, <2>3
<1>4. Order(r) \subseteq Order(list) \union ({item.message} \X Msgs(list))
  <2>1. SUFFICES ASSUME NEW e \in Order(r)
                 PROVE  e \in Order(list) \union ({item.message} \X Msgs(list))
    OBVIOUS
  <2>2. PICK i \in DOMAIN r, k \in DOMAIN r :
          i < k /\ r[i].message = e[1] /\ r[k].message = e[2] /\ e = <<e[1], e[2]>>
    BY DEF Order
  <2>3. k \in 2 .. (Len(list) + 1) /\ (i = 1 \/ i \in 2 .. (Len(list) + 1))
    BY <1>1, <2>2
  <2>4. k - 1 \in DOMAIN list /\ r[k] = list[k - 1]
    BY <1>1, <2>3
  <2>5. CASE i = 1
    <3>1. e[1] = item.message /\ e[2] \in Msgs(list)
      BY <1>1, <2>2, <2>4, <2>5 DEF Msgs
    <3> QED
      BY <2>2, <3>1
  <2>6. CASE i \in 2 .. (Len(list) + 1)
    <3>1. i - 1 \in DOMAIN list /\ r[i] = list[i - 1] /\ i - 1 < k - 1
      BY <1>1, <2>2, <2>3, <2>6
    <3>2. <<e[1], e[2]>> \in Order(list)
      BY <2>2, <2>4, <3>1, OrderMembers
    <3> QED
      BY <2>2, <3>2
  <2> QED
    BY <2>3, <2>5, <2>6
<1> QED
  BY <1>3, <1>4 DEF r

\* All others wait behind an item at the end of a list.
LEMMA AppendMsgs ==
  ASSUME NEW S, NEW list \in Seq(S), NEW item \in S
  PROVE  /\ Msgs(Append(list, item)) = Msgs(list) \union {item.message}
         /\ Order(Append(list, item)) \subseteq
              Order(list) \union (Msgs(list) \X {item.message})
<1> DEFINE r == Append(list, item)
           n == Len(list)
<1>1. /\ n \in Nat /\ DOMAIN list = 1 .. n
      /\ DOMAIN r = 1 .. (n + 1) /\ r[n + 1] = item
      /\ \A i \in 1 .. n : r[i] = list[i]
  OBVIOUS
<1> HIDE DEF r, n
<1>2. Msgs(r) = Msgs(list) \union {item.message}
  <2>1. \A x \in Msgs(r) : x \in Msgs(list) \union {item.message}
    <3>1. SUFFICES ASSUME NEW i \in DOMAIN r
                   PROVE  r[i].message \in Msgs(list) \union {item.message}
      BY DEF Msgs
    <3>2. i = n + 1 \/ i \in 1 .. n
      BY <1>1
    <3> QED
      BY <1>1, <3>2 DEF Msgs
  <2>2. item.message \in Msgs(r)
    <3>1. n + 1 \in DOMAIN r
      BY <1>1
    <3> QED
      BY <1>1, <3>1 DEF Msgs
  <2>3. \A x \in Msgs(list) : x \in Msgs(r)
    <3>1. \A i \in DOMAIN list : i \in DOMAIN r /\ r[i] = list[i]
      BY <1>1
    <3> QED
      BY <3>1 DEF Msgs
  <2> QED
    BY <2>1, <2>2, <2>3
<1>3. Order(r) \subseteq Order(list) \union (Msgs(list) \X {item.message})
  <2>1. SUFFICES ASSUME NEW e \in Order(r)
                 PROVE  e \in Order(list) \union (Msgs(list) \X {item.message})
    OBVIOUS
  <2>2. PICK i \in DOMAIN r, k \in DOMAIN r :
          i < k /\ r[i].message = e[1] /\ r[k].message = e[2] /\ e = <<e[1], e[2]>>
    BY DEF Order
  <2>3. i \in DOMAIN list /\ r[i] = list[i] /\ (k = n + 1 \/ (k \in DOMAIN list /\ r[k] = list[k]))
    BY <1>1, <2>2
  <2>4. CASE k = n + 1
    <3>1. e[2] = item.message /\ e[1] \in Msgs(list)
      BY <1>1, <2>2, <2>3, <2>4 DEF Msgs
    <3> QED
      BY <2>2, <3>1
  <2>5. CASE k \in DOMAIN list /\ r[k] = list[k]
    <3>1. <<e[1], e[2]>> \in Order(list)
      BY <2>2, <2>3, <2>5, OrderMembers
    <3> QED
      BY <2>2, <3>1
  <2> QED
    BY <2>3, <2>4, <2>5
<1> QED
  BY <1>2, <1>3 DEF r

\* All that is left in a list waits behind the item at its end.
LEMMA FrontMsgs ==
  ASSUME NEW S, NEW list \in Seq(S), list # <<>>
  PROVE  /\ Msgs(list) = Msgs(Front(list)) \union {Last(list).message}
         /\ Order(Front(list)) \subseteq Order(list)
         /\ \A a \in Msgs(Front(list)) : <<a, Last(list).message>> \in Order(list)
<1> DEFINE r == Front(list)
           n == Len(list)
<1>1. /\ n \in Nat \ {0} /\ DOMAIN list = 1 .. n
      /\ DOMAIN r = 1 .. (n - 1) /\ Last(list) = list[n]
      /\ \A i \in 1 .. (n - 1) : r[i] = list[i]
  BY FrontLastProperties
<1> HIDE DEF r, n
<1>2. \A i \in DOMAIN r : i \in DOMAIN list /\ r[i] = list[i] /\ i < n
  BY <1>1
<1>3. n \in DOMAIN list
  BY <1>1
<1>4. Msgs(list) = Msgs(r) \union {Last(list).message}
  <2>1. \A i \in DOMAIN list : i = n \/ (i \in DOMAIN r /\ r[i] = list[i])
    BY <1>1
  <2>2. \A x \in Msgs(list) : x \in Msgs(r) \union {Last(list).message}
    BY <1>1, <2>1 DEF Msgs
  <2>3. \A x \in Msgs(r) : x \in Msgs(list)
    BY <1>2 DEF Msgs
  <2>4. Last(list).message \in Msgs(list)
    BY <1>1, <1>3 DEF Msgs
  <2> QED
    BY <2>2, <2>3, <2>4
<1>5. Order(r) \subseteq Order(list)
  <2>1. SUFFICES ASSUME NEW e \in Order(r) PROVE e \in Order(list)
    OBVIOUS
  <2>2. PICK i \in DOMAIN r, k \in DOMAIN r :
          i < k /\ r[i].message = e[1] /\ r[k].message = e[2] /\ e = <<e[1], e[2]>>
    BY DEF Order
  <2>3. <<e[1], e[2]>> \in Order(list)
    BY <1>2, <2>2, OrderMembers
  <2> QED
    BY <2>2, <2>3
<1>6. \A a \in Msgs(r) : <<a, Last(list).message>> \in Order(list)
  <2>1. SUFFICES ASSUME NEW i \in DOMAIN r
                 PROVE  <<r[i].message, Last(list).message>> \in Order(list)
    BY DEF Msgs
  <2> QED
    BY <1>1, <1>2, <1>3, OrderMembers
<1> QED
  BY <1>4, <1>5, <1>6 DEF r

\* What a flush leaves of a list.
LEMMA WithoutMsgs ==
  ASSUME NEW S, NEW list \in Seq(S), NEW type
  PROVE  /\ Msgs(WithoutType(list, type)) = {m \in Msgs(list) : TypeOf[m] # type}
         /\ Order(WithoutType(list, type)) \subseteq Order(list)
<1> DEFINE r == WithoutType(list, type)
           I == KeptPositions(list, type)
<1>1. /\ \A k \in DOMAIN r : Nth(I, k) \in DOMAIN list /\ TypeOf[list[Nth(I, k)].message] # type
                             /\ r[k] = list[Nth(I, k)]
      /\ \A a, b \in DOMAIN r : a < b => Nth(I, a) < Nth(I, b)
      /\ \A i \in DOMAIN list : TypeOf[list[i].message] # type =>
           \E k \in DOMAIN r : Nth(I, k) = i
  <2>1. I = {i \in DOMAIN list : TypeOf[list[i].message] # type}
    BY DEF KeptPositions
  <2>2. /\ \A k \in DOMAIN r : Nth(I, k) \in I /\ r[k] = list[Nth(I, k)]
        /\ \A a, b \in DOMAIN r : a < b => Nth(I, a) < Nth(I, b)
        /\ \A i \in I : \E k \in DOMAIN r : Nth(I, k) = i
    BY WithoutTypeProperties
  <2> HIDE DEF r, I
  <2> QED
    BY <2>1, <2>2
<1> HIDE DEF r, I
<1>2. \A x \in Msgs(r) : x \in Msgs(list) /\ TypeOf[x] # type
  BY <1>1 DEF Msgs
<1>3. \A x \in Msgs(list) : TypeOf[x] # type => x \in Msgs(r)
  BY <1>1 DEF Msgs
<1>4. Order(r) \subseteq Order(list)
  <2>1. SUFFICES ASSUME NEW e \in Order(r) PROVE e \in Order(list)
    OBVIOUS
  <2>2. PICK i \in DOMAIN r, k \in DOMAIN r :
          i < k /\ r[i].message = e[1] /\ r[k].message = e[2] /\ e = <<e[1], e[2]>>
    BY DEF Order
  <2>3. <<e[1], e[2]>> \in Order(list)
    BY <1>1, <2>2, OrderMembers
  <2> QED
    BY <2>2, <2>3
<1> QED
  BY <1>2, <1>3, <1>4 DEF r

\* An item that is inserted leaves the order of the others.
LEMMA InsertMsgs ==
  ASSUME NEW S, NEW list \in Seq(S), NEW pos \in 1 .. (Len(list) + 1), NEW item \in S
  PROVE  /\ Msgs(InsertAt(list, pos, item)) = Msgs(list) \union {item.message}
         /\ \A a, b : <<a, b>> \in Order(InsertAt(list, pos, item)) =>
              a = item.message \/ b = item.message \/ <<a, b>> \in Order(list)
<1> DEFINE r == InsertAt(list, pos, item)
           n == Len(list)
           old(k) == IF k < pos THEN k ELSE k - 1
<1>1. /\ n \in Nat /\ DOMAIN list = 1 .. n /\ pos \in 1 .. (n + 1)
      /\ DOMAIN r = 1 .. (n + 1) /\ r[pos] = item
      /\ \A k \in 1 .. (pos - 1) : k \in DOMAIN list /\ r[k] = list[k]
      /\ \A k \in (pos + 1) .. (n + 1) : k - 1 \in DOMAIN list /\ r[k] = list[k - 1]
  <2>1. n \in Nat /\ DOMAIN list = 1 .. n
    OBVIOUS
  <2>2. DOMAIN r = 1 .. (Len(list) + 1) /\ r[pos] = item
    BY InsertAtProperties
  <2>3. \A k \in 1 .. (pos - 1) : k \in DOMAIN list /\ r[k] = list[k]
    BY InsertAtProperties
  <2>4. \A k \in (pos + 1) .. (Len(list) + 1) : k - 1 \in DOMAIN list /\ r[k] = list[k - 1]
    BY InsertAtProperties
  <2> HIDE DEF r
  <2> QED
    BY <2>1, <2>2, <2>3, <2>4
<1> HIDE DEF r, n
<1>2. \A k \in DOMAIN r : k # pos => old(k) \in DOMAIN list /\ r[k] = list[old(k)]
  <2>1. SUFFICES ASSUME NEW k \in DOMAIN r, k # pos
                 PROVE  old(k) \in DOMAIN list /\ r[k] = list[old(k)]
    OBVIOUS
  <2>2. CASE k < pos
    <3>1. k \in 1 .. (pos - 1) /\ old(k) = k
      BY <1>1, <2>2
    <3> QED
      BY <1>1, <3>1
  <2>3. CASE ~(k < pos)
    <3>1. k \in (pos + 1) .. (n + 1) /\ old(k) = k - 1
      BY <1>1, <2>1, <2>3
    <3> QED
      BY <1>1, <3>1
  <2> QED
    BY <2>2, <2>3
<1>3. \A i, k \in DOMAIN r : i # pos /\ k # pos /\ i < k => old(i) < old(k)
  BY <1>1
<1>4. \A i \in DOMAIN list : \E k \in DOMAIN r : r[k] = list[i]
  <2>1. SUFFICES ASSUME NEW i \in DOMAIN list PROVE \E k \in DOMAIN r : r[k] = list[i]
    OBVIOUS
  <2>2. CASE i < pos
    <3>1. i \in 1 .. (pos - 1) /\ i \in 1 .. (n + 1)
      BY <1>1, <2>2
    <3> QED
      BY <1>1, <3>1
  <2>3. CASE ~(i < pos)
    <3>1. i + 1 \in (pos + 1) .. (n + 1) /\ i + 1 \in 1 .. (n + 1) /\ (i + 1) - 1 = i
      BY <1>1, <2>3
    <3> QED
      BY <1>1, <3>1
  <2> QED
    BY <2>2, <2>3
<1> HIDE DEF old
<1>5. Msgs(r) = Msgs(list) \union {item.message}
  <2>1. \A x \in Msgs(r) : x \in Msgs(list) \union {item.message}
    BY <1>1, <1>2 DEF Msgs
  <2>2. \A x \in Msgs(list) : x \in Msgs(r)
    BY <1>4 DEF Msgs
  <2>3. item.message \in Msgs(r)
    <3>1. pos \in DOMAIN r
      BY <1>1
    <3> QED
      BY <1>1, <3>1 DEF Msgs
  <2> QED
    BY <2>1, <2>2, <2>3
<1>6. ASSUME NEW a, NEW b, <<a, b>> \in Order(r), a # item.message, b # item.message
      PROVE  <<a, b>> \in Order(list)
  <2>1. PICK i \in DOMAIN r, k \in DOMAIN r :
          i < k /\ r[i].message = a /\ r[k].message = b
    BY <1>6, OrderMembers
  <2>2. i # pos /\ k # pos
    BY <1>1, <1>6, <2>1
  <2> QED
    BY <1>2, <1>3, <2>1, <2>2, OrderMembers
<1> QED
  BY <1>5, <1>6 DEF r

-----------------------------------------------------------------------------
(* The queues: typed, their size exact, and empty unless initialized.      *)

Sound(q) ==
  /\ q \in Queue /\ TimesTogether(q) /\ HasSize(q.m_messages, q.m_iDataSize)
  /\ ~q.m_bInitialized => q.m_messages = <<>> /\ q.m_prioMessages = <<>>

\* What a message put with a priority does: it waits for the messages of its
\* priority, and with priority 1 for all urgent messages.
LEMMA PutUrgent ==
  ASSUME NEW q, Sound(q), q.m_bInitialized, NEW m \in Message, NEW p \in {1, 10}
  PROVE  LET r == Put(q, m, p)
         IN /\ Sound(r) /\ SameFlags(r, q) /\ r.m_messages = q.m_messages
            /\ Msgs(r.m_prioMessages) = Msgs(q.m_prioMessages) \union {m}
            /\ \A a, b : <<a, b>> \in Order(r.m_prioMessages) =>
                 a = m \/ b = m \/ <<a, b>> \in Order(q.m_prioMessages)
            /\ p = 1 => Order(r.m_prioMessages) \subseteq
                          Order(q.m_prioMessages) \union ({m} \X Msgs(q.m_prioMessages))
<1> DEFINE item == [message |-> m, priority |-> p]
           list == q.m_prioMessages
           longer == PrioInsert(list, item, TRUE)
           r == Put(q, m, p)
<1>1. /\ p \in Priority \ {0} /\ p \in Nat
      /\ item \in Item({1, 10}) /\ item.message = m /\ item.priority = p
      /\ Priority \ {0} = {1, 10} /\ {1, 10} \subseteq Priority
  BY DEF Item, Priority
<1>2. q \in Queue /\ list \in Seq(Item({1, 10})) /\ Len(list) \in Nat
      /\ DOMAIN list = 1 .. Len(list)
  <2>1. q \in Queue
    BY DEF Sound
  <2>2. list \in Seq(Item(Priority \ {0}))
    BY <2>1 DEF Queue
  <2> HIDE DEF list
  <2>3. list \in Seq(Item({1, 10}))
    BY <1>1, <2>2
  <2> QED
    BY <2>1, <2>3
<1>3. /\ r \in Queue /\ SameFlags(r, q) /\ r.m_messages = q.m_messages
      /\ r.m_prioMessages = longer
      /\ r.m_iDataSize = q.m_iDataSize
      /\ r.m_TimeFront = q.m_TimeFront /\ r.m_TimeBack = q.m_TimeBack
  <2>1. m \in Message /\ p \in Priority \ {0} /\ q \in Queue /\ q.m_bInitialized
    BY <1>1, <1>2
  <2> QED
    BY <2>1, PutPriorityFields, Zenon
<1> HIDE DEF r
<1>4. Sound(r)
  BY <1>3 DEF Sound, TimesTogether, SameFlags
<1>5. list \in Seq(Item(Priority)) /\ item \in Item(Priority)
  <2>1. Item({1, 10}) \subseteq Item(Priority)
    BY <1>1 DEF Item
  <2> HIDE DEF list, item
  <2> QED
    BY <1>1, <1>2, <2>1, SeqMonotone
<1> HIDE DEF item, list
<1>6. PICK pos \in 1 .. (Len(list) + 1) :
        /\ longer = InsertAt(list, pos, item)
        /\ \A k \in 1 .. (pos - 1) : list[k].priority < p
  BY <1>1, <1>5, PrioInsertPlace
<1> HIDE DEF longer
<1>7. /\ Msgs(longer) = Msgs(list) \union {m}
      /\ \A a, b : <<a, b>> \in Order(longer) =>
           a = m \/ b = m \/ <<a, b>> \in Order(list)
  BY <1>1, <1>2, <1>6, InsertMsgs
<1>8. ASSUME p = 1
      PROVE  Order(longer) \subseteq Order(list) \union ({m} \X Msgs(list))
  <2>1. pos = 1
    <3>1. SUFFICES ASSUME pos # 1 PROVE FALSE
      OBVIOUS
    <3>2. 1 \in 1 .. (pos - 1) /\ 1 \in 1 .. Len(list)
      BY <1>2, <1>6, <3>1
    <3>3. list[1].priority < 1
      BY <1>6, <1>8, <3>2
    <3>4. list[1].priority \in {1, 10}
      <4>1. list[1] \in Item({1, 10})
        BY <1>2, <3>2
      <4> QED
        BY <4>1 DEF Item
    <3> QED
      BY <3>3, <3>4
  <2>2. InsertAt(list, 1, item) = <<item>> \o list
    <3> DEFINE a == InsertAt(list, 1, item)
               b == <<item>> \o list
    <3>1. 1 \in 1 .. (Len(list) + 1)
      BY <1>2
    <3>2. /\ a \in Seq(Item({1, 10})) /\ DOMAIN a = 1 .. (Len(list) + 1) /\ a[1] = item
          /\ \A k \in (1 + 1) .. (Len(list) + 1) : a[k] = list[k - 1]
      BY <1>1, <1>2, <3>1, InsertAtProperties
    <3>3. /\ b \in Seq(Item({1, 10})) /\ DOMAIN b = 1 .. (Len(list) + 1) /\ b[1] = item
          /\ \A k \in 2 .. (Len(list) + 1) : b[k] = list[k - 1]
      BY <1>1, <1>2, ConsProperties
    <3> HIDE DEF a, b
    <3>4. \A k \in 1 .. (Len(list) + 1) : a[k] = b[k]
      BY <1>2, <3>2, <3>3
    <3>5. a = b
      BY <3>2, <3>3, <3>4
    <3> QED
      BY <3>5 DEF a, b
  <2>3. longer = <<item>> \o list
    BY <1>6, <2>1, <2>2
  <2> QED
    BY <1>1, <1>2, <2>3, ConsMsgs
<1> QED
  BY <1>3, <1>4, <1>7, <1>8 DEF r, list

\* A queue that is not initialized takes nothing.
LEMMA PutRefused ==
  ASSUME NEW q, ~q.m_bInitialized, NEW m, NEW p
  PROVE  Put(q, m, p) = q /\ PutBack(q, m, p) = q
BY DEF Put, PutBack, PutMessage

\* What a message of priority 0 does that is put, or put back.
LEMMA PutPlain ==
  ASSUME NEW q, Sound(q), q.m_bInitialized, NEW m \in Message, NEW front \in BOOLEAN
  PROVE  LET r == PutMessage(q, m, 0, front)
         IN /\ Sound(r) /\ SameFlags(r, q) /\ r.m_prioMessages = q.m_prioMessages
            /\ Msgs(r.m_messages) = Msgs(q.m_messages) \union {m}
            /\ Order(r.m_messages) \subseteq
                 Order(q.m_messages) \union
                   IF front THEN {m} \X Msgs(q.m_messages) ELSE Msgs(q.m_messages) \X {m}
<1> DEFINE item == [message |-> m, priority |-> 0]
           list == q.m_messages
           tf   == IF list = <<>> THEN NoPts ELSE q.m_TimeFront
           tb   == IF list = <<>> THEN NoPts ELSE q.m_TimeBack
           time == IF TimeOf[m] # NoPts THEN TimeOf[m] ELSE IF front THEN tf ELSE tb
           r == PutMessage(q, m, 0, front)
<1>1. item \in Item({0}) /\ item.message = m
  BY DEF Item
<1>2. q \in Queue /\ list \in Seq(Item({0})) /\ HasSize(list, q.m_iDataSize)
      /\ q.m_iDataSize \in Int
  BY DEF Queue, Sound
<1>3. /\ r \in Queue /\ SameFlags(r, q)
      /\ r.m_prioMessages = q.m_prioMessages
      /\ r.m_messages = IF front THEN <<item>> \o list ELSE Append(list, item)
      /\ r.m_iDataSize = (IF list = <<>> THEN 0 ELSE q.m_iDataSize) + SizeOf(item)
  BY <1>2, PutFields
<1>4. ~IsPacket(m) => r.m_TimeFront = tf /\ r.m_TimeBack = tb
  BY <1>2, PutFields
<1>5. IsPacket(m) => r.m_TimeFront = IF front \/ tf = NoPts THEN time ELSE tf
  BY <1>2, PutFields
<1>6. IsPacket(m) => r.m_TimeBack = IF ~front \/ tb = NoPts THEN time ELSE tb
  BY <1>2, PutFields
<1>7. tf = NoPts <=> tb = NoPts
  BY DEF Sound, TimesTogether
<1> HIDE DEF r, tf, tb
<1>8. TimesTogether(r)
  BY <1>4, <1>5, <1>6, <1>7 DEF TimesTogether
<1> HIDE DEF item, time, list
<1>9. HasSize(r.m_messages, r.m_iDataSize)
  <2>1. r.m_iDataSize = q.m_iDataSize + SizeOf(item)
    BY <1>2, <1>3, EmptySize
  <2>2. /\ HasSize(<<item>> \o list, q.m_iDataSize + SizeOf(item))
        /\ HasSize(Append(list, item), q.m_iDataSize + SizeOf(item))
    BY <1>1, <1>2, ConsSize, AppendSize
  <2> QED
    BY <1>3, <2>1, <2>2
<1>10. Sound(r)
  BY <1>3, <1>8, <1>9 DEF Sound, SameFlags
<1>11. CASE front
  <2>1. r.m_messages = <<item>> \o list
    BY <1>3, <1>11
  <2>2. /\ Msgs(r.m_messages) = Msgs(list) \union {m}
        /\ Order(r.m_messages) \subseteq Order(list) \union ({m} \X Msgs(list))
    BY <1>1, <1>2, <2>1, ConsMsgs
  <2> QED
    BY <1>3, <1>10, <1>11, <2>2 DEF r, list
<1>12. CASE ~front
  <2>1. r.m_messages = Append(list, item)
    BY <1>3, <1>12
  <2>2. /\ Msgs(r.m_messages) = Msgs(list) \union {m}
        /\ Order(r.m_messages) \subseteq Order(list) \union (Msgs(list) \X {m})
    BY <1>1, <1>2, <2>1, AppendMsgs
  <2> QED
    BY <1>3, <1>10, <1>12, <2>2 DEF r, list
<1> QED
  BY <1>11, <1>12

\* What is taken was waited for by all that stays in its list; an ordinary message
\* is taken only when no urgent one is queued.
LEMMA TakenSound ==
  ASSUME NEW q, Sound(q), NEW p \in Minimum, HasMessage(q, p)
  PROVE  LET r == Taken(q, p)
             x == GetItem(q, p).message
         IN /\ Sound(r) /\ SameFlags(r, q) /\ q.m_bInitialized /\ x \in Message
            /\ \/ /\ r.m_messages = q.m_messages
                  /\ Msgs(q.m_prioMessages) = Msgs(r.m_prioMessages) \union {x}
                  /\ Order(r.m_prioMessages) \subseteq Order(q.m_prioMessages)
                  /\ \A a \in Msgs(r.m_prioMessages) : <<a, x>> \in Order(q.m_prioMessages)
               \/ /\ r.m_prioMessages = q.m_prioMessages /\ Msgs(q.m_prioMessages) = {}
                  /\ Msgs(q.m_messages) = Msgs(r.m_messages) \union {x}
                  /\ Order(r.m_messages) \subseteq Order(q.m_messages)
                  /\ \A a \in Msgs(r.m_messages) : <<a, x>> \in Order(q.m_messages)
<1> DEFINE r == Taken(q, p)
           item == GetItem(q, p)
           urgent == q.m_prioMessages # <<>>
           last == Last(r.m_messages).message
<1>1. /\ q \in Queue /\ TimesTogether(q) /\ HasSize(q.m_messages, q.m_iDataSize)
      /\ q.m_messages \in Seq(Item({0})) /\ q.m_prioMessages \in Seq(Item(Priority \ {0}))
  BY DEF Sound, Queue
<1>2. q.m_bInitialized
  BY <1>1, HasMessageMeaning DEF Sound
<1>3. r \in Queue /\ SameFlags(r, q)
  BY <1>1, TakenFields
<1>4. urgent => /\ item = Last(q.m_prioMessages) /\ item \in Item(Priority \ {0})
                /\ r.m_prioMessages = Front(q.m_prioMessages)
                /\ r.m_messages = q.m_messages /\ r.m_iDataSize = q.m_iDataSize
  BY <1>1, TakenFields
<1>5. ~urgent => /\ q.m_messages # <<>>
                 /\ item = Last(q.m_messages) /\ item \in Item({0})
                 /\ r.m_prioMessages = q.m_prioMessages
                 /\ r.m_messages = Front(q.m_messages)
                 /\ r.m_iDataSize = q.m_iDataSize - SizeOf(item)
  BY <1>1, TakenFields
<1>6. IF r.m_messages # <<>> /\ Timed(last)
      THEN /\ r.m_TimeBack = TimeOf[last]
           /\ r.m_TimeFront = IF q.m_TimeFront = NoPts THEN TimeOf[last]
                              ELSE q.m_TimeFront
      ELSE r.m_TimeBack = q.m_TimeBack /\ r.m_TimeFront = q.m_TimeFront
  BY <1>1, TakenFields
<1> HIDE DEF r, item, last
<1>7. TimesTogether(r)
  BY <1>1, <1>6 DEF TimesTogether, Timed
<1>8. item.message \in Message
  BY <1>4, <1>5 DEF Item
<1>9. HasSize(r.m_messages, r.m_iDataSize)
  <2>1. CASE urgent
    BY <1>1, <1>4, <2>1
  <2>2. CASE ~urgent
    <3>1. HasSize(Front(q.m_messages), q.m_iDataSize - SizeOf(Last(q.m_messages)))
      BY <1>1, <1>5, <2>2, FrontSize
    <3> QED
      BY <1>5, <2>2, <3>1
  <2> QED
    BY <2>1, <2>2
<1>10. Sound(r)
  BY <1>2, <1>3, <1>7, <1>9 DEF Sound, SameFlags
<1>11. CASE urgent
  <2>1. /\ Msgs(q.m_prioMessages) = Msgs(r.m_prioMessages) \union {item.message}
        /\ Order(r.m_prioMessages) \subseteq Order(q.m_prioMessages)
        /\ \A a \in Msgs(r.m_prioMessages) : <<a, item.message>> \in Order(q.m_prioMessages)
    BY <1>1, <1>4, <1>11, FrontMsgs
  <2> QED
    BY <1>2, <1>3, <1>4, <1>8, <1>10, <1>11, <2>1 DEF r, item
<1>12. CASE ~urgent
  <2>1. /\ Msgs(q.m_messages) = Msgs(r.m_messages) \union {item.message}
        /\ Order(r.m_messages) \subseteq Order(q.m_messages)
        /\ \A a \in Msgs(r.m_messages) : <<a, item.message>> \in Order(q.m_messages)
    BY <1>1, <1>5, <1>12, FrontMsgs
  <2>2. Msgs(q.m_prioMessages) = {}
    BY <1>1, <1>12, EmptyMsgs
  <2> QED
    BY <1>2, <1>3, <1>5, <1>8, <1>10, <1>12, <2>1, <2>2 DEF r, item
<1> QED
  BY <1>11, <1>12

\* The flush of the packets.
LEMMA FlushSound ==
  ASSUME NEW q, Sound(q)
  PROVE  LET r == FlushType(q, "packet")
         IN /\ Sound(r) /\ SameFlags(r, q)
            /\ Msgs(r.m_messages) = {m \in Msgs(q.m_messages) : ~IsPacket(m)}
            /\ Order(r.m_messages) \subseteq Order(q.m_messages)
            /\ Msgs(r.m_prioMessages) = {m \in Msgs(q.m_prioMessages) : ~IsPacket(m)}
            /\ Order(r.m_prioMessages) \subseteq Order(q.m_prioMessages)
<1> DEFINE r == FlushType(q, "packet")
           a == WithoutType(q.m_messages, "packet")
           b == WithoutType(q.m_prioMessages, "packet")
<1>1. /\ q \in Queue
      /\ q.m_messages \in Seq(Item({0})) /\ q.m_prioMessages \in Seq(Item(Priority \ {0}))
  BY DEF Sound, Queue
<1>2. /\ r \in Queue /\ SameFlags(r, q)
      /\ r.m_messages = a /\ r.m_prioMessages = b
      /\ r.m_iDataSize = 0 /\ r.m_TimeFront = NoPts /\ r.m_TimeBack = NoPts
  BY <1>1, FlushFields
<1>3. /\ Msgs(a) = {m \in Msgs(q.m_messages) : ~IsPacket(m)}
      /\ Order(a) \subseteq Order(q.m_messages)
  BY <1>1, WithoutMsgs DEF IsPacket
<1>4. /\ Msgs(b) = {m \in Msgs(q.m_prioMessages) : ~IsPacket(m)}
      /\ Order(b) \subseteq Order(q.m_prioMessages)
  BY <1>1, WithoutMsgs DEF IsPacket
<1>5. a \in Seq(Item({0})) /\ b \in Seq(Item(Priority \ {0}))
  BY <1>1, WithoutTypeProperties
<1> HIDE DEF r, a, b
<1>6. HasSize(a, 0)
  <2>1. \A i \in DOMAIN a : a[i].message \in Msgs(a)
    BY DEF Msgs
  <2>2. \A i \in DOMAIN a : ~IsPacket(a[i].message)
    BY <1>3, <2>1
  <2> QED
    BY <1>5, <2>2, NoSize
<1>7. ~q.m_bInitialized => a = <<>> /\ b = <<>>
  <2>1. SUFFICES ASSUME ~q.m_bInitialized PROVE Msgs(a) = {} /\ Msgs(b) = {}
    BY <1>5, EmptyMsgs
  <2>2. Msgs(q.m_messages) = {} /\ Msgs(q.m_prioMessages) = {}
    BY <1>1, <2>1, EmptyMsgs DEF Sound
  <2> QED
    BY <1>3, <1>4, <2>2
<1>8. Sound(r)
  BY <1>2, <1>6, <1>7 DEF Sound, TimesTogether, SameFlags
<1> QED
  BY <1>2, <1>3, <1>4, <1>8 DEF r

\* The operations that leave the lists, and the two that need them empty or empty
\* them.
LEMMA FlagSound ==
  ASSUME NEW q, Sound(q), NEW b \in BOOLEAN
  PROVE  /\ Sound(AbortQueue(q)) /\ SameData(AbortQueue(q), q)
         /\ AbortQueue(q).m_bInitialized = q.m_bInitialized
         /\ Sound(Unset(q)) /\ SameData(Unset(q), q)
         /\ Unset(q).m_bInitialized = q.m_bInitialized
         /\ Sound([q EXCEPT !.m_drain = b]) /\ SameData([q EXCEPT !.m_drain = b], q)
         /\ [q EXCEPT !.m_drain = b].m_bInitialized = q.m_bInitialized
         /\ ~q.m_bInitialized =>
              /\ Sound(InitQueue(q)) /\ InitQueue(q).m_bInitialized
              /\ InitQueue(q).m_messages = q.m_messages
              /\ InitQueue(q).m_prioMessages = q.m_prioMessages
         /\ Sound(EndQueue(q)) /\ ~EndQueue(q).m_bInitialized
         /\ EndQueue(q).m_messages = <<>> /\ EndQueue(q).m_prioMessages = <<>>
<1>1. q \in Queue /\ HasSize(q.m_messages, q.m_iDataSize) /\ TimesTogether(q)
  BY DEF Sound
<1>2. \A r \in Queue : SameData(r, q) /\ r.m_bInitialized = q.m_bInitialized => Sound(r)
  BY DEF Sound, SameData, TimesTogether
<1>3. /\ Sound(AbortQueue(q)) /\ SameData(AbortQueue(q), q)
      /\ AbortQueue(q).m_bInitialized = q.m_bInitialized
  BY <1>1, <1>2, FlagFields
<1>4. /\ Sound(Unset(q)) /\ SameData(Unset(q), q)
      /\ Unset(q).m_bInitialized = q.m_bInitialized
  BY <1>1, <1>2, FlagFields DEF SameFlags
<1>5. /\ Sound([q EXCEPT !.m_drain = b]) /\ SameData([q EXCEPT !.m_drain = b], q)
      /\ [q EXCEPT !.m_drain = b].m_bInitialized = q.m_bInitialized
  <2> DEFINE r == [q EXCEPT !.m_drain = b]
  <2>1. r \in Queue /\ SameData(r, q) /\ r.m_bInitialized = q.m_bInitialized
    BY <1>1 DEF Queue, SameData
  <2> HIDE DEF r
  <2>2. Sound(r)
    BY <1>2, <2>1
  <2> QED
    BY <2>1, <2>2 DEF r
<1>6. HasSize(<<>>, 0)
  <2>1. <<>> \in Seq(Item({0})) /\ DOMAIN <<>> = {}
    OBVIOUS
  <2> QED
    BY <2>1, NoSize
<1>7. /\ Sound(EndQueue(q)) /\ ~EndQueue(q).m_bInitialized
      /\ EndQueue(q).m_messages = <<>> /\ EndQueue(q).m_prioMessages = <<>>
  BY <1>1, <1>6, InitEndFields DEF Sound, TimesTogether
<1>8. ~q.m_bInitialized =>
        /\ Sound(InitQueue(q)) /\ InitQueue(q).m_bInitialized
        /\ InitQueue(q).m_messages = q.m_messages
        /\ InitQueue(q).m_prioMessages = q.m_prioMessages
  BY <1>1, <1>6, InitEndFields DEF Sound, TimesTogether
<1> QED
  BY <1>3, <1>4, <1>5, <1>7, <1>8

-----------------------------------------------------------------------------
(* The packets that are sent again.                                        *)

\* What sending messages of P again with priority 10 makes of a queue.
Resent(r, q, P) ==
  /\ Sound(r) /\ SameFlags(r, q) /\ r.m_messages = q.m_messages
  /\ Msgs(q.m_prioMessages) \subseteq Msgs(r.m_prioMessages)
  /\ Msgs(r.m_prioMessages) \subseteq Msgs(q.m_prioMessages) \union P
  /\ \A a, b : <<a, b>> \in Order(r.m_prioMessages) =>
       a \in P \/ b \in P \/ <<a, b>> \in Order(q.m_prioMessages)

\* One more is sent.
LEMMA OneResent ==
  ASSUME NEW q, NEW P \in SUBSET Message, NEW r, Resent(r, q, P), NEW m \in P
  PROVE  Resent(Put(r, m, 10), q, P)
<1>1. Sound(r) /\ m \in Message /\ 10 \in {1, 10}
  BY DEF Resent
<1>2. CASE ~r.m_bInitialized
  BY <1>2, PutRefused
<1>3. CASE r.m_bInitialized
  <2> DEFINE n == Put(r, m, 10)
  <2>1. Sound(n) /\ SameFlags(n, r) /\ n.m_messages = r.m_messages
    BY <1>1, <1>3, PutUrgent, Zenon
  <2>2. Msgs(n.m_prioMessages) = Msgs(r.m_prioMessages) \union {m}
    BY <1>1, <1>3, PutUrgent, Zenon
  <2>3. \A a, b : <<a, b>> \in Order(n.m_prioMessages) =>
          a = m \/ b = m \/ <<a, b>> \in Order(r.m_prioMessages)
    BY <1>1, <1>3, PutUrgent, Zenon
  <2> HIDE DEF n
  <2>4. Resent(n, q, P)
    BY <2>1, <2>2, <2>3 DEF Resent, SameFlags
  <2> QED
    BY <2>4 DEF n
<1> QED
  BY <1>2, <1>3

\* All are sent, in the order of the list.
LEMMA AllResent ==
  ASSUME NEW q, Sound(q), NEW P \in SUBSET Message, NEW list \in Seq(P)
  PROVE  Resent(PutPackets(q, list), q, P)
<1> DEFINE L == Len(list)
           V == {r \in Queue : Resent(r, q, P)}
           Solves(g) == g = [s \in SUBSET (1 .. L) |->
                               IF s = {} THEN q
                               ELSE Put(g[s \ {Max(s)}], list[Max(s)], 10)]
<1>1. L \in Nat /\ DOMAIN list = 1 .. L /\ \A i \in 1 .. L : list[i] \in P
  OBVIOUS
<1>2. PutPackets(q, list) = (CHOOSE g : Solves(g))[1 .. L]
  <2>1. PutPackets(q, list) =
          (CHOOSE g : g = [s \in SUBSET DOMAIN list |->
             IF s = {} THEN q
             ELSE Put(g[s \ {Max(s)}], list[Max(s)], 10)])[DOMAIN list]
    BY Zenon DEF PutPackets, FoldLeft, MapThenFoldSet
  <2> QED
    BY <1>1, <2>1
<1>3. q \in V
  BY DEF Resent, SameFlags, Sound
<1>4. \A r \in V, m \in P : Put(r, m, 10) \in V
  BY OneResent DEF Resent, Sound
<1> HIDE DEF V
<1>5. \E g : Solves(g)
  <2> DEFINE W == [e \in V \X (1 .. L) |-> Put(e[1], list[e[2]], 10)]
  <2>1. \A x \in V, i \in 1 .. L : W[<<x, i>>] = Put(x, list[i], 10)
    OBVIOUS
  <2> HIDE DEF W, L
  <2>2. \A x \in V, i \in 1 .. L : W[<<x, i>>] \in V
    BY <1>1, <1>4, <2>1
  <2>3. PICK g \in [SUBSET (1 .. L) -> V] : FoldSolves(g, L, q, W)
    BY <1>1, <1>3, <2>2, FoldExists
  <2>4. \A s \in SUBSET (1 .. L) : s # {} =>
          W[<<g[s \ {Max(s)}], Max(s)>>] = Put(g[s \ {Max(s)}], list[Max(s)], 10)
    <3>1. SUFFICES ASSUME NEW s \in SUBSET (1 .. L), s # {}
                   PROVE  g[s \ {Max(s)}] \in V /\ Max(s) \in 1 .. L
      BY <2>1
    <3> QED
      BY <1>1, <3>1, MaxOfInterval
  <2>5. [s \in SUBSET (1 .. L) |->
           IF s = {} THEN q ELSE W[<<g[s \ {Max(s)}], Max(s)>>]] =
        [s \in SUBSET (1 .. L) |->
           IF s = {} THEN q ELSE Put(g[s \ {Max(s)}], list[Max(s)], 10)]
    BY <2>4
  <2> QED
    BY <2>3, <2>5 DEF L, FoldSolves
<1> DEFINE g == CHOOSE h : Solves(h)
<1>6. Solves(g)
  BY <1>5
<1> HIDE DEF g
<1>7. \A s \in SUBSET (1 .. L) :
        g[s] = IF s = {} THEN q ELSE Put(g[s \ {Max(s)}], list[Max(s)], 10)
  BY <1>6
<1> DEFINE T == {k \in Nat : k <= L => g[1 .. k] \in V}
<1>8. 0 \in T
  <2>1. 1 .. 0 = {} /\ {} \in SUBSET (1 .. L)
    OBVIOUS
  <2> QED
    BY <1>3, <1>7, <2>1
<1>9. ASSUME NEW k \in Nat, k \in T PROVE k + 1 \in T
  <2>1. SUFFICES ASSUME k + 1 <= L PROVE g[1 .. (k + 1)] \in V
    OBVIOUS
  <2>2. /\ k <= L /\ k + 1 \in 1 .. L
        /\ 1 .. (k + 1) \in SUBSET (1 .. L) /\ k + 1 \in 1 .. (k + 1)
        /\ (1 .. (k + 1)) \ {k + 1} = 1 .. k
    BY <1>1, <2>1
  <2>3. Max(1 .. (k + 1)) = k + 1
    BY <2>2, MaxIsBound
  <2>4. g[1 .. (k + 1)] = Put(g[1 .. k], list[k + 1], 10)
    <3>1. g[1 .. (k + 1)] = Put(g[(1 .. (k + 1)) \ {k + 1}], list[k + 1], 10)
      BY <1>7, <2>2, <2>3
    <3> QED
      BY <2>2, <3>1
  <2>5. g[1 .. k] \in V
    BY <1>9, <2>2
  <2> QED
    BY <1>1, <1>4, <2>2, <2>4, <2>5
<1> HIDE DEF T
<1>10. L \in T
  BY <1>1, <1>8, <1>9, SetInduction
<1>11. g[1 .. L] \in V
  BY <1>1, <1>10 DEF T
<1> QED
  BY <1>2, <1>11 DEF V, g

\* Nothing is sent of an empty list.
LEMMA NoneResent ==
  ASSUME NEW q
  PROVE  PutPackets(q, <<>>) = q
<1> DEFINE Solves(g) == g = [s \in SUBSET {} |->
                               IF s = {} THEN q
                               ELSE Put(g[s \ {Max(s)}], (<<>>)[Max(s)], 10)]
<1>1. DOMAIN <<>> = {}
  OBVIOUS
<1>2. PutPackets(q, <<>>) = (CHOOSE g : Solves(g))[{}]
  <2>1. PutPackets(q, <<>>) =
          (CHOOSE g : g = [s \in SUBSET DOMAIN <<>> |->
             IF s = {} THEN q
             ELSE Put(g[s \ {Max(s)}], (<<>>)[Max(s)], 10)])[DOMAIN <<>>]
    BY Zenon DEF PutPackets, FoldLeft, MapThenFoldSet
  <2> QED
    BY <1>1, <2>1
<1>3. Solves([s \in SUBSET {} |-> q])
  OBVIOUS
<1> DEFINE g == CHOOSE h : Solves(h)
<1>4. Solves(g)
  BY <1>3
<1> HIDE DEF g
<1>5. g[{}] = q
  BY <1>4
<1> QED
  BY <1>2, <1>5 DEF g

-----------------------------------------------------------------------------
(* The stream players: the invariant.                                      *)

\* What is in the lists of a stream's queue, and in which order.
Main(s)        == Msgs(queues[s].m_messages)
MainOrder(s)   == Order(queues[s].m_messages)
Urgent(s)      == Msgs(queues[s].m_prioMessages)
UrgentOrder(s) == Order(queues[s].m_prioMessages)
Opened(s)      == queues[s].m_bInitialized

IsFlush(m) == TypeOf[m] = "flush"
IsSync(m)  == TypeOf[m] = "sync"

\* The flushes a stream player has still to handle.
Pending(s) == {m \in Urgent(s) \union pMsg[s] : IsFlush(m)}

\* The last flush was handled or will be.
Reaches(s) == flushed[s] = epoch \/ \E m \in Pending(s) : sentIn[m] = epoch

\* The codec of the stream makes its player keep no packets.
KeepsNone(s) == s = "audio" \/ ConvergeCount = 0

Place == {"none", "loop", "wait", "handle", "sync", "decode"}
PlayerPlace == {"run", "flushAudio", "flushVideo", "flushed", "syncVideo", "wait",
                "drain", "putDrain", "waitDrain", "drained", "abort", "stopThread",
                "join"}
Answerer == Stream \union {AnySource}

\* The variables have their types, and the queues are sound.
StreamTypes ==
  /\ queues \in [Stream -> Queue] /\ \A s \in Stream : Sound(queues[s])
  /\ unsent \subseteq Message /\ epoch \in 0 .. MaxEpoch
  /\ sentIn \in [Message -> 0 .. MaxEpoch]
  /\ player \in PlayerPlace /\ closing \subseteq Stream /\ waitsFor \subseteq Message
  /\ sources \in [Message -> SUBSET Answerer]
  /\ reached \in [Message -> SUBSET Answerer]
  /\ at \in [Stream -> Place] /\ priority \in [Stream -> {0, 1}]
  /\ pMsg \in [Stream -> SUBSET Message] /\ codec \in [Stream -> SUBSET Message]
  /\ m_packets \in [Stream -> Seq(Messages("packet"))]
  /\ flushed \in [Stream -> 0 .. MaxEpoch]

\* A thread runs on an initialized queue only and holds a message only while it
\* handles it; a flush is never an ordinary message, and only packets that are sent
\* again are urgent.
Orderly(s) ==
  /\ at[s] # "none" => Opened(s)
  /\ at[s] \notin {"handle", "sync"} => pMsg[s] = {}
  /\ \A m, n \in pMsg[s] : m = n
  /\ at[s] = "sync" => \A m \in pMsg[s] : IsSync(m)
  /\ \A m \in Main(s) : ~IsFlush(m)
  /\ KeepsNone(s) => m_packets[s] = <<>> /\ \A m \in Urgent(s) : ~IsPacket(m)

ThreadInv ==
  (\A s, t \in closing : s = t) /\ \A s \in Stream : Orderly(s)

\* Where a message can be.
Holding(s) ==
  Main(s) \union Urgent(s) \union pMsg[s] \union codec[s] \union ToSet(m_packets[s])

\* A message that was not sent is nowhere.
UnsentInv ==
  /\ \A m \in unsent : reached[m] = {} /\ m \notin waitsFor
  /\ \A s \in Stream : \A m \in unsent : m \notin Holding(s)

\* The flushes are handled in the order they were sent.
InTurn(s) ==
  /\ flushed[s] <= epoch
  /\ \A m \in Pending(s) : flushed[s] <= sentIn[m]
  /\ \A a, b : <<a, b>> \in UrgentOrder(s) /\ IsFlush(a) /\ IsFlush(b)
               => sentIn[b] <= sentIn[a]
  /\ \A m \in pMsg[s], a \in Urgent(s) : IsFlush(m) /\ IsFlush(a)
                                        => sentIn[m] <= sentIn[a]

EpochInv == (\A m \in Message : sentIn[m] <= epoch) /\ \A s \in Stream : InTurn(s)

\* Once FlushBuffers has sent it, the last flush was handled or will be.
SentTo(s) == IF s = "audio" THEN {"flushVideo", "flushed", "syncVideo", "wait"}
                            ELSE {"flushed", "syncVideo", "wait"}

ReachInv == \A s \in Stream : Opened(s) /\ player \in SentTo(s) => Reaches(s)

\* The barrier is behind the flush: a player that answers it has none to handle.
Behind(s, m) ==
  /\ s \in reached[m] => Opened(s) /\ Pending(s) = {}
  /\ m \in pMsg[s] => Pending(s) = {}
  /\ \A f \in Message : IsFlush(f) => <<f, m>> \notin UrgentOrder(s)

BarrierInv ==
  player \in {"syncVideo", "wait"} =>
    \A m \in waitsFor :
      IsSync(m) /\ sources[m] = Stream /\ \A s \in Stream : Behind(s, m)

\* Where the player is in FlushBuffers.
FlushPlaces == {"flushAudio", "flushVideo", "flushed", "syncVideo", "wait"}

\* What a barrier that both have answered means until the next FlushBuffers.
AnsweredInv ==
  flushEnd = "reached" =>
    /\ player \notin FlushPlaces
    /\ \A s \in Stream : flushed[s] = epoch /\ Pending(s) = {}

\* A stream whose player has taken all that was put before.
Emptied(s) == Main(s) = {} /\ \A x \in pMsg[s] : ~IsPacket(x)

\* What the message m of WaitUntilEmpty means for a stream that is closed.
Drains(s, m) ==
  /\ m \notin Urgent(s)
  /\ at[s] = "sync" /\ m \in pMsg[s] => reached[m] = {AnySource}
  /\ KeepsNone(s) =>
       /\ \A a \in Message : <<a, m>> \notin MainOrder(s)
       /\ m \in pMsg[s] \/ reached[m] # {} => Emptied(s)

\* The message that WaitUntilEmpty waits for is in the lists of the stream that
\* is closed, behind all others, or it was answered and they were taken.
DrainInv ==
  player = "waitDrain" =>
    \A m \in waitsFor :
      /\ IsSync(m) /\ sources[m] = {AnySource} /\ reached[m] \subseteq {AnySource}
      /\ \A t \in Stream \ closing : m \notin Main(t) \union Urgent(t) \union pMsg[t]
      /\ \A s \in closing : Drains(s, m)

DrainedInv ==
  player = "drained" /\ drainEnd = "reached" =>
    \A s \in closing : KeepsNone(s) => Emptied(s)

StreamInv ==
  /\ StreamTypes /\ ThreadInv /\ UnsentInv /\ EpochInv /\ ReachInv /\ BarrierInv
  /\ AnsweredInv /\ DrainInv /\ DrainedInv /\ VideoFlushed

-----------------------------------------------------------------------------
(* What the steps do to the streams.                                       *)

PlayerSame ==
  /\ unsent' = unsent /\ sentIn' = sentIn /\ epoch' = epoch /\ player' = player
  /\ closing' = closing /\ waitsFor' = waitsFor /\ sources' = sources
  /\ flushEnd' = flushEnd /\ drainEnd' = drainEnd

QueueSame(s) ==
  /\ Main(s)' = Main(s) /\ MainOrder(s)' = MainOrder(s)
  /\ Urgent(s)' = Urgent(s) /\ UrgentOrder(s)' = UrgentOrder(s)
  /\ Opened(s)' = Opened(s)

CodecSame(s) ==
  codec'[s] = codec[s] /\ m_packets'[s] = m_packets[s] /\ flushed'[s] = flushed[s]

ThreadSame(s) == at'[s] = at[s] /\ pMsg'[s] = pMsg[s] /\ CodecSame(s)

OthersSame(s) == \A t \in Stream \ {s} : QueueSame(t) /\ ThreadSame(t)

\* A step of the thread of s: of all other state, the lists of the other queues
\* included, nothing changes.
ThreadStep(s) == PlayerSame /\ OthersSame(s) /\ at[s] # "none"

\* The thread waits, polls, decodes or ends.
Idles(s) ==
  /\ ThreadStep(s) /\ QueueSame(s) /\ CodecSame(s)
  /\ at[s] \notin {"handle", "sync"} /\ at'[s] \notin {"handle", "sync"}
  /\ pMsg'[s] = pMsg[s] /\ reached' = reached

\* It takes the message that the others of its list wait for.
TakesUrgent(s, x) ==
  /\ Main(s)' = Main(s) /\ MainOrder(s)' = MainOrder(s)
  /\ Urgent(s) = Urgent(s)' \union {x}
  /\ UrgentOrder(s)' \subseteq UrgentOrder(s)
  /\ \A a \in Urgent(s)' : <<a, x>> \in UrgentOrder(s)

TakesMain(s, x) ==
  /\ Urgent(s) = {} /\ Urgent(s)' = {}
  /\ UrgentOrder(s)' = UrgentOrder(s)
  /\ Main(s) = Main(s)' \union {x}
  /\ MainOrder(s)' \subseteq MainOrder(s)
  /\ \A a \in Main(s)' : <<a, x>> \in MainOrder(s)

Takes(s) ==
  /\ ThreadStep(s) /\ CodecSame(s) /\ reached' = reached
  /\ at[s] \in {"loop", "wait"} /\ at'[s] = "handle"
  /\ Opened(s)' = Opened(s)
  /\ \E x \in Message : pMsg'[s] = {x} /\ (TakesUrgent(s, x) \/ TakesMain(s, x))

\* The packets kept are urgent, what waits for none of them stays.
SendsAgain(s) ==
  /\ ThreadStep(s) /\ reached' = reached
  /\ s = "video" /\ at[s] = "decode" /\ at'[s] = "loop" /\ pMsg'[s] = pMsg[s]
  /\ codec'[s] = {} /\ m_packets'[s] = <<>> /\ flushed'[s] = flushed[s]
  /\ m_packets[s] = <<>> => QueueSame(s)
  /\ Opened(s)' = Opened(s)
  /\ Main(s)' = Main(s) /\ MainOrder(s)' = MainOrder(s)
  /\ Urgent(s) \subseteq Urgent(s)'
  /\ Urgent(s)' \subseteq Urgent(s) \union ToSet(m_packets[s])
  /\ \A a, b : <<a, b>> \in UrgentOrder(s)' =>
       IsPacket(a) \/ IsPacket(b) \/ <<a, b>> \in UrgentOrder(s)

\* It answers a synchronize message.
Answers(s) ==
  /\ ThreadStep(s) /\ QueueSame(s) /\ CodecSame(s)
  /\ at[s] = "handle" /\ at'[s] = "sync" /\ pMsg'[s] = pMsg[s]
  /\ \E m \in pMsg[s] :
       /\ IsSync(m)
       /\ reached' = [reached EXCEPT ![m] = @ \union ({s, AnySource} \intersect sources[m])]

\* It drops a synchronize message, or puts it back behind all urgent ones.
Returns(s) ==
  /\ ThreadStep(s) /\ CodecSame(s) /\ reached' = reached
  /\ at[s] = "sync" /\ at'[s] = "loop" /\ pMsg'[s] = {}
  /\ Opened(s)' = Opened(s)
  /\ Main(s)' = Main(s) /\ MainOrder(s)' = MainOrder(s)
  /\ \E m \in pMsg[s] :
       \/ Urgent(s)' = Urgent(s) /\ UrgentOrder(s)' = UrgentOrder(s)
       \/ /\ ~Complete(m)
          /\ Urgent(s)' = Urgent(s) \union {m}
          /\ UrgentOrder(s)' \subseteq UrgentOrder(s) \union ({m} \X Urgent(s))

\* No packet is left of the lists.
LosesPackets(s) ==
  /\ Opened(s)' = Opened(s)
  /\ Main(s)' = {m \in Main(s) : ~IsPacket(m)}
  /\ Urgent(s)' = {m \in Urgent(s) : ~IsPacket(m)}
  /\ MainOrder(s)' \subseteq MainOrder(s) /\ UrgentOrder(s)' \subseteq UrgentOrder(s)

\* It handles a flush.
Flushes(s) ==
  /\ ThreadStep(s) /\ reached' = reached
  /\ at[s] = "handle" /\ at'[s] = "loop" /\ pMsg'[s] = {}
  /\ codec'[s] = {} /\ m_packets'[s] = <<>>
  /\ \E m \in pMsg[s] : IsFlush(m) /\ flushed'[s] = sentIn[m]
  /\ (s = "audio" /\ QueueSame(s)) \/ (s = "video" /\ LosesPackets(s))

\* It decodes or drops a packet.
Consumes(s) ==
  /\ ThreadStep(s) /\ QueueSame(s) /\ reached' = reached
  /\ at[s] = "handle" /\ at'[s] \in {"decode", "loop"} /\ pMsg'[s] = {}
  /\ flushed'[s] = flushed[s]
  /\ KeepsNone(s) => m_packets'[s] = m_packets[s]
  /\ \E m \in pMsg[s] :
       /\ IsPacket(m)
       /\ codec'[s] \subseteq codec[s] \union {m}
       /\ ToSet(m_packets'[s]) \subseteq ToSet(m_packets[s]) \union {m}

\* It puts a packet back, in front of all others.
PutsBack(s) ==
  /\ ThreadStep(s) /\ CodecSame(s) /\ reached' = reached
  /\ at[s] = "handle" /\ at'[s] = "loop" /\ pMsg'[s] = {}
  /\ Opened(s)' = Opened(s)
  /\ Urgent(s)' = Urgent(s) /\ UrgentOrder(s)' = UrgentOrder(s)
  /\ \E m \in pMsg[s] :
       /\ IsPacket(m)
       /\ Main(s)' = Main(s) \union {m}
       /\ MainOrder(s)' \subseteq MainOrder(s) \union (Main(s) \X {m})

\* Of the player's steps, those that leave the lists and the threads alone.
StreamsSame ==
  /\ \A s \in Stream : QueueSame(s) /\ ThreadSame(s)
  /\ unsent' = unsent /\ sentIn' = sentIn /\ epoch' = epoch
  /\ sources' = sources /\ reached' = reached

PlayerStays ==
  /\ StreamsSame /\ player' = player /\ closing' = closing /\ waitsFor' = waitsFor
  /\ flushEnd' = flushEnd /\ drainEnd' = drainEnd

PlayerSkips ==
  /\ StreamsSame /\ player = "flushed" /\ player' = "run" /\ flushEnd' = "skipped"
  /\ closing' = closing /\ waitsFor' = waitsFor /\ drainEnd' = drainEnd

PlayerSynchronized ==
  /\ StreamsSame /\ player = "wait" /\ player' = "run"
  /\ \E m \in waitsFor : flushEnd' = EndOf(m)
  /\ closing' = closing /\ waitsFor' = {} /\ drainEnd' = drainEnd

PlayerCloses ==
  /\ StreamsSame /\ player \notin {"flushAudio", "flushVideo", "flushed", "syncVideo", "wait"}
  /\ player' \in {"abort", "drain", "putDrain", "stopThread", "join"}
  /\ waitsFor' = waitsFor /\ flushEnd' = flushEnd
  /\ closing' = closing \/ \E s \in Stream : closing' = {s}

PlayerDrained ==
  /\ StreamsSame /\ player = "waitDrain" /\ player' = "drained"
  /\ \E m \in waitsFor : drainEnd' = EndOf(m)
  /\ waitsFor' = {} /\ closing' = closing /\ flushEnd' = flushEnd

\* A stream is opened: its queue is empty.
Opens(s) ==
  /\ PlayerSame /\ OthersSame(s) /\ reached' = reached
  /\ player = "run" /\ ~Opened(s) /\ Opened(s)'
  /\ Main(s)' = Main(s) /\ MainOrder(s)' = MainOrder(s)
  /\ Urgent(s)' = Urgent(s) /\ UrgentOrder(s)' = UrgentOrder(s)
  /\ at'[s] = "loop" /\ pMsg'[s] = pMsg[s] /\ codec'[s] = {} /\ m_packets'[s] = <<>>
  /\ flushed'[s] = flushed[s]

\* A stream is closed.
Ends(s) ==
  /\ OthersSame(s) /\ reached' = reached
  /\ unsent' = unsent /\ sentIn' = sentIn /\ epoch' = epoch /\ sources' = sources
  /\ player = "join" /\ player' = "run" /\ closing' = {} /\ waitsFor' = waitsFor
  /\ flushEnd' = flushEnd
  /\ at[s] = "none" /\ at'[s] = "none" /\ ~Opened(s)'
  /\ Main(s)' = {} /\ MainOrder(s)' = {} /\ Urgent(s)' = {} /\ UrgentOrder(s)' = {}
  /\ pMsg'[s] = pMsg[s] /\ codec'[s] = {} /\ m_packets'[s] = m_packets[s]
  /\ flushed'[s] = flushed[s]

\* The audio queue loses its packets.
BeginsFlush ==
  /\ OthersSame("audio") /\ ThreadSame("audio") /\ LosesPackets("audio")
  /\ reached' = reached /\ unsent' = unsent /\ sentIn' = sentIn /\ sources' = sources
  /\ player = "run" /\ player' = "flushAudio" /\ epoch' = epoch + 1
  /\ flushEnd' = "none" /\ waitsFor' = waitsFor /\ closing' = closing

\* A message m is put into the queue of s, if that is initialized.
Puts(s, m) ==
  /\ OthersSame(s) /\ ThreadSame(s) /\ reached' = reached /\ epoch' = epoch
  /\ closing' = closing /\ flushEnd' = flushEnd /\ Opened(s)' = Opened(s)

PutsUrgent(s, m) ==
  /\ Puts(s, m) /\ Main(s)' = Main(s) /\ MainOrder(s)' = MainOrder(s)
  /\ \/ ~Opened(s) /\ Urgent(s)' = Urgent(s) /\ UrgentOrder(s)' = UrgentOrder(s)
     \/ /\ Opened(s)
        /\ Urgent(s)' = Urgent(s) \union {m}
        /\ UrgentOrder(s)' \subseteq UrgentOrder(s) \union ({m} \X Urgent(s))

PutsMain(s, m) ==
  /\ Puts(s, m) /\ Urgent(s)' = Urgent(s) /\ UrgentOrder(s)' = UrgentOrder(s)
  /\ \/ Main(s)' = Main(s) /\ MainOrder(s)' = MainOrder(s)
     \/ /\ Main(s)' = Main(s) \union {m}
        /\ MainOrder(s)' \subseteq MainOrder(s) \union ({m} \X Main(s))

New(m) ==
  m \in unsent /\ unsent' = unsent \ {m} /\ sentIn' = [sentIn EXCEPT ![m] = epoch]

SendsPacket(s, m) ==
  /\ PutsMain(s, m) /\ New(m) /\ IsPacket(m)
  /\ player = "run" /\ player' = player /\ waitsFor' = waitsFor /\ sources' = sources

SendsFlush(s, m) ==
  /\ PutsUrgent(s, m) /\ New(m) /\ IsFlush(m) /\ waitsFor' = waitsFor
  /\ sources' = sources
  /\ \/ s = "audio" /\ player = "flushAudio" /\ player' = "flushVideo"
     \/ s = "video" /\ player = "flushVideo" /\ player' = "flushed"

SendsBarrier(m) ==
  /\ PutsUrgent("audio", m) /\ New(m) /\ IsSync(m) /\ waitsFor' = {m}
  /\ sources' = [sources EXCEPT ![m] = Stream]
  /\ player = "flushed" /\ player' = "syncVideo"

SendsBarrierAgain(m) ==
  /\ PutsUrgent("video", m) /\ m \in waitsFor /\ waitsFor' = waitsFor
  /\ unsent' = unsent /\ sentIn' = sentIn /\ sources' = sources
  /\ player = "syncVideo" /\ player' = "wait"

SendsDrain(s, m) ==
  /\ PutsMain(s, m) /\ New(m) /\ IsSync(m) /\ waitsFor' = {m} /\ s \in closing
  /\ sources' = [sources EXCEPT ![m] = {AnySource}]
  /\ player = "putDrain" /\ player' = "waitDrain"
-----------------------------------------------------------------------------
(* The steps of the threads have these effects, and keep the types.        *)

\* What makes the lists of a queue the same.
LEMMA ListsSame ==
  ASSUME NEW s,
         queues'[s].m_messages = queues[s].m_messages,
         queues'[s].m_prioMessages = queues[s].m_prioMessages,
         queues'[s].m_bInitialized = queues[s].m_bInitialized
  PROVE  QueueSame(s)
BY DEF QueueSame, Main, MainOrder, Urgent, UrgentOrder, Opened

\* What a step of one stream's thread leaves alone.
LEMMA Elsewhere ==
  ASSUME NEW s \in Stream, at[s] # "none",
         UNCHANGED <<unsent, sentIn, playerVars, sources>>,
         \A t \in Stream \ {s} :
           /\ queues'[t] = queues[t] /\ at'[t] = at[t] /\ pMsg'[t] = pMsg[t]
           /\ codec'[t] = codec[t] /\ m_packets'[t] = m_packets[t]
           /\ flushed'[t] = flushed[t]
  PROVE  ThreadStep(s)
<1>1. PlayerSame
  BY DEF PlayerSame, playerVars
<1>2. ASSUME NEW t \in Stream \ {s} PROVE QueueSame(t) /\ ThreadSame(t)
  BY <1>2, ListsSame DEF ThreadSame, CodecSame
<1> QED
  BY <1>1, <1>2 DEF ThreadStep, OthersSame

\* The types of what such a step changes.
LEMMA TypesStep ==
  ASSUME StreamTypes, NEW s \in Stream, NEW q, Sound(q),
         queues' = [queues EXCEPT ![s] = q],
         UNCHANGED <<unsent, sentIn, playerVars, sources>>,
         reached' \in [Message -> SUBSET Answerer],
         at' \in [Stream -> Place], priority' \in [Stream -> {0, 1}],
         pMsg' \in [Stream -> SUBSET Message], codec' \in [Stream -> SUBSET Message],
         m_packets' \in [Stream -> Seq(Messages("packet"))],
         flushed' \in [Stream -> 0 .. MaxEpoch]
  PROVE  StreamTypes'
<1>1. queues' \in [Stream -> Queue] /\ \A t \in Stream : Sound(queues'[t])
  <2>1. q \in Queue
    BY DEF Sound
  <2>2. queues \in [Stream -> Queue] /\ \A t \in Stream : Sound(queues[t])
    BY DEF StreamTypes
  <2>3. \A t \in Stream : queues'[t] = IF t = s THEN q ELSE queues[t]
    BY <2>2
  <2> QED
    BY <2>1, <2>2, <2>3
<1> QED
  BY <1>1 DEF StreamTypes, playerVars

\* Get takes a message, or waits, polls or fails.
LEMMA PollEffect ==
  ASSUME StreamTypes, NEW s \in Stream, at[s] \in {"loop", "wait"},
         UNCHANGED <<unsent, sentIn, playerVars, syncVars, codec, m_packets, flushed>>,
         NEW p \in {0, 1},
         TakeMessage(s, p) \/ WaitForMessage(s, p) \/ GetAtOnce(s, p) \/ GetFails(s)
  PROVE  (Idles(s) \/ Takes(s)) /\ StreamTypes'
<1>1. /\ queues \in [Stream -> Queue] /\ Sound(queues[s])
      /\ at \in [Stream -> Place] /\ priority \in [Stream -> {0, 1}]
      /\ pMsg \in [Stream -> SUBSET Message] /\ codec \in [Stream -> SUBSET Message]
      /\ m_packets \in [Stream -> Seq(Messages("packet"))]
      /\ flushed \in [Stream -> 0 .. MaxEpoch]
      /\ reached \in [Message -> SUBSET Answerer]
      /\ p \in Minimum
  BY DEF StreamTypes, Minimum
<1>2. UNCHANGED <<unsent, sentIn, playerVars, sources>> /\ reached' = reached
      /\ codec' = codec /\ m_packets' = m_packets /\ flushed' = flushed
  BY DEF syncVars
<1>3. CASE TakeMessage(s, p)
  <2> DEFINE r == Taken(queues[s], p)
             x == GetItem(queues[s], p).message
  <2>1. /\ HasMessage(queues[s], p) /\ queues' = [queues EXCEPT ![s] = r]
        /\ pMsg' = [pMsg EXCEPT ![s] = {x}] /\ at' = [at EXCEPT ![s] = "handle"]
        /\ priority' = [priority EXCEPT ![s] = 0]
    BY <1>3 DEF TakeMessage, Goto
  <2>2. Sound(r) /\ SameFlags(r, queues[s]) /\ x \in Message
    BY <1>1, <2>1, TakenSound, Zenon
  <2>3. \/ /\ r.m_messages = queues[s].m_messages
           /\ Msgs(queues[s].m_prioMessages) = Msgs(r.m_prioMessages) \union {x}
           /\ Order(r.m_prioMessages) \subseteq Order(queues[s].m_prioMessages)
           /\ \A a \in Msgs(r.m_prioMessages) : <<a, x>> \in Order(queues[s].m_prioMessages)
        \/ /\ r.m_prioMessages = queues[s].m_prioMessages
           /\ Msgs(queues[s].m_prioMessages) = {}
           /\ Msgs(queues[s].m_messages) = Msgs(r.m_messages) \union {x}
           /\ Order(r.m_messages) \subseteq Order(queues[s].m_messages)
           /\ \A a \in Msgs(r.m_messages) : <<a, x>> \in Order(queues[s].m_messages)
    BY <1>1, <2>1, TakenSound, Zenon
  <2> HIDE DEF r, x
  <2>4. queues'[s] = r
    BY <1>1, <2>1
  <2>5. TakesUrgent(s, x) \/ TakesMain(s, x)
    BY <2>3, <2>4 DEF TakesUrgent, TakesMain, Main, MainOrder, Urgent, UrgentOrder
  <2>6. at'[s] = "handle" /\ pMsg'[s] = {x}
    BY <1>1, <2>1
  <2>7. Opened(s)' = Opened(s)
    BY <2>2, <2>4 DEF Opened, SameFlags
  <2>8. ThreadStep(s)
    <3>1. \A t \in Stream \ {s} :
            queues'[t] = queues[t] /\ at'[t] = at[t] /\ pMsg'[t] = pMsg[t]
      BY <1>1, <2>1
    <3> QED
      BY <1>2, <3>1, Elsewhere
  <2>9. Takes(s)
    BY <1>2, <2>2, <2>5, <2>6, <2>7, <2>8 DEF Takes, CodecSame
  <2>10. /\ at' \in [Stream -> Place] /\ priority' \in [Stream -> {0, 1}]
         /\ pMsg' \in [Stream -> SUBSET Message]
    BY <1>1, <2>1, <2>2 DEF Place
  <2>11. StreamTypes'
    BY <1>1, <1>2, <2>1, <2>2, <2>10, TypesStep
  <2> QED
    BY <2>9, <2>11
<1>4. CASE WaitForMessage(s, p) \/ GetAtOnce(s, p) \/ GetFails(s)
  <2>1. PICK q : /\ q = queues[s] \/ q = Unset(queues[s])
                 /\ queues' = [queues EXCEPT ![s] = q]
    <3>1. CASE WaitForMessage(s, p)
      BY <3>1 DEF WaitForMessage, Unset
    <3>2. CASE queues' = queues
      <4>1. queues' = [queues EXCEPT ![s] = queues[s]]
        BY <1>1, <3>2
      <4> QED
        BY <4>1
    <3> QED
      BY <1>4, <3>1, <3>2 DEF GetAtOnce, GetFails
  <2>2. Sound(q) /\ SameData(q, queues[s]) /\ q.m_bInitialized = queues[s].m_bInitialized
    <3>1. SameData(queues[s], queues[s]) /\ TRUE \in BOOLEAN
      BY DEF SameData
    <3>2. /\ Sound(Unset(queues[s])) /\ SameData(Unset(queues[s]), queues[s])
          /\ Unset(queues[s]).m_bInitialized = queues[s].m_bInitialized
      BY <1>1, <3>1, FlagSound, Zenon
    <3> QED
      BY <1>1, <2>1, <3>1, <3>2
  <2>3. pMsg' = pMsg /\ at' = [at EXCEPT ![s] = at'[s]]
        /\ at'[s] \in {"wait", "decode", "none"}
        /\ priority' \in [Stream -> {0, 1}]
    BY <1>1, <1>4 DEF WaitForMessage, GetAtOnce, GetFails, Goto
  <2>4. queues'[s] = q
    BY <1>1, <2>1
  <2>5. QueueSame(s)
    BY <2>2, <2>4, ListsSame DEF SameData
  <2>6. ThreadStep(s)
    <3>1. \A t \in Stream \ {s} :
            queues'[t] = queues[t] /\ at'[t] = at[t] /\ pMsg'[t] = pMsg[t]
      BY <1>1, <2>1, <2>3
    <3> QED
      BY <1>2, <3>1, Elsewhere
  <2>7. Idles(s)
    BY <1>2, <2>3, <2>5, <2>6 DEF Idles, CodecSame
  <2>8. at' \in [Stream -> Place]
    BY <1>1, <2>3 DEF Place
  <2>9. StreamTypes'
    BY <1>1, <1>2, <2>1, <2>2, <2>3, <2>8, TypesStep
  <2> QED
    BY <2>7, <2>9
<1> QED
  BY <1>3, <1>4

\* A queue that does not change.
LEMMA TypesQuietStep ==
  ASSUME StreamTypes, queues' = queues,
         UNCHANGED <<unsent, sentIn, playerVars, sources>>,
         reached' \in [Message -> SUBSET Answerer],
         at' \in [Stream -> Place], priority' \in [Stream -> {0, 1}],
         pMsg' \in [Stream -> SUBSET Message], codec' \in [Stream -> SUBSET Message],
         m_packets' \in [Stream -> Seq(Messages("packet"))],
         flushed' \in [Stream -> 0 .. MaxEpoch]
  PROVE  StreamTypes'
BY DEF StreamTypes, playerVars

\* The other steps that leave the lists and the message.
LEMMA IdleEffect ==
  ASSUME StreamTypes, NEW s \in Stream,
         GetTimesOut(s) \/ DecoderOutput(s) \/ ThreadEnds(s)
  PROVE  Idles(s) /\ StreamTypes'
<1>1. /\ at \in [Stream -> Place] /\ priority \in [Stream -> {0, 1}]
      /\ pMsg \in [Stream -> SUBSET Message] /\ codec \in [Stream -> SUBSET Message]
      /\ m_packets \in [Stream -> Seq(Messages("packet"))]
      /\ flushed \in [Stream -> 0 .. MaxEpoch]
      /\ reached \in [Message -> SUBSET Answerer]
  BY DEF StreamTypes
<1>2. /\ UNCHANGED <<unsent, sentIn, playerVars, sources>> /\ reached' = reached
      /\ codec' = codec /\ m_packets' = m_packets /\ flushed' = flushed
      /\ queues' = queues /\ pMsg' = pMsg
  BY DEF GetTimesOut, DecoderOutput, ThreadEnds, syncVars
<1>3. /\ at[s] \in {"wait", "decode", "loop"}
      /\ at' = [at EXCEPT ![s] = at'[s]] /\ at'[s] \in {"decode", "loop", "none"}
      /\ priority' \in [Stream -> {0, 1}]
  BY <1>1 DEF GetTimesOut, DecoderOutput, ThreadEnds, Goto
<1>4. QueueSame(s)
  BY <1>2, ListsSame
<1>5. ThreadStep(s)
  <2>1. \A t \in Stream \ {s} : at'[t] = at[t]
    BY <1>1, <1>3
  <2> QED
    BY <1>2, <1>3, <2>1, Elsewhere
<1>6. Idles(s)
  BY <1>2, <1>3, <1>4, <1>5 DEF Idles, CodecSame
<1>7. at' \in [Stream -> Place]
  BY <1>1, <1>3 DEF Place
<1>8. StreamTypes'
  BY <1>1, <1>2, <1>3, <1>7, TypesQuietStep
<1> QED
  BY <1>6, <1>8

\* The packets kept for the codec are sent again.
LEMMA AgainEffect ==
  ASSUME StreamTypes, NEW s \in Stream, DecoderFlushed(s)
  PROVE  SendsAgain(s) /\ StreamTypes'
<1> DEFINE list == m_packets[s]
           P == ToSet(list)
           r == PutPackets(queues[s], list)
<1>1. /\ queues \in [Stream -> Queue] /\ Sound(queues[s])
      /\ at \in [Stream -> Place] /\ priority \in [Stream -> {0, 1}]
      /\ pMsg \in [Stream -> SUBSET Message] /\ codec \in [Stream -> SUBSET Message]
      /\ m_packets \in [Stream -> Seq(Messages("packet"))]
      /\ flushed \in [Stream -> 0 .. MaxEpoch]
      /\ reached \in [Message -> SUBSET Answerer]
  BY DEF StreamTypes
<1>2. /\ UNCHANGED <<unsent, sentIn, playerVars, sources>> /\ reached' = reached
      /\ flushed' = flushed /\ pMsg' = pMsg /\ priority' = priority
      /\ queues' = [queues EXCEPT ![s] = r]
      /\ m_packets' = [m_packets EXCEPT ![s] = <<>>]
      /\ codec' = [codec EXCEPT ![s] = {}]
      /\ at' = [at EXCEPT ![s] = "loop"] /\ at[s] = "decode" /\ s = "video"
  BY DEF DecoderFlushed, Goto, syncVars
<1>3. list \in Seq(Messages("packet")) /\ list \in Seq(P) /\ P \subseteq Messages("packet")
  <2>1. list \in Seq(Messages("packet"))
    BY <1>1
  <2>2. P = {list[i] : i \in DOMAIN list}
    BY DEF ToSet
  <2> HIDE DEF list, P
  <2> QED
    BY <2>1, <2>2
<1>4. /\ P \in SUBSET Message /\ \A m \in P : IsPacket(m)
  BY <1>3 DEF Messages, IsPacket
<1> HIDE DEF P
<1>5. Resent(r, queues[s], P)
  BY <1>1, <1>3, <1>4, AllResent
<1>6. list = <<>> => r = queues[s]
  BY NoneResent
<1> HIDE DEF list, r
<1>7. queues'[s] = r
  BY <1>1, <1>2
<1>8. /\ Opened(s)' = Opened(s) /\ Main(s)' = Main(s) /\ MainOrder(s)' = MainOrder(s)
      /\ Urgent(s) \subseteq Urgent(s)' /\ Urgent(s)' \subseteq Urgent(s) \union P
      /\ \A a, b : <<a, b>> \in UrgentOrder(s)' =>
           a \in P \/ b \in P \/ <<a, b>> \in UrgentOrder(s)
  BY <1>5, <1>7 DEF Resent, SameFlags, Opened, Main, MainOrder, Urgent, UrgentOrder
<1>9. list = <<>> => QueueSame(s)
  BY <1>6, <1>7, ListsSame
<1>10. ThreadStep(s)
  <2>1. \A t \in Stream \ {s} :
          /\ queues'[t] = queues[t] /\ at'[t] = at[t]
          /\ codec'[t] = codec[t] /\ m_packets'[t] = m_packets[t]
    BY <1>1, <1>2
  <2> QED
    BY <1>2, <2>1, Elsewhere
<1>11. at'[s] = "loop" /\ codec'[s] = {} /\ m_packets'[s] = <<>>
  BY <1>1, <1>2
<1>12. SendsAgain(s)
  BY <1>2, <1>4, <1>8, <1>9, <1>10, <1>11 DEF SendsAgain, P, list
<1>13. /\ at' \in [Stream -> Place] /\ codec' \in [Stream -> SUBSET Message]
       /\ m_packets' \in [Stream -> Seq(Messages("packet"))]
  BY <1>1, <1>2 DEF Place
<1>14. Sound(r)
  BY <1>5 DEF Resent
<1>15. StreamTypes'
  BY <1>1, <1>2, <1>13, <1>14, TypesStep
<1> QED
  BY <1>12, <1>15

\* A synchronize message is answered.
LEMMA AnswerEffect ==
  ASSUME StreamTypes, NEW s \in Stream, HandleSynchronize(s)
  PROVE  Answers(s) /\ StreamTypes'
<1>1. /\ at \in [Stream -> Place] /\ priority \in [Stream -> {0, 1}]
      /\ pMsg \in [Stream -> SUBSET Message] /\ codec \in [Stream -> SUBSET Message]
      /\ m_packets \in [Stream -> Seq(Messages("packet"))]
      /\ flushed \in [Stream -> 0 .. MaxEpoch]
      /\ reached \in [Message -> SUBSET Answerer] /\ sources \in [Message -> SUBSET Answerer]
  BY DEF StreamTypes
<1>2. /\ UNCHANGED <<unsent, sentIn, playerVars, sources>> /\ priority' = priority
      /\ codec' = codec /\ m_packets' = m_packets /\ flushed' = flushed
      /\ queues' = queues /\ pMsg' = pMsg /\ at' = [at EXCEPT ![s] = "sync"]
  BY DEF HandleSynchronize, Goto
<1>3. PICK m \in pMsg[s] :
        /\ at[s] = "handle" /\ IsSync(m)
        /\ reached' = [reached EXCEPT ![m] = @ \union ({s, AnySource} \intersect sources[m])]
  BY DEF HandleSynchronize, Holds, IsSync
<1>4. QueueSame(s)
  BY <1>2, ListsSame
<1>5. ThreadStep(s)
  <2>1. \A t \in Stream \ {s} : at'[t] = at[t]
    BY <1>1, <1>2
  <2> QED
    BY <1>2, <1>3, <2>1, Elsewhere
<1>6. at'[s] = "sync"
  BY <1>1, <1>2
<1>7. Answers(s)
  BY <1>2, <1>3, <1>4, <1>5, <1>6 DEF Answers, CodecSame
<1>8. at' \in [Stream -> Place] /\ reached' \in [Message -> SUBSET Answerer]
  <2>1. m \in Message /\ {s, AnySource} \intersect sources[m] \subseteq Answerer
    BY <1>1
  <2> QED
    BY <1>1, <1>2, <1>3, <2>1 DEF Place
<1>9. StreamTypes'
  BY <1>1, <1>2, <1>8, TypesQuietStep
<1> QED
  BY <1>7, <1>9

\* A synchronize message is dropped or put back.
LEMMA ReturnEffect ==
  ASSUME StreamTypes, ThreadInv, NEW s \in Stream, SynchronizeReturns(s)
  PROVE  Returns(s) /\ StreamTypes'
<1>1. /\ queues \in [Stream -> Queue] /\ Sound(queues[s])
      /\ at \in [Stream -> Place] /\ priority \in [Stream -> {0, 1}]
      /\ pMsg \in [Stream -> SUBSET Message] /\ codec \in [Stream -> SUBSET Message]
      /\ m_packets \in [Stream -> Seq(Messages("packet"))]
      /\ flushed \in [Stream -> 0 .. MaxEpoch]
      /\ reached \in [Message -> SUBSET Answerer]
  BY DEF StreamTypes
<1>2. /\ UNCHANGED <<unsent, sentIn, playerVars, sources>> /\ reached' = reached
      /\ codec' = codec /\ m_packets' = m_packets /\ flushed' = flushed
      /\ priority' = priority
      /\ pMsg' = [pMsg EXCEPT ![s] = {}] /\ at' = [at EXCEPT ![s] = "loop"]
      /\ at[s] = "sync"
  BY DEF SynchronizeReturns, Done, Goto, syncVars
<1>3. PICK m \in pMsg[s] :
        \/ queues' = queues
        \/ ~Complete(m) /\ queues' = [queues EXCEPT ![s] = Put(queues[s], m, 1)]
  BY DEF SynchronizeReturns
<1>4. /\ at'[s] = "loop" /\ pMsg'[s] = {}
      /\ at' \in [Stream -> Place] /\ pMsg' \in [Stream -> SUBSET Message]
  BY <1>1, <1>2 DEF Place
<1>5. m \in Message /\ queues[s].m_bInitialized /\ 1 \in {1, 10}
  BY <1>1, <1>2 DEF ThreadInv, Orderly, Opened
<1>6. CASE queues' = queues
  <2>1. QueueSame(s)
    BY <1>6, ListsSame
  <2>2. ThreadStep(s)
    <3>1. \A t \in Stream \ {s} :
            queues'[t] = queues[t] /\ at'[t] = at[t] /\ pMsg'[t] = pMsg[t]
      BY <1>1, <1>2, <1>6
    <3> QED
      BY <1>2, <3>1, Elsewhere
  <2>3. Returns(s)
    BY <1>2, <1>4, <2>1, <2>2 DEF Returns, QueueSame, CodecSame
  <2> QED
    BY <1>1, <1>2, <1>4, <1>6, <2>3, TypesQuietStep
<1>7. CASE ~Complete(m) /\ queues' = [queues EXCEPT ![s] = Put(queues[s], m, 1)]
  <2> DEFINE r == Put(queues[s], m, 1)
  <2>1. Sound(r) /\ SameFlags(r, queues[s]) /\ r.m_messages = queues[s].m_messages
    BY <1>1, <1>5, PutUrgent, Zenon
  <2>2. Msgs(r.m_prioMessages) = Msgs(queues[s].m_prioMessages) \union {m}
    BY <1>1, <1>5, PutUrgent, Zenon
  <2>3. Order(r.m_prioMessages) \subseteq
          Order(queues[s].m_prioMessages) \union ({m} \X Msgs(queues[s].m_prioMessages))
    BY <1>1, <1>5, PutUrgent, Zenon
  <2>4. queues'[s] = r /\ queues' = [queues EXCEPT ![s] = r]
    BY <1>1, <1>7
  <2> HIDE DEF r
  <2>5. /\ Opened(s)' = Opened(s) /\ Main(s)' = Main(s) /\ MainOrder(s)' = MainOrder(s)
        /\ Urgent(s)' = Urgent(s) \union {m}
        /\ UrgentOrder(s)' \subseteq UrgentOrder(s) \union ({m} \X Urgent(s))
    BY <2>1, <2>2, <2>3, <2>4
       DEF SameFlags, Opened, Main, MainOrder, Urgent, UrgentOrder
  <2>6. ThreadStep(s)
    <3>1. \A t \in Stream \ {s} :
            queues'[t] = queues[t] /\ at'[t] = at[t] /\ pMsg'[t] = pMsg[t]
      BY <1>1, <1>2, <2>4
    <3> QED
      BY <1>2, <3>1, Elsewhere
  <2>7. Returns(s)
    BY <1>2, <1>4, <1>7, <2>5, <2>6 DEF Returns, CodecSame
  <2>8. StreamTypes'
    BY <1>1, <1>2, <1>4, <2>1, <2>4, TypesStep
  <2> QED
    BY <2>7, <2>8
<1> QED
  BY <1>3, <1>6, <1>7

\* What the flush of the packets does to the lists of a queue.
LEMMA PacketsLost ==
  ASSUME NEW s, Sound(queues[s]), queues'[s] = FlushType(queues[s], "packet")
  PROVE  LosesPackets(s)
<1> DEFINE r == FlushType(queues[s], "packet")
<1>1. SameFlags(r, queues[s])
  BY FlushSound, Zenon
<1>2. /\ Msgs(r.m_messages) = {m \in Msgs(queues[s].m_messages) : ~IsPacket(m)}
      /\ Order(r.m_messages) \subseteq Order(queues[s].m_messages)
  BY FlushSound, Zenon
<1>3. /\ Msgs(r.m_prioMessages) = {m \in Msgs(queues[s].m_prioMessages) : ~IsPacket(m)}
      /\ Order(r.m_prioMessages) \subseteq Order(queues[s].m_prioMessages)
  BY FlushSound, Zenon
<1> HIDE DEF r
<1>4. queues'[s] = r
  BY DEF r
<1> QED
  BY <1>1, <1>2, <1>3, <1>4
     DEF LosesPackets, SameFlags, Opened, Main, MainOrder, Urgent, UrgentOrder

\* A flush is handled.
LEMMA FlushEffect ==
  ASSUME StreamTypes, NEW s \in Stream, HandleFlush(s)
  PROVE  Flushes(s) /\ StreamTypes'
<1>1. /\ queues \in [Stream -> Queue] /\ Sound(queues[s])
      /\ at \in [Stream -> Place] /\ priority \in [Stream -> {0, 1}]
      /\ pMsg \in [Stream -> SUBSET Message] /\ codec \in [Stream -> SUBSET Message]
      /\ m_packets \in [Stream -> Seq(Messages("packet"))]
      /\ flushed \in [Stream -> 0 .. MaxEpoch]
      /\ reached \in [Message -> SUBSET Answerer]
      /\ sentIn \in [Message -> 0 .. MaxEpoch]
  BY DEF StreamTypes
<1>2. /\ UNCHANGED <<unsent, sentIn, playerVars, sources>> /\ reached' = reached
      /\ priority' = priority
      /\ pMsg' = [pMsg EXCEPT ![s] = {}] /\ at' = [at EXCEPT ![s] = "loop"]
      /\ codec' = [codec EXCEPT ![s] = {}] /\ m_packets' = [m_packets EXCEPT ![s] = <<>>]
  BY DEF HandleFlush, Done, Goto, syncVars
<1>3. PICK m \in pMsg[s] :
        at[s] = "handle" /\ IsFlush(m) /\ flushed' = [flushed EXCEPT ![s] = sentIn[m]]
  BY DEF HandleFlush, Holds, IsFlush
<1>4. queues' = IF s = "video" THEN [queues EXCEPT ![s] = FlushType(queues[s], "packet")]
                ELSE queues
  BY DEF HandleFlush
<1>5. /\ at'[s] = "loop" /\ pMsg'[s] = {} /\ codec'[s] = {} /\ m_packets'[s] = <<>>
      /\ flushed'[s] = sentIn[m] /\ m \in Message
      /\ at' \in [Stream -> Place] /\ pMsg' \in [Stream -> SUBSET Message]
      /\ codec' \in [Stream -> SUBSET Message]
      /\ m_packets' \in [Stream -> Seq(Messages("packet"))]
  BY <1>1, <1>2, <1>3 DEF Place
<1>6. flushed' \in [Stream -> 0 .. MaxEpoch]
  BY <1>1, <1>3, <1>5
<1>7. ThreadStep(s)
  <2>1. \A t \in Stream \ {s} :
          /\ queues'[t] = queues[t] /\ at'[t] = at[t] /\ pMsg'[t] = pMsg[t]
          /\ codec'[t] = codec[t] /\ m_packets'[t] = m_packets[t]
          /\ flushed'[t] = flushed[t]
    BY <1>1, <1>2, <1>3, <1>4
  <2> QED
    BY <1>2, <1>3, <2>1, Elsewhere
<1>8. CASE s = "audio"
  <2>1. queues' = queues
    BY <1>4, <1>8
  <2>2. QueueSame(s)
    BY <2>1, ListsSame
  <2>3. Flushes(s)
    BY <1>2, <1>3, <1>5, <1>7, <1>8, <2>2 DEF Flushes
  <2>4. StreamTypes'
    BY <1>1, <1>2, <1>5, <1>6, <2>1, TypesQuietStep
  <2> QED
    BY <2>3, <2>4
<1>9. CASE s = "video"
  <2> DEFINE r == FlushType(queues[s], "packet")
  <2>1. queues' = [queues EXCEPT ![s] = r] /\ queues'[s] = r
    BY <1>1, <1>4, <1>9
  <2>2. Sound(r)
    BY <1>1, FlushSound, Zenon
  <2>3. LosesPackets(s)
    BY <1>1, <2>1, PacketsLost
  <2> HIDE DEF r
  <2>4. Flushes(s)
    BY <1>2, <1>3, <1>5, <1>7, <1>9, <2>3 DEF Flushes
  <2>5. StreamTypes'
    BY <1>1, <1>2, <1>5, <1>6, <2>1, <2>2, TypesStep
  <2> QED
    BY <2>4, <2>5
<1> QED
  BY <1>8, <1>9 DEF Stream

\* The packets kept for the codec.
LEMMA KeptPackets ==
  ASSUME NEW S, NEW list \in Seq(S), NEW m \in S
  PROVE  /\ Kept(Append(list, m)) \in Seq(S)
         /\ ToSet(Kept(Append(list, m))) \subseteq ToSet(list) \union {m}
<1> DEFINE longer == Append(list, m)
<1>1. longer \in Seq(S) /\ Len(longer) = Len(list) + 1 /\ Len(list) \in Nat
      /\ DOMAIN longer = 1 .. (Len(list) + 1) /\ DOMAIN list = 1 .. Len(list)
      /\ longer[Len(list) + 1] = m /\ \A i \in 1 .. Len(list) : longer[i] = list[i]
  OBVIOUS
<1>2. ToSet(longer) \subseteq ToSet(list) \union {m}
  <2>1. SUFFICES ASSUME NEW i \in DOMAIN longer PROVE longer[i] \in ToSet(list) \union {m}
    BY DEF ToSet
  <2>2. i = Len(list) + 1 \/ i \in 1 .. Len(list)
    BY <1>1
  <2> HIDE DEF longer
  <2> QED
    BY <1>1, <2>2 DEF ToSet
<1> HIDE DEF longer
<1>3. Tail(longer) \in Seq(S) /\ ToSet(Tail(longer)) \subseteq ToSet(longer)
  <2>1. longer # <<>>
    BY <1>1
  <2>2. /\ Tail(longer) \in Seq(S) /\ DOMAIN Tail(longer) = 1 .. (Len(longer) - 1)
        /\ \A i \in 1 .. (Len(longer) - 1) : Tail(longer)[i] = longer[i + 1]
    BY <1>1, <2>1
  <2>3. \A i \in 1 .. (Len(longer) - 1) : i + 1 \in DOMAIN longer
    BY <1>1
  <2> QED
    BY <2>2, <2>3 DEF ToSet
<1> QED
  BY <1>1, <1>2, <1>3 DEF Kept, longer

\* A packet is decoded or dropped.
LEMMA ConsumeEffect ==
  ASSUME StreamTypes, NEW s \in Stream, AddData(s) \/ SkipPacket(s)
  PROVE  Consumes(s) /\ StreamTypes'
<1>1. /\ at \in [Stream -> Place] /\ priority \in [Stream -> {0, 1}]
      /\ pMsg \in [Stream -> SUBSET Message] /\ codec \in [Stream -> SUBSET Message]
      /\ m_packets \in [Stream -> Seq(Messages("packet"))]
      /\ flushed \in [Stream -> 0 .. MaxEpoch]
      /\ reached \in [Message -> SUBSET Answerer]
  BY DEF StreamTypes
<1>2. /\ UNCHANGED <<unsent, sentIn, playerVars, sources>> /\ reached' = reached
      /\ priority' = priority /\ flushed' = flushed /\ queues' = queues
      /\ pMsg' = [pMsg EXCEPT ![s] = {}] /\ at' = [at EXCEPT ![s] = at'[s]]
      /\ at'[s] \in {"decode", "loop"}
  BY <1>1 DEF AddData, SkipPacket, Done, Goto, syncVars
<1>3. PICK m \in pMsg[s] :
        /\ at[s] = "handle" /\ IsPacket(m)
        /\ codec' = [codec EXCEPT ![s] = codec[s] \union {m}] \/ codec' = codec
        /\ \/ /\ s = "video" /\ ConvergeCount > 0
              /\ m_packets' = [m_packets EXCEPT ![s] = Kept(Append(m_packets[s], m))]
           \/ m_packets' = m_packets
  BY DEF AddData, SkipPacket, Holds, IsPacket
<1>4. m \in Messages("packet") /\ m \in Message
  BY <1>1, <1>3 DEF Messages, IsPacket
<1>5. /\ pMsg'[s] = {} /\ at' \in [Stream -> Place] /\ pMsg' \in [Stream -> SUBSET Message]
      /\ codec' \in [Stream -> SUBSET Message] /\ codec'[s] \subseteq codec[s] \union {m}
  <2>1. /\ pMsg'[s] = {} /\ at' \in [Stream -> Place]
        /\ pMsg' \in [Stream -> SUBSET Message]
    BY <1>1, <1>2 DEF Place
  <2>2. /\ codec' \in [Stream -> SUBSET Message]
        /\ codec'[s] \subseteq codec[s] \union {m}
    <3>1. codec[s] \union {m} \in SUBSET Message
      BY <1>1, <1>4
    <3> QED
      BY <1>1, <1>3, <3>1
  <2> QED
    BY <2>1, <2>2
<1>6. /\ m_packets' \in [Stream -> Seq(Messages("packet"))]
      /\ ToSet(m_packets'[s]) \subseteq ToSet(m_packets[s]) \union {m}
      /\ KeepsNone(s) => m_packets'[s] = m_packets[s]
      /\ \A t \in Stream \ {s} : m_packets'[t] = m_packets[t]
  <2>1. CASE m_packets' = m_packets
    BY <1>1, <2>1
  <2>2. CASE /\ s = "video" /\ ConvergeCount > 0
             /\ m_packets' = [m_packets EXCEPT ![s] = Kept(Append(m_packets[s], m))]
    <3> DEFINE list == Kept(Append(m_packets[s], m))
    <3>1. list \in Seq(Messages("packet")) /\ ToSet(list) \subseteq ToSet(m_packets[s]) \union {m}
      BY <1>1, <1>4, KeptPackets
    <3> HIDE DEF list
    <3>2. m_packets' = [m_packets EXCEPT ![s] = list]
      BY <2>2 DEF list
    <3>3. ~KeepsNone(s)
      BY <2>2, StreamAssumption DEF KeepsNone
    <3> QED
      BY <1>1, <3>1, <3>2, <3>3
  <2> QED
    BY <1>3, <2>1, <2>2
<1>7. QueueSame(s)
  BY <1>2, ListsSame
<1>8. ThreadStep(s)
  <2>1. \A t \in Stream \ {s} :
          at'[t] = at[t] /\ pMsg'[t] = pMsg[t] /\ codec'[t] = codec[t]
    BY <1>1, <1>2, <1>3
  <2> QED
    BY <1>2, <1>3, <1>6, <2>1, Elsewhere
<1>9. Consumes(s)
  BY <1>2, <1>3, <1>5, <1>6, <1>7, <1>8 DEF Consumes
<1>10. StreamTypes'
  BY <1>1, <1>2, <1>5, <1>6, TypesQuietStep
<1> QED
  BY <1>9, <1>10

\* A packet is put back.
LEMMA PutBackEffect ==
  ASSUME StreamTypes, ThreadInv, NEW s \in Stream, PutPacketBack(s)
  PROVE  PutsBack(s) /\ StreamTypes'
<1>1. /\ queues \in [Stream -> Queue] /\ Sound(queues[s])
      /\ at \in [Stream -> Place] /\ priority \in [Stream -> {0, 1}]
      /\ pMsg \in [Stream -> SUBSET Message] /\ codec \in [Stream -> SUBSET Message]
      /\ m_packets \in [Stream -> Seq(Messages("packet"))]
      /\ flushed \in [Stream -> 0 .. MaxEpoch]
      /\ reached \in [Message -> SUBSET Answerer]
  BY DEF StreamTypes
<1>2. /\ UNCHANGED <<unsent, sentIn, playerVars, sources>> /\ reached' = reached
      /\ codec' = codec /\ m_packets' = m_packets /\ flushed' = flushed
      /\ priority' = priority
      /\ pMsg' = [pMsg EXCEPT ![s] = {}] /\ at' = [at EXCEPT ![s] = "loop"]
  BY DEF PutPacketBack, Done, Goto, syncVars
<1>3. PICK m \in pMsg[s] :
        /\ at[s] = "handle" /\ IsPacket(m)
        /\ queues' = [queues EXCEPT ![s] = PutMessage(queues[s], m, 0, FALSE)]
  BY DEF PutPacketBack, PutBack, Holds, IsPacket
<1>4. /\ at'[s] = "loop" /\ pMsg'[s] = {} /\ m \in Message
      /\ at' \in [Stream -> Place] /\ pMsg' \in [Stream -> SUBSET Message]
  BY <1>1, <1>2 DEF Place
<1>5. queues[s].m_bInitialized /\ FALSE \in BOOLEAN
  BY <1>3 DEF ThreadInv, Orderly, Opened
<1> DEFINE r == PutMessage(queues[s], m, 0, FALSE)
<1>6. Sound(r) /\ SameFlags(r, queues[s]) /\ r.m_prioMessages = queues[s].m_prioMessages
  BY <1>1, <1>4, <1>5, PutPlain, Zenon
<1>7. Msgs(r.m_messages) = Msgs(queues[s].m_messages) \union {m}
  BY <1>1, <1>4, <1>5, PutPlain, Zenon
<1>8. Order(r.m_messages) \subseteq
        Order(queues[s].m_messages) \union (Msgs(queues[s].m_messages) \X {m})
  BY <1>1, <1>4, <1>5, PutPlain
<1>9. queues'[s] = r /\ queues' = [queues EXCEPT ![s] = r]
  BY <1>1, <1>3
<1> HIDE DEF r
<1>10. /\ Opened(s)' = Opened(s) /\ Urgent(s)' = Urgent(s)
       /\ UrgentOrder(s)' = UrgentOrder(s)
       /\ Main(s)' = Main(s) \union {m}
       /\ MainOrder(s)' \subseteq MainOrder(s) \union (Main(s) \X {m})
  BY <1>6, <1>7, <1>8, <1>9
     DEF SameFlags, Opened, Main, MainOrder, Urgent, UrgentOrder
<1>11. ThreadStep(s)
  <2>1. \A t \in Stream \ {s} :
          queues'[t] = queues[t] /\ at'[t] = at[t] /\ pMsg'[t] = pMsg[t]
    BY <1>1, <1>2, <1>9
  <2> QED
    BY <1>2, <1>3, <2>1, Elsewhere
<1>12. PutsBack(s)
  BY <1>2, <1>3, <1>4, <1>10, <1>11 DEF PutsBack, CodecSame
<1>13. StreamTypes'
  BY <1>1, <1>2, <1>4, <1>6, <1>9, TypesStep
<1> QED
  BY <1>12, <1>13

\* Every step of a stream player's thread is one of these.
LEMMA ThreadEffect ==
  ASSUME StreamTypes, ThreadInv, NEW s \in Stream, Process(s)
  PROVE  /\ \/ Idles(s) \/ Takes(s) \/ SendsAgain(s) \/ Answers(s)
            \/ Returns(s) \/ Flushes(s) \/ Consumes(s) \/ PutsBack(s)
         /\ StreamTypes'
<1>1. CASE Get(s)
  <2>1. PICK p \in {0, 1} :
          TakeMessage(s, p) \/ WaitForMessage(s, p) \/ GetAtOnce(s, p) \/ GetFails(s)
    <3>1. 0 \in {0, 1}
      OBVIOUS
    <3> QED
      BY <1>1, <3>1 DEF Get
  <2>2. at[s] = "loop"
        /\ UNCHANGED <<unsent, sentIn, playerVars, syncVars, codec, m_packets, flushed>>
    BY <1>1 DEF Get
  <2> QED
    BY <2>1, <2>2, PollEffect
<1>2. CASE GetAgain(s)
  <2>1. priority[s] \in {0, 1}
    BY DEF StreamTypes
  <2>2. PICK p \in {0, 1} :
          TakeMessage(s, p) \/ WaitForMessage(s, p) \/ GetAtOnce(s, p) \/ GetFails(s)
    BY <1>2, <2>1 DEF GetAgain
  <2>3. at[s] = "wait"
        /\ UNCHANGED <<unsent, sentIn, playerVars, syncVars, codec, m_packets, flushed>>
    BY <1>2 DEF GetAgain
  <2> QED
    BY <2>2, <2>3, PollEffect
<1> QED
  BY <1>1, <1>2, IdleEffect, AgainEffect, AnswerEffect, ReturnEffect, FlushEffect,
     ConsumeEffect, PutBackEffect DEF Process

-----------------------------------------------------------------------------
(* The steps of the player have these effects, and keep the types.         *)

\* The types of what such a step changes.
LEMMA TypesPlayerStep ==
  ASSUME StreamTypes,
         queues' = [s \in Stream |-> queues'[s]], \A s \in Stream : Sound(queues'[s]),
         at' \in [Stream -> Place], priority' = priority, pMsg' = pMsg,
         codec' \in [Stream -> SUBSET Message],
         m_packets' \in [Stream -> Seq(Messages("packet"))], flushed' = flushed,
         reached' = reached, sources' \in [Message -> SUBSET Answerer],
         unsent' \subseteq Message, epoch' \in 0 .. MaxEpoch,
         sentIn' \in [Message -> 0 .. MaxEpoch],
         player' \in PlayerPlace, closing' \subseteq Stream, waitsFor' \subseteq Message
  PROVE  StreamTypes'
<1>1. queues' \in [Stream -> Queue]
  <2>1. \A s \in Stream : queues'[s] \in Queue
    BY DEF Sound
  <2> QED
    BY <2>1
<1> QED
  BY <1>1 DEF StreamTypes

\* The steps that leave the lists, the threads and the messages.
LEMMA QuietEffect ==
  ASSUME StreamTypes,
         \/ Stop \/ SkipSynchronize \/ Synchronized \/ BeginDrain \/ WaitDrain
         \/ EndDrain \/ Abort \/ StopThread
         \/ \E s \in Stream : CloseStream(s)
         \/ \E m \in Message : Expire(m)
  PROVE  /\ \/ PlayerStays \/ PlayerSkips \/ PlayerSynchronized \/ PlayerCloses
            \/ PlayerDrained
         /\ StreamTypes'
<1>1. /\ queues \in [Stream -> Queue] /\ \A s \in Stream : Sound(queues[s])
      /\ at \in [Stream -> Place] /\ codec \in [Stream -> SUBSET Message]
      /\ m_packets \in [Stream -> Seq(Messages("packet"))]
      /\ sources \in [Message -> SUBSET Answerer] /\ unsent \subseteq Message
      /\ epoch \in 0 .. MaxEpoch /\ sentIn \in [Message -> 0 .. MaxEpoch]
      /\ player \in PlayerPlace /\ closing \subseteq Stream /\ waitsFor \subseteq Message
  BY DEF StreamTypes
<1>2. /\ at' = at /\ priority' = priority /\ pMsg' = pMsg /\ codec' = codec
      /\ m_packets' = m_packets /\ flushed' = flushed /\ unsent' = unsent
      /\ sentIn' = sentIn /\ epoch' = epoch /\ sources' = sources /\ reached' = reached
  BY DEF Stop, SkipSynchronize, Synchronized, BeginDrain, WaitDrain, EndDrain, Abort,
     StopThread, CloseStream, Expire, threadVars, syncVars, playerVars
<1>3. /\ queues' = [s \in Stream |-> queues'[s]]
      /\ \A s \in Stream : \/ queues'[s] = queues[s] \/ queues'[s] = AbortQueue(queues[s])
                           \/ \E b \in BOOLEAN : queues'[s] = [queues[s] EXCEPT !.m_drain = b]
  <2>1. CASE queues' = queues
    BY <1>1, <2>1
  <2>2. CASE \E b \in BOOLEAN : DrainClosing(b)
    BY <1>1, <2>2 DEF DrainClosing
  <2>3. CASE \E s \in closing : queues' = [queues EXCEPT ![s] = AbortQueue(@)]
    BY <1>1, <2>3
  <2>4. queues' = queues \/ BeginDrain \/ EndDrain \/ Abort
    BY DEF Stop, SkipSynchronize, Synchronized, WaitDrain, StopThread, CloseStream,
       Expire
  <2> QED
    BY <2>1, <2>2, <2>3, <2>4 DEF BeginDrain, EndDrain, Abort
<1>4. ASSUME NEW s \in Stream
      PROVE  Sound(queues'[s]) /\ SameData(queues'[s], queues[s])
             /\ queues'[s].m_bInitialized = queues[s].m_bInitialized
  <2>1. CASE queues'[s] = queues[s]
    BY <1>1, <2>1 DEF SameData
  <2>2. CASE queues'[s] = AbortQueue(queues[s])
    <3> DEFINE r == AbortQueue(queues[s])
    <3>1. TRUE \in BOOLEAN
      OBVIOUS
    <3>2. /\ Sound(r) /\ SameData(r, queues[s])
          /\ r.m_bInitialized = queues[s].m_bInitialized
      BY <1>1, <3>1, FlagSound, Zenon
    <3> HIDE DEF r
    <3>3. queues'[s] = r
      BY <2>2 DEF r
    <3> QED
      BY <3>2, <3>3
  <2>3. ASSUME NEW b \in BOOLEAN, queues'[s] = [queues[s] EXCEPT !.m_drain = b]
        PROVE  Sound(queues'[s]) /\ SameData(queues'[s], queues[s])
               /\ queues'[s].m_bInitialized = queues[s].m_bInitialized
    <3> DEFINE r == [queues[s] EXCEPT !.m_drain = b]
    <3>1. Sound(queues[s])
      BY <1>1
    <3>2. Sound(r) /\ SameData(r, queues[s])
      BY <3>1, FlagSound, Zenon
    <3>3. r.m_bInitialized = queues[s].m_bInitialized
      BY <3>1, FlagSound, Zenon
    <3> HIDE DEF r
    <3>4. queues'[s] = r
      BY <2>3 DEF r
    <3> QED
      BY <3>2, <3>3, <3>4
  <2> QED
    BY <1>3, <2>1, <2>2, <2>3
<1>5. StreamsSame
  <2>1. \A s \in Stream : QueueSame(s)
    BY <1>4, ListsSame DEF SameData
  <2> QED
    BY <1>2, <2>1 DEF StreamsSame, ThreadSame, CodecSame
<1>6. /\ \/ PlayerStays \/ PlayerSkips \/ PlayerSynchronized \/ PlayerCloses
         \/ PlayerDrained
      /\ player' \in PlayerPlace /\ closing' \subseteq Stream /\ waitsFor' \subseteq Message
  <2>1. CASE Stop \/ \E m \in Message : Expire(m)
    <3>1. PlayerStays
      BY <1>5, <2>1 DEF Stop, Expire, PlayerStays, playerVars
    <3> QED
      BY <1>1, <3>1 DEF PlayerStays
  <2>2. CASE SkipSynchronize
    <3>1. PlayerSkips
      BY <1>5, <2>2 DEF SkipSynchronize, PlayerSkips, Step
    <3> QED
      BY <1>1, <3>1 DEF PlayerSkips, PlayerPlace
  <2>3. CASE Synchronized
    <3>1. PlayerSynchronized
      BY <1>5, <2>3 DEF Synchronized, PlayerSynchronized, Step
    <3> QED
      BY <1>1, <3>1 DEF PlayerSynchronized, PlayerPlace
  <2>4. CASE WaitDrain
    <3>1. PlayerDrained
      BY <1>5, <2>4 DEF WaitDrain, PlayerDrained, Step
    <3> QED
      BY <1>1, <3>1 DEF PlayerDrained, PlayerPlace
  <2>5. CASE BeginDrain \/ EndDrain \/ Abort \/ StopThread
             \/ \E s \in Stream : CloseStream(s)
    <3>1. player \notin {"flushAudio", "flushVideo", "flushed", "syncVideo", "wait"}
          /\ player' \in {"abort", "drain", "putDrain", "stopThread", "join"}
          /\ waitsFor' = waitsFor /\ flushEnd' = flushEnd
      BY <2>5 DEF BeginDrain, EndDrain, Abort, StopThread, CloseStream, Step
    <3>2. closing' = closing \/ \E s \in Stream : closing' = {s}
      BY <2>5 DEF BeginDrain, EndDrain, Abort, StopThread, CloseStream
    <3> QED
      BY <1>1, <1>5, <3>1, <3>2 DEF PlayerCloses, PlayerPlace
  <2> QED
    BY <2>1, <2>2, <2>3, <2>4, <2>5
<1>7. StreamTypes'
  BY <1>1, <1>2, <1>3, <1>4, <1>6, TypesPlayerStep
<1> QED
  BY <1>6, <1>7

\* What a step of the player does to one queue only.
LEMMA OneQueue ==
  ASSUME StreamTypes, NEW s \in Stream, NEW q, Sound(q),
         queues' = [queues EXCEPT ![s] = q],
         at' = at, pMsg' = pMsg, codec' = codec, m_packets' = m_packets,
         flushed' = flushed
  PROVE  /\ queues' = [t \in Stream |-> queues'[t]] /\ queues'[s] = q
         /\ \A t \in Stream : Sound(queues'[t])
         /\ OthersSame(s) /\ ThreadSame(s)
<1>1. queues \in [Stream -> Queue] /\ \A t \in Stream : Sound(queues[t])
  BY DEF StreamTypes
<1>2. \A t \in Stream : queues'[t] = IF t = s THEN q ELSE queues[t]
  BY <1>1
<1>3. \A t \in Stream : Sound(queues'[t])
  BY <1>1, <1>2
<1>4. \A t \in Stream : ThreadSame(t)
  BY DEF ThreadSame, CodecSame
<1>5. \A t \in Stream \ {s} : QueueSame(t)
  BY <1>2, ListsSame
<1> QED
  BY <1>1, <1>2, <1>3, <1>4, <1>5 DEF OthersSame

\* A stream is opened.
LEMMA OpenEffect ==
  ASSUME StreamTypes, NEW s \in Stream, OpenStream(s)
  PROVE  Opens(s) /\ StreamTypes'
<1>1. /\ queues \in [Stream -> Queue] /\ \A t \in Stream : Sound(queues[t])
      /\ at \in [Stream -> Place] /\ codec \in [Stream -> SUBSET Message]
      /\ m_packets \in [Stream -> Seq(Messages("packet"))]
      /\ sources \in [Message -> SUBSET Answerer] /\ unsent \subseteq Message
      /\ epoch \in 0 .. MaxEpoch /\ sentIn \in [Message -> 0 .. MaxEpoch]
      /\ player \in PlayerPlace /\ closing \subseteq Stream /\ waitsFor \subseteq Message
  BY DEF StreamTypes
<1> DEFINE r == InitQueue(queues[s])
<1>2. /\ player = "run" /\ ~queues[s].m_bInitialized
      /\ queues' = [queues EXCEPT ![s] = r] /\ at' = [at EXCEPT ![s] = "loop"]
      /\ codec' = [codec EXCEPT ![s] = {}] /\ m_packets' = [m_packets EXCEPT ![s] = <<>>]
      /\ UNCHANGED <<unsent, sentIn, playerVars, syncVars, priority, pMsg, flushed>>
  BY DEF OpenStream
<1>3. Sound(r) /\ r.m_bInitialized
      /\ r.m_messages = queues[s].m_messages /\ r.m_prioMessages = queues[s].m_prioMessages
  <2>1. TRUE \in BOOLEAN
    OBVIOUS
  <2> QED
    BY <1>1, <1>2, <2>1, FlagSound, Zenon
<1> HIDE DEF r
<1>4. /\ \A t \in Stream : Sound(queues'[t]) /\ queues'[s] = r
      /\ \A t \in Stream \ {s} : queues'[t] = queues[t]
      /\ queues' = [t \in Stream |-> queues'[t]]
  <2>1. \A t \in Stream : queues'[t] = IF t = s THEN r ELSE queues[t]
    BY <1>1, <1>2
  <2> QED
    BY <1>1, <1>2, <1>3, <2>1
<1>5. OthersSame(s)
  <2>1. \A t \in Stream \ {s} : QueueSame(t)
    BY <1>4, ListsSame
  <2> QED
    BY <1>1, <1>2, <2>1 DEF OthersSame, ThreadSame, CodecSame
<1>6. /\ Main(s)' = Main(s) /\ MainOrder(s)' = MainOrder(s)
      /\ Urgent(s)' = Urgent(s) /\ UrgentOrder(s)' = UrgentOrder(s)
      /\ ~Opened(s) /\ Opened(s)'
  BY <1>2, <1>3, <1>4 DEF Main, MainOrder, Urgent, UrgentOrder, Opened
<1>7. at'[s] = "loop" /\ codec'[s] = {} /\ m_packets'[s] = <<>>
  BY <1>1, <1>2
<1>8. PlayerSame /\ reached' = reached
  BY <1>2 DEF PlayerSame, playerVars, syncVars
<1>9. Opens(s)
  BY <1>2, <1>5, <1>6, <1>7, <1>8 DEF Opens
<1>10. /\ at' \in [Stream -> Place] /\ codec' \in [Stream -> SUBSET Message]
       /\ m_packets' \in [Stream -> Seq(Messages("packet"))]
  BY <1>1, <1>2 DEF Place
<1>11. StreamTypes'
  BY <1>1, <1>2, <1>4, <1>8, <1>10, TypesPlayerStep DEF PlayerSame
<1> QED
  BY <1>9, <1>11

\* A message is put with priority 1.
LEMMA PutUrgentEffect ==
  ASSUME StreamTypes, NEW s \in Stream, NEW m \in Message,
         queues' = [queues EXCEPT ![s] = Put(queues[s], m, 1)],
         threadVars' = threadVars, reached' = reached, epoch' = epoch,
         closing' = closing, flushEnd' = flushEnd
  PROVE  /\ PutsUrgent(s, m)
         /\ queues' = [t \in Stream |-> queues'[t]]
         /\ \A t \in Stream : Sound(queues'[t])
<1> DEFINE q == queues[s]
           r == Put(queues[s], m, 1)
<1>1. queues \in [Stream -> Queue] /\ Sound(q) /\ 1 \in {1, 10}
  BY DEF StreamTypes
<1>2. /\ Sound(r) /\ SameFlags(r, q) /\ r.m_messages = q.m_messages
      /\ \/ ~q.m_bInitialized /\ r = q
         \/ /\ q.m_bInitialized
            /\ Msgs(r.m_prioMessages) = Msgs(q.m_prioMessages) \union {m}
            /\ Order(r.m_prioMessages) \subseteq
                 Order(q.m_prioMessages) \union ({m} \X Msgs(q.m_prioMessages))
  <2>1. CASE ~q.m_bInitialized
    <3>1. r = q
      BY <2>1, PutRefused
    <3> QED
      BY <1>1, <2>1, <3>1 DEF SameFlags
  <2>2. CASE q.m_bInitialized
    <3>1. Sound(r) /\ SameFlags(r, q) /\ r.m_messages = q.m_messages
      BY <1>1, <2>2, PutUrgent, Zenon
    <3>2. Msgs(r.m_prioMessages) = Msgs(q.m_prioMessages) \union {m}
      BY <1>1, <2>2, PutUrgent, Zenon
    <3>3. Order(r.m_prioMessages) \subseteq
            Order(q.m_prioMessages) \union ({m} \X Msgs(q.m_prioMessages))
      BY <1>1, <2>2, PutUrgent, Zenon
    <3> HIDE DEF q, r
    <3> QED
      BY <2>2, <3>1, <3>2, <3>3
  <2> QED
    BY <2>1, <2>2
<1>3. /\ at' = at /\ pMsg' = pMsg /\ codec' = codec /\ m_packets' = m_packets
      /\ flushed' = flushed
  BY DEF threadVars
<1>4. queues' = [queues EXCEPT ![s] = r]
  OBVIOUS
<1> HIDE DEF r
<1>5. /\ queues' = [t \in Stream |-> queues'[t]] /\ queues'[s] = r
      /\ \A t \in Stream : Sound(queues'[t])
      /\ OthersSame(s) /\ ThreadSame(s)
  BY <1>2, <1>3, <1>4, OneQueue
<1>6. /\ Opened(s)' = Opened(s) /\ Main(s)' = Main(s) /\ MainOrder(s)' = MainOrder(s)
  BY <1>2, <1>5 DEF SameFlags, Opened, Main, MainOrder
<1>7. \/ ~Opened(s) /\ Urgent(s)' = Urgent(s) /\ UrgentOrder(s)' = UrgentOrder(s)
      \/ /\ Opened(s)
         /\ Urgent(s)' = Urgent(s) \union {m}
         /\ UrgentOrder(s)' \subseteq UrgentOrder(s) \union ({m} \X Urgent(s))
  BY <1>2, <1>5 DEF Opened, Urgent, UrgentOrder
<1> QED
  BY <1>5, <1>6, <1>7 DEF PutsUrgent, Puts

\* A message is put with priority 0.
LEMMA PutMainEffect ==
  ASSUME StreamTypes, NEW s \in Stream, NEW m \in Message,
         queues' = [queues EXCEPT ![s] = Put(queues[s], m, 0)],
         threadVars' = threadVars, reached' = reached, epoch' = epoch,
         closing' = closing, flushEnd' = flushEnd
  PROVE  /\ PutsMain(s, m)
         /\ queues' = [t \in Stream |-> queues'[t]]
         /\ \A t \in Stream : Sound(queues'[t])
<1> DEFINE q == queues[s]
           r == PutMessage(queues[s], m, 0, TRUE)
<1>1. queues \in [Stream -> Queue] /\ Sound(q) /\ TRUE \in BOOLEAN
  BY DEF StreamTypes
<1>2. /\ Sound(r) /\ SameFlags(r, q) /\ r.m_prioMessages = q.m_prioMessages
      /\ \/ r.m_messages = q.m_messages
         \/ /\ Msgs(r.m_messages) = Msgs(q.m_messages) \union {m}
            /\ Order(r.m_messages) \subseteq
                 Order(q.m_messages) \union ({m} \X Msgs(q.m_messages))
  <2>1. CASE ~q.m_bInitialized
    <3>1. r = q
      BY <2>1, PutRefused DEF Put
    <3> QED
      BY <1>1, <2>1, <3>1 DEF SameFlags
  <2>2. CASE q.m_bInitialized
    <3>1. Sound(r) /\ SameFlags(r, q) /\ r.m_prioMessages = q.m_prioMessages
      BY <1>1, <2>2, PutPlain, Zenon
    <3>2. Msgs(r.m_messages) = Msgs(q.m_messages) \union {m}
      BY <1>1, <2>2, PutPlain, Zenon
    <3>3. Order(r.m_messages) \subseteq
            Order(q.m_messages) \union ({m} \X Msgs(q.m_messages))
      BY <1>1, <2>2, PutPlain
    <3> HIDE DEF q, r
    <3> QED
      BY <2>2, <3>1, <3>2, <3>3
  <2> QED
    BY <2>1, <2>2
<1>3. /\ at' = at /\ pMsg' = pMsg /\ codec' = codec /\ m_packets' = m_packets
      /\ flushed' = flushed
  BY DEF threadVars
<1>4. queues' = [queues EXCEPT ![s] = r]
  BY DEF Put
<1> HIDE DEF r
<1>5. /\ queues' = [t \in Stream |-> queues'[t]] /\ queues'[s] = r
      /\ \A t \in Stream : Sound(queues'[t])
      /\ OthersSame(s) /\ ThreadSame(s)
  BY <1>2, <1>3, <1>4, OneQueue
<1>6. /\ Opened(s)' = Opened(s) /\ Urgent(s)' = Urgent(s)
      /\ UrgentOrder(s)' = UrgentOrder(s)
  BY <1>2, <1>5 DEF SameFlags, Opened, Urgent, UrgentOrder
<1>7. \/ Main(s)' = Main(s) /\ MainOrder(s)' = MainOrder(s)
      \/ /\ Main(s)' = Main(s) \union {m}
         /\ MainOrder(s)' \subseteq MainOrder(s) \union ({m} \X Main(s))
  BY <1>2, <1>5 DEF Main, MainOrder
<1> QED
  BY <1>5, <1>6, <1>7 DEF PutsMain, Puts

\* The types of what the sending of a message changes.
LEMMA TypesSendStep ==
  ASSUME StreamTypes, threadVars' = threadVars, reached' = reached, epoch' = epoch,
         closing' = closing,
         queues' = [t \in Stream |-> queues'[t]],
         \A t \in Stream : Sound(queues'[t]),
         sources' \in [Message -> SUBSET Answerer], NEW m \in Message,
         New(m) \/ (unsent' = unsent /\ sentIn' = sentIn),
         player' \in PlayerPlace, waitsFor' = {m} \/ waitsFor' = waitsFor
  PROVE  StreamTypes'
<1>1. /\ at \in [Stream -> Place] /\ codec \in [Stream -> SUBSET Message]
      /\ m_packets \in [Stream -> Seq(Messages("packet"))] /\ unsent \subseteq Message
      /\ epoch \in 0 .. MaxEpoch /\ sentIn \in [Message -> 0 .. MaxEpoch]
      /\ closing \subseteq Stream /\ waitsFor \subseteq Message
  BY DEF StreamTypes
<1>2. /\ at' = at /\ priority' = priority /\ pMsg' = pMsg /\ codec' = codec
      /\ m_packets' = m_packets /\ flushed' = flushed
  BY DEF threadVars
<1>3. unsent' \subseteq Message /\ sentIn' \in [Message -> 0 .. MaxEpoch]
  BY <1>1 DEF New
<1>4. waitsFor' \subseteq Message
  BY <1>1
<1> QED
  BY <1>1, <1>2, <1>3, <1>4, TypesPlayerStep

\* The messages that the player sends.
LEMMA SendEffect ==
  ASSUME StreamTypes,
         \/ \E s \in Stream, m \in Message : SendPacket(s, m)
         \/ FlushAudio \/ FlushVideo \/ SynchronizeAudio \/ SynchronizeVideo \/ PutDrain
  PROVE  /\ \E m \in Message :
              \/ \E s \in Stream : SendsPacket(s, m) \/ SendsFlush(s, m) \/ SendsDrain(s, m)
              \/ SendsBarrier(m) \/ SendsBarrierAgain(m)
         /\ StreamTypes'
<1>1. /\ sources \in [Message -> SUBSET Answerer] /\ waitsFor \subseteq Message
      /\ closing \subseteq Stream /\ player \in PlayerPlace
      /\ "audio" \in Stream /\ "video" \in Stream /\ Stream \subseteq Answerer
      /\ AnySource \in Answerer
  BY DEF StreamTypes, Stream, Answerer
<1>2. ASSUME NEW s \in Stream, NEW m \in Message, SendPacket(s, m)
      PROVE  SendsPacket(s, m) /\ StreamTypes'
  <2>1. /\ queues' = [queues EXCEPT ![s] = Put(queues[s], m, 0)] /\ New(m) /\ IsPacket(m)
        /\ player = "run" /\ UNCHANGED <<playerVars, syncVars, threadVars>>
    BY <1>2 DEF SendPacket, Send, New, Messages, IsPacket
  <2>2. /\ reached' = reached /\ epoch' = epoch /\ closing' = closing
        /\ flushEnd' = flushEnd /\ threadVars' = threadVars /\ player' = player
        /\ waitsFor' = waitsFor /\ sources' = sources
    BY <2>1 DEF playerVars, syncVars
  <2>3. /\ PutsMain(s, m) /\ queues' = [t \in Stream |-> queues'[t]]
        /\ \A t \in Stream : Sound(queues'[t])
    BY <2>1, <2>2, PutMainEffect
  <2>4. SendsPacket(s, m)
    BY <2>1, <2>2, <2>3 DEF SendsPacket
  <2> QED
    BY <1>1, <2>1, <2>2, <2>3, <2>4, TypesSendStep
<1>3. ASSUME NEW s \in Stream, NEW from, NEW to \in PlayerPlace, SendFlush(s, from, to),
             \/ s = "audio" /\ from = "flushAudio" /\ to = "flushVideo"
             \/ s = "video" /\ from = "flushVideo" /\ to = "flushed"
      PROVE  (\E m \in Message : SendsFlush(s, m)) /\ StreamTypes'
  <2>1. PICK m \in Message : /\ New(m) /\ IsFlush(m)
                             /\ queues' = [queues EXCEPT ![s] = Put(queues[s], m, 1)]
    BY <1>3 DEF SendFlush, Send, New, Messages, IsFlush
  <2>2. /\ reached' = reached /\ epoch' = epoch /\ closing' = closing
        /\ flushEnd' = flushEnd /\ threadVars' = threadVars /\ player = from
        /\ player' = to /\ waitsFor' = waitsFor /\ sources' = sources
    BY <1>3 DEF SendFlush, Step, syncVars
  <2>3. /\ PutsUrgent(s, m) /\ queues' = [t \in Stream |-> queues'[t]]
        /\ \A t \in Stream : Sound(queues'[t])
    BY <2>1, <2>2, PutUrgentEffect
  <2>4. SendsFlush(s, m)
    BY <1>3, <2>1, <2>2, <2>3 DEF SendsFlush
  <2> QED
    BY <1>1, <2>1, <2>2, <2>3, <2>4, TypesSendStep
<1>4. CASE FlushAudio \/ FlushVideo
  <2>1. "flushVideo" \in PlayerPlace /\ "flushed" \in PlayerPlace
    BY DEF PlayerPlace
  <2> QED
    BY <1>1, <1>3, <1>4, <2>1 DEF FlushAudio, FlushVideo
<1>5. CASE SynchronizeAudio
  <2>1. PICK m \in Message :
          /\ New(m) /\ IsSync(m) /\ waitsFor' = {m}
          /\ queues' = [queues EXCEPT !["audio"] = Put(queues["audio"], m, 1)]
          /\ sources' = [sources EXCEPT ![m] = Stream]
    BY <1>5 DEF SynchronizeAudio, Send, New, Messages, IsSync
  <2>2. /\ reached' = reached /\ epoch' = epoch /\ closing' = closing
        /\ flushEnd' = flushEnd /\ threadVars' = threadVars /\ player = "flushed"
        /\ player' = "syncVideo"
    BY <1>5 DEF SynchronizeAudio, Step
  <2>3. /\ PutsUrgent("audio", m) /\ queues' = [t \in Stream |-> queues'[t]]
        /\ \A t \in Stream : Sound(queues'[t])
    BY <1>1, <2>1, <2>2, PutUrgentEffect
  <2>4. SendsBarrier(m)
    BY <2>1, <2>2, <2>3 DEF SendsBarrier
  <2>5. player' \in PlayerPlace /\ sources' \in [Message -> SUBSET Answerer]
    BY <1>1, <2>1, <2>2 DEF PlayerPlace
  <2> QED
    BY <1>1, <2>1, <2>2, <2>3, <2>4, <2>5, TypesSendStep
<1>6. CASE SynchronizeVideo
  <2>1. PICK m \in Message :
          /\ m \in waitsFor
          /\ queues' = [queues EXCEPT !["video"] = Put(queues["video"], m, 1)]
    BY <1>1, <1>6 DEF SynchronizeVideo
  <2>2. /\ reached' = reached /\ epoch' = epoch /\ closing' = closing
        /\ flushEnd' = flushEnd /\ threadVars' = threadVars /\ player = "syncVideo"
        /\ player' = "wait" /\ waitsFor' = waitsFor /\ unsent' = unsent
        /\ sentIn' = sentIn /\ sources' = sources
    BY <1>6 DEF SynchronizeVideo, Step, syncVars
  <2>3. /\ PutsUrgent("video", m) /\ queues' = [t \in Stream |-> queues'[t]]
        /\ \A t \in Stream : Sound(queues'[t])
    BY <1>1, <2>1, <2>2, PutUrgentEffect
  <2>4. SendsBarrierAgain(m)
    BY <2>1, <2>2, <2>3 DEF SendsBarrierAgain
  <2>5. player' \in PlayerPlace /\ sources' \in [Message -> SUBSET Answerer]
    BY <1>1, <2>2 DEF PlayerPlace
  <2> QED
    BY <1>1, <2>1, <2>2, <2>3, <2>4, <2>5, TypesSendStep
<1>7. CASE PutDrain
  <2>1. PICK m \in Message, s \in Stream :
          /\ New(m) /\ IsSync(m) /\ waitsFor' = {m} /\ s \in closing
          /\ queues' = [queues EXCEPT ![s] = Put(queues[s], m, 0)]
          /\ sources' = [sources EXCEPT ![m] = {AnySource}]
    BY <1>1, <1>7 DEF PutDrain, Send, New, Messages, IsSync
  <2>2. /\ reached' = reached /\ epoch' = epoch /\ closing' = closing
        /\ flushEnd' = flushEnd /\ threadVars' = threadVars /\ player = "putDrain"
        /\ player' = "waitDrain"
    BY <1>7 DEF PutDrain, Step
  <2>3. /\ PutsMain(s, m) /\ queues' = [t \in Stream |-> queues'[t]]
        /\ \A t \in Stream : Sound(queues'[t])
    BY <1>1, <2>1, <2>2, PutMainEffect
  <2>4. SendsDrain(s, m)
    BY <2>1, <2>2, <2>3 DEF SendsDrain
  <2>5. player' \in PlayerPlace /\ sources' \in [Message -> SUBSET Answerer]
    BY <1>1, <2>1, <2>2 DEF PlayerPlace
  <2> QED
    BY <1>1, <2>1, <2>2, <2>3, <2>4, <2>5, TypesSendStep
<1> QED
  BY <1>2, <1>4, <1>5, <1>6, <1>7

\* FlushBuffers begins.
LEMMA BeginEffect ==
  ASSUME StreamTypes, FlushAudioQueue
  PROVE  BeginsFlush /\ StreamTypes'
<1> DEFINE r == FlushType(queues["audio"], "packet")
<1>1. /\ queues \in [Stream -> Queue] /\ Sound(queues["audio"]) /\ "audio" \in Stream
      /\ at \in [Stream -> Place] /\ codec \in [Stream -> SUBSET Message]
      /\ m_packets \in [Stream -> Seq(Messages("packet"))]
      /\ sources \in [Message -> SUBSET Answerer] /\ unsent \subseteq Message
      /\ epoch \in 0 .. MaxEpoch /\ sentIn \in [Message -> 0 .. MaxEpoch]
      /\ closing \subseteq Stream /\ waitsFor \subseteq Message
  BY DEF StreamTypes, Stream
<1>2. /\ player = "run" /\ player' = "flushAudio" /\ epoch < MaxEpoch
      /\ epoch' = epoch + 1 /\ flushEnd' = "none" /\ queues' = [queues EXCEPT !["audio"] = r]
      /\ UNCHANGED <<unsent, sentIn, closing, waitsFor, syncVars, threadVars>>
  BY DEF FlushAudioQueue, Step
<1>3. /\ reached' = reached /\ sources' = sources /\ at' = at /\ priority' = priority
      /\ pMsg' = pMsg /\ codec' = codec /\ m_packets' = m_packets /\ flushed' = flushed
  BY <1>2 DEF syncVars, threadVars
<1>4. Sound(r)
  BY <1>1, FlushSound, Zenon
<1>5. queues'["audio"] = r
  BY <1>1, <1>2
<1>6. LosesPackets("audio")
  BY <1>1, <1>5, PacketsLost
<1> HIDE DEF r
<1>7. /\ queues' = [t \in Stream |-> queues'[t]] /\ \A t \in Stream : Sound(queues'[t])
      /\ OthersSame("audio") /\ ThreadSame("audio")
  BY <1>1, <1>2, <1>3, <1>4, OneQueue
<1>8. BeginsFlush
  BY <1>2, <1>3, <1>6, <1>7 DEF BeginsFlush
<1>9. epoch' \in 0 .. MaxEpoch /\ player' \in PlayerPlace
  BY <1>1, <1>2, StreamAssumption DEF PlayerPlace
<1>10. StreamTypes'
  BY <1>1, <1>2, <1>3, <1>7, <1>9, TypesPlayerStep
<1> QED
  BY <1>8, <1>10

\* A stream is closed.
LEMMA EndEffect ==
  ASSUME StreamTypes, End
  PROVE  (\E s \in Stream : Ends(s)) /\ StreamTypes'
<1>1. /\ queues \in [Stream -> Queue] /\ \A t \in Stream : Sound(queues[t])
      /\ at \in [Stream -> Place] /\ codec \in [Stream -> SUBSET Message]
      /\ m_packets \in [Stream -> Seq(Messages("packet"))]
      /\ sources \in [Message -> SUBSET Answerer] /\ unsent \subseteq Message
      /\ epoch \in 0 .. MaxEpoch /\ sentIn \in [Message -> 0 .. MaxEpoch]
      /\ closing \subseteq Stream /\ waitsFor \subseteq Message
  BY DEF StreamTypes
<1>2. PICK s \in Stream :
        /\ at[s] = "none" /\ queues' = [queues EXCEPT ![s] = EndQueue(queues[s])]
        /\ codec' = [codec EXCEPT ![s] = {}]
  BY <1>1 DEF End
<1>3. /\ player = "join" /\ player' = "run" /\ closing' = {}
      /\ unsent' = unsent /\ sentIn' = sentIn /\ epoch' = epoch /\ waitsFor' = waitsFor
      /\ flushEnd' = flushEnd /\ sources' = sources /\ reached' = reached
      /\ at' = at /\ priority' = priority /\ pMsg' = pMsg /\ m_packets' = m_packets
      /\ flushed' = flushed
  BY DEF End, Step, syncVars
<1> DEFINE r == EndQueue(queues[s])
<1>4. Sound(r) /\ ~r.m_bInitialized /\ r.m_messages = <<>> /\ r.m_prioMessages = <<>>
  <2>1. Sound(queues[s]) /\ TRUE \in BOOLEAN
    BY <1>1
  <2> QED
    BY <2>1, FlagSound, Zenon
<1> HIDE DEF r
<1>5. /\ \A t \in Stream : Sound(queues'[t]) /\ queues'[s] = r
      /\ \A t \in Stream \ {s} : queues'[t] = queues[t]
      /\ queues' = [t \in Stream |-> queues'[t]]
  <2>1. \A t \in Stream : queues'[t] = IF t = s THEN r ELSE queues[t]
    BY <1>1, <1>2 DEF r
  <2> QED
    BY <1>1, <1>2, <1>4, <2>1
<1>6. OthersSame(s)
  <2>1. \A t \in Stream \ {s} : QueueSame(t)
    BY <1>5, ListsSame
  <2>2. \A t \in Stream \ {s} : codec'[t] = codec[t]
    BY <1>1, <1>2
  <2> QED
    BY <1>3, <2>1, <2>2 DEF OthersSame, ThreadSame, CodecSame
<1>7. Msgs(<<>>) = {} /\ Order(<<>>) = {}
  BY DEF Msgs, Order
<1>8. /\ Main(s)' = {} /\ MainOrder(s)' = {} /\ Urgent(s)' = {} /\ UrgentOrder(s)' = {}
      /\ ~Opened(s)'
  BY <1>4, <1>5, <1>7 DEF Main, MainOrder, Urgent, UrgentOrder, Opened
<1>9. codec'[s] = {} /\ codec' \in [Stream -> SUBSET Message]
  BY <1>1, <1>2
<1>10. Ends(s)
  BY <1>2, <1>3, <1>6, <1>8, <1>9 DEF Ends
<1>11. player' \in PlayerPlace
  BY <1>3 DEF PlayerPlace
<1>12. StreamTypes'
  BY <1>1, <1>3, <1>5, <1>9, <1>11, TypesPlayerStep
<1> QED
  BY <1>10, <1>12

\* What a step of the player can be.
PlayerQuiet ==
  PlayerStays \/ PlayerSkips \/ PlayerSynchronized \/ PlayerCloses \/ PlayerDrained

PlayerSends ==
  \E m \in Message :
    \/ \E s \in Stream : SendsPacket(s, m) \/ SendsFlush(s, m) \/ SendsDrain(s, m)
    \/ SendsBarrier(m) \/ SendsBarrierAgain(m)

ThreadMoves(s) ==
  \/ Idles(s) \/ Takes(s) \/ SendsAgain(s) \/ Answers(s)
  \/ Returns(s) \/ Flushes(s) \/ Consumes(s) \/ PutsBack(s)

StreamMoves ==
  \/ \E s \in Stream : ThreadMoves(s) \/ Opens(s) \/ Ends(s)
  \/ PlayerQuiet \/ PlayerSends \/ BeginsFlush

\* Every step has one of the effects.
LEMMA StepEffect ==
  ASSUME StreamTypes, ThreadInv, StreamNext
  PROVE  StreamMoves /\ StreamTypes'
<1>1. CASE \E s \in Stream : Process(s)
  BY <1>1, ThreadEffect DEF StreamMoves, ThreadMoves
<1>2. CASE \/ \E s \in Stream, m \in Message : SendPacket(s, m)
           \/ FlushAudio \/ FlushVideo \/ SynchronizeAudio \/ SynchronizeVideo \/ PutDrain
  BY <1>2, SendEffect DEF StreamMoves, PlayerSends
<1>3. CASE \/ Stop \/ SkipSynchronize \/ Synchronized \/ BeginDrain \/ WaitDrain
           \/ EndDrain \/ Abort \/ StopThread
           \/ \E s \in Stream : CloseStream(s)
           \/ \E m \in Message : Expire(m)
  BY <1>3, QuietEffect DEF StreamMoves, PlayerQuiet
<1>4. CASE FlushAudioQueue
  BY <1>4, BeginEffect DEF StreamMoves
<1>5. CASE End
  BY <1>5, EndEffect DEF StreamMoves
<1>6. CASE \E s \in Stream : OpenStream(s)
  BY <1>6, OpenEffect DEF StreamMoves
<1> QED
  BY <1>1, <1>2, <1>3, <1>4, <1>5, <1>6
     DEF StreamNext, PlayerCalls, FlushBuffers, CloseSteps, WaitUntilEmpty

-----------------------------------------------------------------------------
(* Every step keeps the invariant.                                         *)

\* Types of messages exclude each other.
LEMMA OneType ==
  ASSUME NEW m
  PROVE  /\ IsSync(m) => ~IsFlush(m) /\ ~IsPacket(m)
         /\ IsFlush(m) => ~IsSync(m) /\ ~IsPacket(m)
         /\ IsPacket(m) => ~IsSync(m) /\ ~IsFlush(m)
BY DEF IsSync, IsFlush, IsPacket

\* Of a stream that stays, all that the invariant says of it stays.
LEMMA StreamStays ==
  ASSUME NEW s, QueueSame(s), ThreadSame(s)
  PROVE  /\ Orderly(s) => Orderly(s)'
         /\ Holding(s)' = Holding(s) /\ Pending(s)' = Pending(s)
<1>1. /\ Main(s)' = Main(s) /\ Urgent(s)' = Urgent(s) /\ Opened(s)' = Opened(s)
      /\ at'[s] = at[s] /\ pMsg'[s] = pMsg[s] /\ codec'[s] = codec[s]
      /\ m_packets'[s] = m_packets[s]
  BY DEF QueueSame, ThreadSame, CodecSame
<1> QED
  BY <1>1 DEF Orderly, Holding, Pending, KeepsNone, IsSync, IsFlush, IsPacket

\* The threads' part.
LEMMA ThreadMovesOrderly ==
  ASSUME NEW s \in Stream, Orderly(s), ThreadMoves(s)
  PROVE  Orderly(s)'
<1>1. at[s] # "none" /\ Opened(s)
  BY DEF ThreadMoves, Idles, Takes, SendsAgain, Answers, Returns, Flushes, Consumes,
         PutsBack, ThreadStep, Orderly
<1>2. CASE Idles(s)
  BY <1>1, <1>2 DEF Idles, QueueSame, CodecSame, Orderly, KeepsNone
<1>3. CASE Takes(s)
  <2>1. PICK x \in Message : pMsg'[s] = {x} /\ (TakesUrgent(s, x) \/ TakesMain(s, x))
    BY <1>3 DEF Takes
  <2>2. Main(s)' \subseteq Main(s) /\ Urgent(s)' \subseteq Urgent(s)
    BY <2>1 DEF TakesUrgent, TakesMain
  <2>3. at'[s] = "handle" /\ Opened(s)' = Opened(s) /\ m_packets'[s] = m_packets[s]
    BY <1>3 DEF Takes, CodecSame
  <2> QED
    BY <1>1, <2>1, <2>2, <2>3 DEF Orderly, KeepsNone
<1>4. CASE SendsAgain(s)
  <2>1. KeepsNone(s) => Urgent(s)' = Urgent(s)
    BY <1>4 DEF SendsAgain, Orderly, QueueSame
  <2>2. /\ at'[s] = "loop" /\ pMsg'[s] = {} /\ m_packets'[s] = <<>>
        /\ Opened(s)' = Opened(s) /\ Main(s)' = Main(s)
    BY <1>4 DEF SendsAgain, Orderly
  <2> QED
    BY <1>1, <2>1, <2>2 DEF Orderly, KeepsNone
<1>5. CASE Answers(s)
  <2>1. /\ at'[s] = "sync" /\ pMsg'[s] = pMsg[s] /\ m_packets'[s] = m_packets[s]
        /\ Opened(s)' = Opened(s) /\ Main(s)' = Main(s) /\ Urgent(s)' = Urgent(s)
        /\ \E m \in pMsg[s] : IsSync(m)
    BY <1>5 DEF Answers, QueueSame, CodecSame
  <2> QED
    BY <1>1, <2>1 DEF Orderly, KeepsNone
<1>6. CASE Returns(s)
  <2>1. /\ at'[s] = "loop" /\ pMsg'[s] = {} /\ m_packets'[s] = m_packets[s]
        /\ Opened(s)' = Opened(s) /\ Main(s)' = Main(s)
        /\ \E m \in pMsg[s] : Urgent(s)' \subseteq Urgent(s) \union {m}
    BY <1>6 DEF Returns, CodecSame
  <2>2. \A m \in pMsg[s] : ~IsPacket(m)
    BY <1>6, OneType DEF Returns, Orderly
  <2> QED
    BY <1>1, <2>1, <2>2 DEF Orderly, KeepsNone
<1>7. CASE Flushes(s)
  <2>1. /\ at'[s] = "loop" /\ pMsg'[s] = {} /\ m_packets'[s] = <<>>
        /\ Opened(s)' = Opened(s) /\ Main(s)' \subseteq Main(s)
        /\ Urgent(s)' \subseteq Urgent(s)
    BY <1>7 DEF Flushes, LosesPackets, QueueSame
  <2> QED
    BY <1>1, <2>1 DEF Orderly, KeepsNone
<1>8. CASE Consumes(s)
  <2>1. /\ at'[s] \in {"decode", "loop"} /\ pMsg'[s] = {}
        /\ KeepsNone(s) => m_packets'[s] = m_packets[s]
        /\ Opened(s)' = Opened(s) /\ Main(s)' = Main(s) /\ Urgent(s)' = Urgent(s)
    BY <1>8 DEF Consumes, QueueSame
  <2> QED
    BY <1>1, <2>1 DEF Orderly, KeepsNone
<1>9. CASE PutsBack(s)
  <2>1. /\ at'[s] = "loop" /\ pMsg'[s] = {} /\ m_packets'[s] = m_packets[s]
        /\ Opened(s)' = Opened(s) /\ Urgent(s)' = Urgent(s)
        /\ \E m \in pMsg[s] : IsPacket(m) /\ Main(s)' = Main(s) \union {m}
    BY <1>9 DEF PutsBack, CodecSame
  <2>2. \A m \in Main(s)' : ~IsFlush(m)
    BY <2>1, OneType DEF Orderly
  <2> QED
    BY <1>1, <2>1, <2>2 DEF Orderly, KeepsNone
<1> QED
  BY <1>2, <1>3, <1>4, <1>5, <1>6, <1>7, <1>8, <1>9 DEF ThreadMoves

\* The other threads and queues stay in their steps.
LEMMA MovesElsewhere ==
  ASSUME NEW s \in Stream, ThreadMoves(s) \/ Opens(s)
  PROVE  PlayerSame /\ OthersSame(s)
BY DEF ThreadMoves, Idles, Takes, SendsAgain, Answers, Returns, Flushes, Consumes,
       PutsBack, ThreadStep, Opens

\* What a message that is put does to its stream.
LEMMA PutsOrderly ==
  ASSUME NEW s \in Stream, Orderly(s), NEW m,
         \/ PutsMain(s, m) /\ ~IsFlush(m)
         \/ PutsUrgent(s, m) /\ ~IsPacket(m)
  PROVE  Orderly(s)'
<1>1. /\ at'[s] = at[s] /\ pMsg'[s] = pMsg[s] /\ m_packets'[s] = m_packets[s]
      /\ Opened(s)' = Opened(s)
  BY DEF PutsMain, PutsUrgent, Puts, ThreadSame, CodecSame
<1>2. \A a \in Main(s)' : ~IsFlush(a)
  BY DEF PutsMain, PutsUrgent, Orderly
<1>3. KeepsNone(s) => \A a \in Urgent(s)' : ~IsPacket(a)
  BY DEF PutsMain, PutsUrgent, Orderly
<1> QED
  BY <1>1, <1>2, <1>3 DEF Orderly, KeepsNone

\* A message that is sent is put into one queue: a flush never as an ordinary
\* message, a packet never as an urgent one.
LEMMA SendsOne ==
  ASSUME BarrierInv, PlayerSends
  PROVE  \E m \in Message, s \in Stream :
           \/ PutsMain(s, m) /\ ~IsFlush(m)
           \/ PutsUrgent(s, m) /\ ~IsPacket(m)
<1>1. PICK m \in Message :
        \/ \E s \in Stream : SendsPacket(s, m) \/ SendsFlush(s, m) \/ SendsDrain(s, m)
        \/ SendsBarrier(m) \/ SendsBarrierAgain(m)
  BY DEF PlayerSends
<1>2. "audio" \in Stream /\ "video" \in Stream
  BY DEF Stream
<1>3. CASE \E s \in Stream : SendsPacket(s, m) \/ SendsFlush(s, m) \/ SendsDrain(s, m)
  BY <1>3, OneType DEF SendsPacket, SendsFlush, SendsDrain
<1>4. CASE SendsBarrier(m)
  BY <1>2, <1>4, OneType DEF SendsBarrier
<1>5. CASE SendsBarrierAgain(m)
  <2>1. IsSync(m)
    BY <1>5 DEF SendsBarrierAgain, BarrierInv
  <2> QED
    BY <1>2, <1>5, <2>1, OneType DEF SendsBarrierAgain
<1> QED
  BY <1>1, <1>3, <1>4, <1>5

\* The threads' part of the invariant.
LEMMA ThreadInvStep ==
  ASSUME StreamTypes, ThreadInv, BarrierInv, StreamMoves
  PROVE  ThreadInv'
<1>1. \A t \in Stream : QueueSame(t) /\ ThreadSame(t) => Orderly(t)'
  BY StreamStays DEF ThreadInv
<1>2. ASSUME NEW s \in Stream, OthersSame(s), Orderly(s)'
      PROVE  \A t \in Stream : Orderly(t)'
  <2>1. \A t \in Stream \ {s} : Orderly(t)'
    BY <1>1, <1>2 DEF OthersSame
  <2> QED
    BY <1>2, <2>1
<1>3. ASSUME NEW s \in Stream, ThreadMoves(s)
      PROVE  ThreadInv'
  <2>1. closing' = closing /\ OthersSame(s)
    BY <1>3, MovesElsewhere DEF PlayerSame
  <2>2. Orderly(s)'
    BY <1>3, ThreadMovesOrderly DEF ThreadInv
  <2> QED
    BY <1>2, <2>1, <2>2 DEF ThreadInv
<1>4. ASSUME NEW s \in Stream, Opens(s)
      PROVE  ThreadInv'
  <2>1. closing' = closing /\ OthersSame(s)
    BY <1>4, MovesElsewhere DEF PlayerSame
  <2>2. Orderly(s) /\ ~Opened(s)
    BY <1>4 DEF ThreadInv, Opens
  <2>3. /\ at'[s] = "loop" /\ pMsg'[s] = {} /\ m_packets'[s] = <<>> /\ Opened(s)'
        /\ Main(s)' = Main(s) /\ Urgent(s)' = Urgent(s)
    BY <1>4, <2>2 DEF Opens, Orderly
  <2>4. Orderly(s)'
    BY <2>2, <2>3 DEF Orderly, KeepsNone
  <2> QED
    BY <1>2, <2>1, <2>4 DEF ThreadInv
<1>5. ASSUME NEW s \in Stream, Ends(s)
      PROVE  ThreadInv'
  <2>1. closing' = {} /\ OthersSame(s) /\ Orderly(s)
    BY <1>5 DEF Ends, ThreadInv
  <2>2. /\ at'[s] = "none" /\ pMsg'[s] = {} /\ m_packets'[s] = m_packets[s]
        /\ Main(s)' = {} /\ Urgent(s)' = {}
    BY <1>5, <2>1 DEF Ends, Orderly
  <2>3. Orderly(s)'
    BY <2>1, <2>2 DEF Orderly, KeepsNone
  <2> QED
    BY <1>2, <2>1, <2>3 DEF ThreadInv
<1>6. CASE PlayerQuiet
  <2>1. StreamsSame
    BY <1>6 DEF PlayerQuiet, PlayerStays, PlayerSkips, PlayerSynchronized, PlayerCloses,
                PlayerDrained
  <2>2. closing' = closing \/ \E s \in Stream : closing' = {s}
    BY <1>6 DEF PlayerQuiet, PlayerStays, PlayerSkips, PlayerSynchronized, PlayerCloses,
                PlayerDrained
  <2>3. \A t \in Stream : Orderly(t)'
    BY <1>1, <2>1 DEF StreamsSame
  <2> QED
    BY <2>2, <2>3 DEF ThreadInv
<1>7. CASE PlayerSends
  <2>1. PICK m \in Message, s \in Stream :
          \/ PutsMain(s, m) /\ ~IsFlush(m)
          \/ PutsUrgent(s, m) /\ ~IsPacket(m)
    BY <1>7, SendsOne
  <2>2. Orderly(s)'
    BY <2>1, PutsOrderly DEF ThreadInv
  <2>3. OthersSame(s) /\ closing' = closing
    BY <2>1 DEF PutsMain, PutsUrgent, Puts
  <2> QED
    BY <1>2, <2>2, <2>3 DEF ThreadInv
<1>8. CASE BeginsFlush
  <2>1. "audio" \in Stream
    BY DEF Stream
  <2>2. /\ at'["audio"] = at["audio"] /\ pMsg'["audio"] = pMsg["audio"]
        /\ m_packets'["audio"] = m_packets["audio"] /\ Opened("audio")' = Opened("audio")
        /\ Main("audio")' \subseteq Main("audio") /\ Urgent("audio")' \subseteq Urgent("audio")
        /\ OthersSame("audio") /\ closing' = closing
    BY <1>8 DEF BeginsFlush, LosesPackets, ThreadSame, CodecSame
  <2>3. Orderly("audio")
    BY <2>1 DEF ThreadInv
  <2>4. Orderly("audio")'
    BY <2>2, <2>3 DEF Orderly, KeepsNone
  <2> QED
    BY <1>2, <2>1, <2>2, <2>4 DEF ThreadInv
<1> QED
  BY <1>3, <1>4, <1>5, <1>6, <1>7, <1>8 DEF StreamMoves

\* A thread's step moves messages only within its stream.
LEMMA ThreadMovesHolding ==
  ASSUME NEW s \in Stream, Orderly(s), ThreadMoves(s)
  PROVE  Holding(s)' \subseteq Holding(s)
<1> DEFINE kept == ToSet(m_packets[s])
           kept1 == ToSet(m_packets'[s])
<1>1. /\ Holding(s) = Main(s) \union Urgent(s) \union pMsg[s] \union codec[s] \union kept
      /\ Holding(s)' = Main(s)' \union Urgent(s)' \union pMsg'[s] \union codec'[s]
                         \union kept1
      /\ m_packets'[s] = m_packets[s] => kept1 = kept
      /\ m_packets'[s] = <<>> => kept1 = {}
  BY DEF Holding, ToSet
<1>2. ThreadMoves(s)
  OBVIOUS
<1>3. ASSUME Idles(s) \/ Answers(s) PROVE Holding(s)' \subseteq Holding(s)
  <2>1. /\ Main(s)' = Main(s) /\ Urgent(s)' = Urgent(s) /\ pMsg'[s] = pMsg[s]
        /\ codec'[s] = codec[s] /\ m_packets'[s] = m_packets[s]
    BY <1>3 DEF Idles, Answers, QueueSame, CodecSame
  <2> QED
    BY <1>1, <2>1
<1>4. ASSUME Takes(s) PROVE Holding(s)' \subseteq Holding(s)
  <2>1. PICK x : pMsg'[s] = {x} /\ (TakesUrgent(s, x) \/ TakesMain(s, x))
    BY <1>4 DEF Takes
  <2>2. Main(s)' \union Urgent(s)' \union {x} \subseteq Main(s) \union Urgent(s)
    BY <2>1 DEF TakesUrgent, TakesMain
  <2>3. codec'[s] = codec[s] /\ m_packets'[s] = m_packets[s]
    BY <1>4 DEF Takes, CodecSame
  <2> QED
    BY <1>1, <2>1, <2>2, <2>3
<1>5. ASSUME SendsAgain(s) PROVE Holding(s)' \subseteq Holding(s)
  <2>1. /\ Main(s)' = Main(s) /\ Urgent(s)' \subseteq Urgent(s) \union kept
        /\ pMsg'[s] = pMsg[s] /\ codec'[s] = {} /\ m_packets'[s] = <<>>
    BY <1>5 DEF SendsAgain
  <2> QED
    BY <1>1, <2>1
<1>6. ASSUME Returns(s) PROVE Holding(s)' \subseteq Holding(s)
  <2>1. /\ Main(s)' = Main(s) /\ Urgent(s)' \subseteq Urgent(s) \union pMsg[s]
        /\ pMsg'[s] = {} /\ codec'[s] = codec[s] /\ m_packets'[s] = m_packets[s]
    BY <1>6 DEF Returns, CodecSame
  <2> QED
    BY <1>1, <2>1
<1>7. ASSUME Flushes(s) PROVE Holding(s)' \subseteq Holding(s)
  <2>1. /\ Main(s)' \subseteq Main(s) /\ Urgent(s)' \subseteq Urgent(s)
        /\ pMsg'[s] = {} /\ codec'[s] = {} /\ m_packets'[s] = <<>>
    BY <1>7 DEF Flushes, LosesPackets, QueueSame
  <2> QED
    BY <1>1, <2>1
<1>8. ASSUME Consumes(s) PROVE Holding(s)' \subseteq Holding(s)
  <2>1. /\ Main(s)' = Main(s) /\ Urgent(s)' = Urgent(s) /\ pMsg'[s] = {}
        /\ codec'[s] \subseteq codec[s] \union pMsg[s]
        /\ kept1 \subseteq kept \union pMsg[s]
    BY <1>8 DEF Consumes, QueueSame
  <2> QED
    BY <1>1, <2>1
<1>9. ASSUME PutsBack(s) PROVE Holding(s)' \subseteq Holding(s)
  <2>1. /\ Main(s)' \subseteq Main(s) \union pMsg[s] /\ Urgent(s)' = Urgent(s)
        /\ pMsg'[s] = {} /\ codec'[s] = codec[s] /\ m_packets'[s] = m_packets[s]
    BY <1>9 DEF PutsBack, CodecSame
  <2> QED
    BY <1>1, <2>1
<1> HIDE DEF kept, kept1
<1> QED
  BY <1>2, <1>3, <1>4, <1>5, <1>6, <1>7, <1>8, <1>9 DEF ThreadMoves

\* A message that is put is only added to its queue.
LEMMA PutsHolding ==
  ASSUME NEW s \in Stream, NEW m, PutsMain(s, m) \/ PutsUrgent(s, m)
  PROVE  /\ \A t \in Stream : Holding(t)' \subseteq Holding(t) \union {m}
         /\ \A t \in Stream \ {s} : Holding(t)' = Holding(t)
         /\ reached' = reached /\ OthersSame(s) /\ ThreadSame(s) /\ epoch' = epoch
<1>1. /\ OthersSame(s) /\ ThreadSame(s) /\ reached' = reached /\ epoch' = epoch
      /\ Main(s)' \subseteq Main(s) \union {m} /\ Urgent(s)' \subseteq Urgent(s) \union {m}
  BY DEF PutsMain, PutsUrgent, Puts
<1>2. \A t \in Stream \ {s} : Holding(t)' = Holding(t)
  BY <1>1, StreamStays DEF OthersSame
<1>3. Holding(s)' \subseteq Holding(s) \union {m}
  BY <1>1 DEF Holding, ThreadSame, CodecSame
<1> QED
  BY <1>1, <1>2, <1>3

\* What is sent was new, but for the second copy of the barrier.
LEMMA SendsNew ==
  ASSUME PlayerSends
  PROVE  \E m \in Message, s \in Stream :
           /\ PutsMain(s, m) \/ PutsUrgent(s, m)
           /\ \/ New(m) /\ (waitsFor' = waitsFor \/ waitsFor' = {m})
              \/ SendsBarrierAgain(m) /\ s = "video"
<1>1. PICK m \in Message :
        \/ \E s \in Stream : SendsPacket(s, m) \/ SendsFlush(s, m) \/ SendsDrain(s, m)
        \/ SendsBarrier(m) \/ SendsBarrierAgain(m)
  BY DEF PlayerSends
<1>2. "audio" \in Stream /\ "video" \in Stream
  BY DEF Stream
<1>3. CASE \E s \in Stream : SendsPacket(s, m) \/ SendsFlush(s, m) \/ SendsDrain(s, m)
  BY <1>3 DEF SendsPacket, SendsFlush, SendsDrain
<1>4. CASE SendsBarrier(m)
  BY <1>2, <1>4 DEF SendsBarrier
<1>5. CASE SendsBarrierAgain(m)
  BY <1>2, <1>5 DEF SendsBarrierAgain
<1> QED
  BY <1>1, <1>3, <1>4, <1>5

\* The part of the messages that were not sent.
LEMMA UnsentInvStep ==
  ASSUME StreamTypes, ThreadInv, UnsentInv, StreamMoves
  PROVE  UnsentInv'
<1>1. ASSUME unsent' = unsent, reached' = reached, waitsFor' \subseteq waitsFor,
             \A t \in Stream : Holding(t)' \subseteq Holding(t)
      PROVE  UnsentInv'
  BY <1>1 DEF UnsentInv
<1>2. ASSUME NEW s \in Stream, OthersSame(s), Holding(s)' \subseteq Holding(s)
      PROVE  \A t \in Stream : Holding(t)' \subseteq Holding(t)
  <2>1. \A t \in Stream \ {s} : Holding(t)' = Holding(t)
    BY <1>2, StreamStays DEF OthersSame
  <2> QED
    BY <1>2, <2>1
<1>3. ASSUME NEW s \in Stream, ThreadMoves(s)
      PROVE  UnsentInv'
  <2>1. PlayerSame /\ OthersSame(s) /\ Holding(s)' \subseteq Holding(s)
    BY <1>3, MovesElsewhere, ThreadMovesHolding DEF ThreadInv
  <2>2. unsent' = unsent /\ waitsFor' = waitsFor
    BY <2>1 DEF PlayerSame
  <2>3. CASE ~Answers(s)
    <3>1. reached' = reached
      BY <1>3, <2>3 DEF ThreadMoves, Idles, Takes, SendsAgain, Returns, Flushes,
                        Consumes, PutsBack
    <3> QED
      BY <1>1, <1>2, <2>1, <2>2, <3>1
  <2>4. CASE Answers(s)
    <3>1. PICK m \in pMsg[s] : \A n \in Message : n # m => reached'[n] = reached[n]
      BY <2>4 DEF Answers, StreamTypes
    <3>2. m \notin unsent
      BY DEF UnsentInv, Holding
    <3>3. \A n \in unsent : reached'[n] = {}
      BY <3>1, <3>2 DEF UnsentInv, StreamTypes
    <3> QED
      BY <1>2, <2>1, <2>2, <3>3 DEF UnsentInv
  <2> QED
    BY <2>3, <2>4
<1>4. ASSUME NEW s \in Stream, Opens(s) \/ Ends(s)
      PROVE  UnsentInv'
  <2>1. /\ OthersSame(s) /\ unsent' = unsent /\ reached' = reached /\ waitsFor' = waitsFor
        /\ Main(s)' \subseteq Main(s) /\ Urgent(s)' \subseteq Urgent(s)
        /\ pMsg'[s] = pMsg[s] /\ codec'[s] = {}
        /\ m_packets'[s] = m_packets[s] \/ m_packets'[s] = <<>>
    BY <1>4 DEF Opens, Ends, PlayerSame
  <2>2. ToSet(m_packets'[s]) \subseteq ToSet(m_packets[s])
    BY <2>1 DEF ToSet
  <2>3. Holding(s)' \subseteq Holding(s)
    BY <2>1, <2>2 DEF Holding
  <2> QED
    BY <1>1, <1>2, <2>1, <2>3
<1>5. CASE PlayerQuiet
  <2>1. StreamsSame /\ waitsFor' \subseteq waitsFor
    BY <1>5 DEF PlayerQuiet, PlayerStays, PlayerSkips, PlayerSynchronized, PlayerCloses,
                PlayerDrained
  <2>2. \A t \in Stream : Holding(t)' = Holding(t)
    BY <2>1, StreamStays DEF StreamsSame
  <2> QED
    BY <1>1, <2>1, <2>2 DEF StreamsSame
<1>6. CASE PlayerSends
  <2>1. PICK m \in Message, s \in Stream :
          /\ PutsMain(s, m) \/ PutsUrgent(s, m)
          /\ \/ New(m) /\ (waitsFor' = waitsFor \/ waitsFor' = {m})
             \/ SendsBarrierAgain(m) /\ s = "video"
    BY <1>6, SendsNew
  <2>2. reached' = reached /\ \A t \in Stream : Holding(t)' \subseteq Holding(t) \union {m}
    BY <2>1, PutsHolding
  <2>3. CASE New(m) /\ (waitsFor' = waitsFor \/ waitsFor' = {m})
    <3>1. unsent' = unsent \ {m}
      BY <2>3 DEF New
    <3> QED
      BY <2>2, <2>3, <3>1 DEF UnsentInv
  <2>4. CASE SendsBarrierAgain(m)
    <3>1. m \in waitsFor /\ waitsFor' = waitsFor /\ unsent' = unsent
      BY <2>4 DEF SendsBarrierAgain
    <3> QED
      BY <2>2, <3>1 DEF UnsentInv
  <2> QED
    BY <2>1, <2>3, <2>4
<1>7. CASE BeginsFlush
  <2>1. /\ "audio" \in Stream /\ OthersSame("audio") /\ unsent' = unsent
        /\ reached' = reached /\ waitsFor' = waitsFor
        /\ Main("audio")' \subseteq Main("audio") /\ Urgent("audio")' \subseteq Urgent("audio")
        /\ ThreadSame("audio")
    BY <1>7 DEF BeginsFlush, LosesPackets, Stream
  <2>2. Holding("audio")' \subseteq Holding("audio")
    BY <2>1 DEF Holding, ThreadSame, CodecSame
  <2> QED
    BY <1>1, <1>2, <2>1, <2>2
<1> QED
  BY <1>3, <1>4, <1>5, <1>6, <1>7 DEF StreamMoves

\* A step of a stream that leaves its flushes where they are, and nothing new before
\* them.
FlushKept(s) ==
  /\ flushed'[s] = flushed[s] /\ Opened(s)' = Opened(s) /\ Pending(s)' = Pending(s)
  /\ pMsg'[s] \subseteq pMsg[s]
  /\ \A a \in Urgent(s)' : IsFlush(a) => a \in Urgent(s)
  /\ \A a, b : <<a, b>> \in UrgentOrder(s)' /\ IsFlush(a) /\ ~IsPacket(b)
               => <<a, b>> \in UrgentOrder(s)

\* All steps of the threads but two are such steps.
LEMMA MovesKeepFlushes ==
  ASSUME NEW s \in Stream, StreamTypes, Orderly(s), ThreadMoves(s), ~Takes(s), ~Flushes(s)
  PROVE  FlushKept(s)
<1>1. CASE Idles(s) \/ Answers(s)
  <2>1. /\ Urgent(s)' = Urgent(s) /\ UrgentOrder(s)' = UrgentOrder(s)
        /\ Opened(s)' = Opened(s) /\ pMsg'[s] = pMsg[s] /\ flushed'[s] = flushed[s]
    BY <1>1 DEF Idles, Answers, QueueSame, CodecSame
  <2> QED
    BY <2>1 DEF FlushKept, Pending, IsFlush
<1>2. CASE SendsAgain(s)
  <2>1. /\ Opened(s)' = Opened(s) /\ pMsg'[s] = pMsg[s] /\ flushed'[s] = flushed[s]
        /\ Urgent(s) \subseteq Urgent(s)'
        /\ Urgent(s)' \subseteq Urgent(s) \union ToSet(m_packets[s])
        /\ \A a, b : <<a, b>> \in UrgentOrder(s)' =>
             IsPacket(a) \/ IsPacket(b) \/ <<a, b>> \in UrgentOrder(s)
    BY <1>2 DEF SendsAgain
  <2>2. \A m \in ToSet(m_packets[s]) : IsPacket(m)
    <3>1. m_packets[s] \in Seq(Messages("packet"))
      BY DEF StreamTypes
    <3>2. ToSet(m_packets[s]) \subseteq Messages("packet")
      BY <3>1, ToSetProperties
    <3> QED
      BY <3>2 DEF Messages, IsPacket
  <2>3. \A m \in Urgent(s)' : IsFlush(m) => m \in Urgent(s)
    BY <2>1, <2>2, OneType
  <2>4. Pending(s)' = Pending(s)
    BY <2>1, <2>3 DEF Pending, IsFlush
  <2> QED
    BY <2>1, <2>3, <2>4, OneType DEF FlushKept
<1>3. CASE Returns(s)
  <2>1. PICK m \in pMsg[s] :
          \/ Urgent(s)' = Urgent(s) /\ UrgentOrder(s)' = UrgentOrder(s)
          \/ /\ Urgent(s)' = Urgent(s) \union {m}
             /\ UrgentOrder(s)' \subseteq UrgentOrder(s) \union ({m} \X Urgent(s))
    BY <1>3 DEF Returns
  <2>2. \A n \in pMsg[s] : ~IsFlush(n)
    BY <1>3, OneType DEF Returns, Orderly
  <2>3. Opened(s)' = Opened(s) /\ pMsg'[s] = {} /\ flushed'[s] = flushed[s]
    BY <1>3 DEF Returns, CodecSame
  <2>4. /\ \A a \in Urgent(s)' : IsFlush(a) => a \in Urgent(s)
        /\ Urgent(s) \subseteq Urgent(s)'
    BY <2>1, <2>2
  <2>5. Pending(s)' = Pending(s)
    BY <2>2, <2>3, <2>4 DEF Pending, IsFlush
  <2>6. \A a, b : <<a, b>> \in UrgentOrder(s)' /\ IsFlush(a) => <<a, b>> \in UrgentOrder(s)
    BY <2>1, <2>2
  <2> QED
    BY <2>3, <2>4, <2>5, <2>6 DEF FlushKept
<1>4. CASE Consumes(s) \/ PutsBack(s)
  <2>1. /\ Urgent(s)' = Urgent(s) /\ UrgentOrder(s)' = UrgentOrder(s)
        /\ Opened(s)' = Opened(s) /\ pMsg'[s] = {} /\ flushed'[s] = flushed[s]
        /\ \E m \in pMsg[s] : IsPacket(m)
    BY <1>4 DEF Consumes, PutsBack, QueueSame, CodecSame
  <2>2. \A m \in pMsg[s] : ~IsFlush(m)
    BY <2>1, OneType DEF Orderly
  <2> QED
    BY <2>1, <2>2 DEF FlushKept, Pending, IsFlush
<1> QED
  BY <1>1, <1>2, <1>3, <1>4 DEF ThreadMoves

\* So are the steps of the player in which a stream stays, loses packets or is sent
\* something else than a flush.
LEMMA PlayerKeepsFlushes ==
  ASSUME NEW s \in Stream, NEW m,
         \/ QueueSame(s) /\ ThreadSame(s)
         \/ LosesPackets(s) /\ ThreadSame(s)
         \/ PutsMain(s, m) \/ (PutsUrgent(s, m) /\ ~IsFlush(m))
  PROVE  FlushKept(s)
<1>1. ThreadSame(s) /\ Opened(s)' = Opened(s)
  BY DEF QueueSame, LosesPackets, PutsMain, PutsUrgent, Puts
<1>2. pMsg'[s] = pMsg[s] /\ flushed'[s] = flushed[s]
  BY <1>1 DEF ThreadSame, CodecSame
<1>3. \A a : IsFlush(a) => (a \in Urgent(s)' <=> a \in Urgent(s))
  BY OneType DEF QueueSame, LosesPackets, PutsMain, PutsUrgent
<1>4. \A a, b : <<a, b>> \in UrgentOrder(s)' /\ IsFlush(a) => <<a, b>> \in UrgentOrder(s)
  BY DEF QueueSame, LosesPackets, PutsMain, PutsUrgent
<1>5. Pending(s)' = Pending(s)
  BY <1>2, <1>3 DEF Pending, IsFlush
<1> QED
  BY <1>1, <1>2, <1>3, <1>4, <1>5 DEF FlushKept

\* A message that is taken is one of the flushes to be handled, or none.
LEMMA TakesPending ==
  ASSUME NEW s \in Stream, Orderly(s), Takes(s)
  PROVE  Pending(s)' = Pending(s)
<1>1. PICK x : pMsg'[s] = {x} /\ (TakesUrgent(s, x) \/ TakesMain(s, x))
  BY DEF Takes
<1>2. pMsg[s] = {}
  BY DEF Takes, Orderly
<1>3. CASE TakesUrgent(s, x)
  BY <1>1, <1>2, <1>3 DEF TakesUrgent, Pending, IsFlush
<1>4. CASE TakesMain(s, x)
  <2>1. ~IsFlush(x) /\ Urgent(s) = {} /\ Urgent(s)' = {}
    BY <1>4 DEF TakesMain, Orderly
  <2> QED
    BY <1>1, <1>2, <2>1 DEF Pending, IsFlush
<1> QED
  BY <1>1, <1>3, <1>4

\* The order of the flushes of a stream.
LEMMA KeptInTurn ==
  ASSUME NEW s \in Stream, StreamTypes, InTurn(s), FlushKept(s), epoch' \in Nat,
         epoch <= epoch', \A m \in Holding(s) : sentIn'[m] = sentIn[m]
  PROVE  InTurn(s)'
<1>1. /\ flushed'[s] = flushed[s] /\ Pending(s)' = Pending(s)
      /\ pMsg'[s] \subseteq pMsg[s]
      /\ \A a \in Urgent(s)' : IsFlush(a) => a \in Urgent(s)
      /\ \A a, b : <<a, b>> \in UrgentOrder(s)' /\ IsFlush(a) /\ IsFlush(b)
                   => <<a, b>> \in UrgentOrder(s)
  BY OneType DEF FlushKept
<1>2. /\ \A m \in Pending(s) : sentIn'[m] = sentIn[m]
      /\ \A m \in pMsg[s] : sentIn'[m] = sentIn[m]
      /\ \A m \in Urgent(s) : sentIn'[m] = sentIn[m]
  BY DEF Pending, Holding
<1>3. \A a, b : <<a, b>> \in UrgentOrder(s) => a \in Urgent(s) /\ b \in Urgent(s)
  BY OrderMembers DEF UrgentOrder, Urgent, Msgs
<1>4. flushed'[s] <= epoch'
  BY <1>1 DEF InTurn, StreamTypes
<1>5. \A m \in Pending(s)' : flushed'[s] <= sentIn'[m]
  BY <1>1, <1>2 DEF InTurn
<1>6. \A a, b : <<a, b>> \in UrgentOrder(s)' /\ IsFlush(a) /\ IsFlush(b)
                => sentIn'[b] <= sentIn'[a]
  BY <1>1, <1>2, <1>3 DEF InTurn
<1>7. \A m \in pMsg'[s], a \in Urgent(s)' : IsFlush(m) /\ IsFlush(a)
                                          => sentIn'[m] <= sentIn'[a]
  BY <1>1, <1>2 DEF InTurn
<1> QED
  BY <1>4, <1>5, <1>6, <1>7 DEF InTurn, IsFlush

\* What a step of a stream does to its flushes.
LEMMA FlushChanges ==
  ASSUME StreamTypes, ThreadInv, BarrierInv, StreamMoves, NEW t \in Stream
  PROVE  \/ FlushKept(t) \/ Takes(t) \/ Flushes(t) \/ Opens(t) \/ Ends(t)
         \/ \E m \in Message : SendsFlush(t, m)
<1>1. QueueSame(t) /\ ThreadSame(t) => FlushKept(t)
  BY PlayerKeepsFlushes
<1>2. ASSUME NEW s \in Stream, ThreadMoves(s) \/ Opens(s) \/ Ends(s)
      PROVE  FlushKept(t) \/ Takes(t) \/ Flushes(t) \/ Opens(t) \/ Ends(t)
  <2>1. CASE t = s
    <3>1. ThreadMoves(s) /\ ~Takes(s) /\ ~Flushes(s) => FlushKept(s)
      BY MovesKeepFlushes DEF ThreadInv
    <3> QED
      BY <1>2, <2>1, <3>1
  <2>2. CASE t # s
    <3>1. OthersSame(s)
      BY <1>2, MovesElsewhere DEF Ends
    <3> QED
      BY <1>1, <2>2, <3>1 DEF OthersSame
  <2> QED
    BY <2>1, <2>2
<1>3. CASE PlayerQuiet
  <2>1. StreamsSame
    BY <1>3 DEF PlayerQuiet, PlayerStays, PlayerSkips, PlayerSynchronized, PlayerCloses,
                PlayerDrained
  <2> QED
    BY <1>1, <2>1 DEF StreamsSame
<1>4. CASE PlayerSends
  <2>1. "audio" \in Stream /\ "video" \in Stream
    BY DEF Stream
  <2>2. PICK m \in Message :
          \/ \E s \in Stream : SendsPacket(s, m) \/ SendsFlush(s, m) \/ SendsDrain(s, m)
          \/ SendsBarrier(m) \/ SendsBarrierAgain(m)
    BY <1>4 DEF PlayerSends
  <2>3. ASSUME NEW s \in Stream,
               SendsFlush(s, m) \/ PutsMain(s, m) \/ (PutsUrgent(s, m) /\ ~IsFlush(m))
        PROVE  FlushKept(t) \/ SendsFlush(t, m)
    <3>1. CASE t = s
      BY <2>3, <3>1, PlayerKeepsFlushes
    <3>2. CASE t # s
      <4>1. OthersSame(s)
        BY <2>3 DEF SendsFlush, PutsMain, PutsUrgent, Puts
      <4> QED
        BY <1>1, <3>2, <4>1 DEF OthersSame
    <3> QED
      BY <3>1, <3>2
  <2>4. CASE \E s \in Stream : SendsPacket(s, m) \/ SendsFlush(s, m) \/ SendsDrain(s, m)
    BY <2>3, <2>4 DEF SendsPacket, SendsDrain
  <2>5. CASE SendsBarrier(m)
    BY <2>1, <2>3, <2>5, OneType DEF SendsBarrier
  <2>6. CASE SendsBarrierAgain(m)
    <3>1. IsSync(m)
      BY <2>6 DEF SendsBarrierAgain, BarrierInv
    <3> QED
      BY <2>1, <2>3, <2>6, <3>1, OneType DEF SendsBarrierAgain
  <2> QED
    BY <2>2, <2>4, <2>5, <2>6
<1>5. CASE BeginsFlush
  <2>1. "audio" \in Stream /\ OthersSame("audio") /\ ThreadSame("audio")
        /\ LosesPackets("audio")
    BY <1>5 DEF BeginsFlush, Stream
  <2>2. FlushKept("audio")
    BY <2>1, PlayerKeepsFlushes
  <2> QED
    BY <1>1, <2>1, <2>2 DEF OthersSame
<1> QED
  BY <1>2, <1>3, <1>4, <1>5 DEF StreamMoves

\* The epoch a message was sent in stays with it, and no other is given than the
\* last.
LEMMA SentKept ==
  ASSUME StreamTypes, UnsentInv, StreamMoves
  PROVE  /\ \A t \in Stream : \A m \in Holding(t) : sentIn'[m] = sentIn[m]
         /\ \A m \in Message : sentIn'[m] = sentIn[m] \/ sentIn'[m] = epoch
         /\ epoch' = epoch \/ (BeginsFlush /\ epoch' = epoch + 1)
<1>1. ASSUME sentIn' = sentIn
      PROVE  /\ \A t \in Stream : \A m \in Holding(t) : sentIn'[m] = sentIn[m]
             /\ \A m \in Message : sentIn'[m] = sentIn[m] \/ sentIn'[m] = epoch
  BY <1>1
<1>2. ASSUME NEW s \in Stream, ThreadMoves(s) \/ Opens(s) \/ Ends(s)
      PROVE  sentIn' = sentIn /\ epoch' = epoch
  BY <1>2, MovesElsewhere DEF PlayerSame, Ends
<1>3. ASSUME PlayerQuiet PROVE sentIn' = sentIn /\ epoch' = epoch
  BY <1>3 DEF PlayerQuiet, PlayerStays, PlayerSkips, PlayerSynchronized, PlayerCloses,
              PlayerDrained, StreamsSame
<1>4. ASSUME BeginsFlush PROVE sentIn' = sentIn /\ epoch' = epoch + 1
  BY <1>4 DEF BeginsFlush
<1>5. CASE PlayerSends
  <2>1. PICK m \in Message, s \in Stream :
          /\ PutsMain(s, m) \/ PutsUrgent(s, m)
          /\ \/ New(m) /\ (waitsFor' = waitsFor \/ waitsFor' = {m})
             \/ SendsBarrierAgain(m) /\ s = "video"
    BY <1>5, SendsNew
  <2>2. epoch' = epoch
    BY <2>1, PutsHolding
  <2>3. CASE New(m)
    <3>1. m \in unsent /\ sentIn' = [sentIn EXCEPT ![m] = epoch]
          /\ sentIn \in [Message -> 0 .. MaxEpoch]
      BY <2>3 DEF New, StreamTypes
    <3>2. \A t \in Stream : m \notin Holding(t)
      BY <3>1 DEF UnsentInv
    <3>3. \A n \in Message : sentIn'[n] = IF n = m THEN epoch ELSE sentIn[n]
      BY <3>1
    <3>4. \A n : n # m => sentIn'[n] = sentIn[n]
      BY <3>1
    <3> QED
      BY <2>2, <3>2, <3>3, <3>4
  <2>4. CASE SendsBarrierAgain(m)
    BY <1>1, <2>2, <2>4 DEF SendsBarrierAgain
  <2> QED
    BY <2>1, <2>3, <2>4
<1> QED
  BY <1>1, <1>2, <1>3, <1>4, <1>5 DEF StreamMoves

\* Urgent messages are messages.
LEMMA UrgentMessages ==
  ASSUME StreamTypes, NEW s \in Stream
  PROVE  Urgent(s) \subseteq Message
<1>1. queues[s].m_prioMessages \in Seq(Item(Priority \ {0}))
  BY DEF StreamTypes, Sound, Queue
<1>2. \A i \in DOMAIN queues[s].m_prioMessages :
        queues[s].m_prioMessages[i] \in Item(Priority \ {0})
  BY <1>1
<1> QED
  BY <1>2 DEF Urgent, Msgs, Item

\* The epochs of a stream that is sent a flush.
LEMMA SendsInTurn ==
  ASSUME NEW s \in Stream, StreamTypes, UnsentInv, EpochInv, NEW m \in Message,
         SendsFlush(s, m)
  PROVE  InTurn(s)'
<1>1. /\ m \in unsent /\ sentIn' = [sentIn EXCEPT ![m] = epoch] /\ epoch' = epoch
      /\ flushed'[s] = flushed[s] /\ pMsg'[s] = pMsg[s]
  BY DEF SendsFlush, New, PutsUrgent, Puts, ThreadSame, CodecSame
<1>2. /\ Urgent(s)' \subseteq Urgent(s) \union {m}
      /\ UrgentOrder(s)' \subseteq UrgentOrder(s) \union ({m} \X Urgent(s))
  BY DEF SendsFlush, PutsUrgent
<1>3. m \notin Urgent(s) /\ m \notin pMsg[s]
  BY <1>1 DEF UnsentInv, Holding
<1>4. /\ sentIn \in [Message -> 0 .. MaxEpoch] /\ epoch \in 0 .. MaxEpoch
      /\ pMsg[s] \subseteq Message /\ \A n \in Message : sentIn[n] <= epoch
  BY DEF StreamTypes, EpochInv
<1>5. sentIn'[m] = epoch /\ \A n \in Message : n # m => sentIn'[n] = sentIn[n]
  BY <1>1, <1>4
<1>6. Urgent(s) \subseteq Message
  BY UrgentMessages
<1>7. \A n \in Urgent(s) \union pMsg[s] : sentIn'[n] = sentIn[n] /\ sentIn[n] <= epoch
  BY <1>3, <1>4, <1>5, <1>6
<1>8. InTurn(s)
  BY DEF EpochInv
<1>9. flushed'[s] <= epoch'
  BY <1>1, <1>8 DEF InTurn
<1>10. \A n \in Pending(s)' : flushed'[s] <= sentIn'[n]
  <2>1. \A n \in Pending(s)' : n = m \/ n \in Pending(s)
    BY <1>1, <1>2 DEF Pending, IsFlush
  <2>2. \A n \in Pending(s) : sentIn'[n] = sentIn[n]
    BY <1>7 DEF Pending
  <2> QED
    BY <1>1, <1>5, <1>8, <2>1, <2>2 DEF InTurn
<1>11. \A a, b : <<a, b>> \in UrgentOrder(s)' /\ IsFlush(a) /\ IsFlush(b)
                 => sentIn'[b] <= sentIn'[a]
  <2>1. SUFFICES ASSUME NEW a, NEW b, <<a, b>> \in UrgentOrder(s)', IsFlush(a), IsFlush(b)
                 PROVE  sentIn'[b] <= sentIn'[a]
    OBVIOUS
  <2>2. CASE <<a, b>> \in UrgentOrder(s)
    <3>1. a \in Urgent(s) /\ b \in Urgent(s)
      BY <2>2, OrderMembers DEF UrgentOrder, Urgent, Msgs
    <3> QED
      BY <1>7, <1>8, <2>1, <2>2, <3>1 DEF InTurn
  <2>3. CASE a = m /\ b \in Urgent(s)
    BY <1>5, <1>7, <2>3
  <2> QED
    BY <1>2, <2>1, <2>2, <2>3
<1>12. \A n \in pMsg'[s], a \in Urgent(s)' : IsFlush(n) /\ IsFlush(a)
                                           => sentIn'[n] <= sentIn'[a]
  <2>1. SUFFICES ASSUME NEW n \in pMsg[s], NEW a \in Urgent(s) \union {m},
                        IsFlush(n), IsFlush(a)
                 PROVE  sentIn'[n] <= sentIn'[a]
    BY <1>1, <1>2
  <2> QED
    BY <1>5, <1>7, <1>8, <2>1 DEF InTurn
<1> QED
  BY <1>9, <1>10, <1>11, <1>12 DEF InTurn, IsFlush

\* The epochs of a stream whose thread takes a message.
LEMMA TakesInTurn ==
  ASSUME NEW s \in Stream, Orderly(s), InTurn(s), Takes(s), epoch' = epoch,
         sentIn' = sentIn
  PROVE  InTurn(s)'
<1>1. PICK x : pMsg'[s] = {x} /\ (TakesUrgent(s, x) \/ TakesMain(s, x))
  BY DEF Takes
<1>2. Pending(s)' = Pending(s) /\ flushed'[s] = flushed[s]
  BY TakesPending DEF Takes, CodecSame
<1>3. UrgentOrder(s)' \subseteq UrgentOrder(s)
  BY <1>1 DEF TakesUrgent, TakesMain
<1>4. \A n \in pMsg'[s], a \in Urgent(s)' : IsFlush(n) /\ IsFlush(a)
                                          => sentIn[n] <= sentIn[a]
  <2>1. \A a \in Urgent(s)' : <<a, x>> \in UrgentOrder(s)
    BY <1>1 DEF TakesUrgent, TakesMain
  <2> QED
    BY <1>1, <2>1 DEF InTurn
<1> QED
  BY <1>2, <1>3, <1>4 DEF InTurn, IsFlush

\* The epochs of a stream that handles a flush, is opened or is ended.
LEMMA FlushesInTurn ==
  ASSUME NEW s \in Stream, StreamTypes, EpochInv, Orderly(s), epoch' = epoch,
         sentIn' = sentIn, Flushes(s) \/ Opens(s) \/ Ends(s)
  PROVE  InTurn(s)'
<1>1. InTurn(s)
  BY DEF EpochInv
<1>2. CASE Flushes(s)
  <2>1. PICK m \in pMsg[s] : IsFlush(m) /\ flushed'[s] = sentIn[m]
    BY <1>2 DEF Flushes
  <2>2. pMsg'[s] = {} /\ Urgent(s)' \subseteq Urgent(s)
        /\ UrgentOrder(s)' \subseteq UrgentOrder(s)
    BY <1>2 DEF Flushes, QueueSame, LosesPackets
  <2>3. sentIn[m] <= epoch
    BY <2>1 DEF EpochInv, StreamTypes
  <2>4. \A n \in Pending(s)' : sentIn[m] <= sentIn[n]
    BY <1>1, <2>1, <2>2 DEF InTurn, Pending, IsFlush
  <2> QED
    BY <1>1, <2>1, <2>2, <2>3, <2>4 DEF InTurn, IsFlush
<1>3. CASE Opens(s) \/ Ends(s)
  <2>1. /\ pMsg'[s] = pMsg[s] /\ Urgent(s)' \subseteq Urgent(s)
        /\ UrgentOrder(s)' \subseteq UrgentOrder(s) /\ flushed'[s] = flushed[s]
    BY <1>3 DEF Opens, Ends
  <2>2. Pending(s)' \subseteq Pending(s)
    BY <2>1 DEF Pending, IsFlush
  <2> QED
    BY <1>1, <2>1, <2>2 DEF InTurn, IsFlush
<1> QED
  BY <1>2, <1>3

\* The part of the epochs.
LEMMA EpochInvStep ==
  ASSUME StreamTypes, StreamTypes', ThreadInv, UnsentInv, EpochInv, BarrierInv,
         StreamMoves
  PROVE  EpochInv'
<1>1. /\ \A t \in Stream : \A m \in Holding(t) : sentIn'[m] = sentIn[m]
      /\ \A m \in Message : sentIn'[m] = sentIn[m] \/ sentIn'[m] = epoch
      /\ epoch' = epoch \/ epoch' = epoch + 1
  BY SentKept
<1>2. epoch \in Nat /\ epoch' \in Nat /\ epoch <= epoch'
  BY <1>1 DEF StreamTypes
<1>3. \A m \in Message : sentIn'[m] <= epoch'
  <2>1. \A m \in Message : sentIn[m] <= epoch /\ sentIn[m] \in 0 .. MaxEpoch
    BY DEF EpochInv, StreamTypes
  <2> QED
    BY <1>1, <1>2, <2>1
<1>4. ASSUME NEW t \in Stream PROVE InTurn(t)'
  <2>1. InTurn(t) /\ Orderly(t)
    BY DEF EpochInv, ThreadInv
  <2>2. CASE FlushKept(t)
    BY <1>1, <1>2, <2>1, <2>2, KeptInTurn
  <2>3. CASE \E m \in Message : SendsFlush(t, m)
    BY <2>3, SendsInTurn
  <2>4. CASE Takes(t) \/ Flushes(t) \/ Opens(t) \/ Ends(t)
    <3>1. sentIn' = sentIn /\ epoch' = epoch
      BY <2>4 DEF Takes, Flushes, Opens, Ends, ThreadStep, PlayerSame
    <3> QED
      BY <2>1, <2>4, <3>1, TakesInTurn, FlushesInTurn
  <2> QED
    BY <2>2, <2>3, <2>4, FlushChanges
<1> QED
  BY <1>3, <1>4 DEF EpochInv

\* While FlushBuffers goes on, no stream is opened or ended.
LEMMA PhaseSteps ==
  ASSUME NEW t \in Stream, StreamMoves, player' \in SentTo(t)
  PROVE  /\ player \in SentTo(t) \/ \E m \in Message : SendsFlush(t, m)
         /\ ~BeginsFlush /\ ~Opens(t) /\ ~Ends(t)
<1>1. t = "audio" \/ t = "video"
  BY DEF Stream
<1>2. player' \in {"flushVideo", "flushed", "syncVideo", "wait"}
      /\ (t = "video" => player' # "flushVideo")
  BY <1>1 DEF SentTo
<1>3. ~BeginsFlush /\ ~Opens(t) /\ ~Ends(t)
  BY <1>2 DEF BeginsFlush, Opens, Ends, PlayerSame
<1>4. CASE player' = player
  BY <1>3, <1>4 DEF SentTo
<1>5. CASE player' # player
  <2>1. ~(\E s \in Stream : ThreadMoves(s) \/ Opens(s) \/ Ends(s))
    BY <1>2, <1>5, MovesElsewhere DEF PlayerSame, Ends
  <2>2. ~PlayerQuiet
    BY <1>2, <1>5 DEF PlayerQuiet, PlayerStays, PlayerSkips, PlayerSynchronized,
                      PlayerCloses, PlayerDrained
  <2>3. PlayerSends
    BY <1>3, <2>1, <2>2 DEF StreamMoves
  <2>4. PICK m \in Message :
          \/ \E s \in Stream : SendsPacket(s, m) \/ SendsFlush(s, m) \/ SendsDrain(s, m)
          \/ SendsBarrier(m) \/ SendsBarrierAgain(m)
    BY <2>3 DEF PlayerSends
  <2>5. CASE SendsBarrier(m) \/ SendsBarrierAgain(m)
    <3>1. player \in {"flushed", "syncVideo"}
      BY <2>5 DEF SendsBarrier, SendsBarrierAgain
    <3> QED
      BY <1>1, <1>3, <3>1 DEF SentTo
  <2>6. CASE \E s \in Stream : SendsPacket(s, m) \/ SendsFlush(s, m) \/ SendsDrain(s, m)
    <3>1. PICK s \in Stream : SendsFlush(s, m)
      BY <1>2, <1>5, <2>6 DEF SendsPacket, SendsDrain
    <3>2. \/ s = "audio" /\ player = "flushAudio" /\ player' = "flushVideo"
          \/ s = "video" /\ player = "flushVideo" /\ player' = "flushed"
      BY <3>1 DEF SendsFlush
    <3> QED
      BY <1>1, <1>2, <1>3, <3>1, <3>2 DEF SentTo
  <2> QED
    BY <2>4, <2>5, <2>6
<1> QED
  BY <1>4, <1>5

\* The part of the flush that was sent.
LEMMA ReachInvStep ==
  ASSUME StreamTypes, ThreadInv, UnsentInv, EpochInv, ReachInv, BarrierInv, StreamMoves
  PROVE  ReachInv'
<1>1. SUFFICES ASSUME NEW t \in Stream, Opened(t)', player' \in SentTo(t)
               PROVE  Reaches(t)'
  BY DEF ReachInv, SentTo
<1>2. /\ player \in SentTo(t) \/ \E m \in Message : SendsFlush(t, m)
      /\ ~BeginsFlush /\ ~Opens(t) /\ ~Ends(t)
  BY <1>1, PhaseSteps
<1>3. epoch' = epoch /\ \A m \in Holding(t) : sentIn'[m] = sentIn[m]
  BY <1>2, SentKept
<1>4. \A m \in Pending(t) : sentIn'[m] = sentIn[m]
  BY <1>3 DEF Pending, Holding
<1>5. CASE \E m \in Message : SendsFlush(t, m)
  <2>1. PICK m \in Message : SendsFlush(t, m)
    BY <1>5
  <2>2. Opened(t)' = Opened(t) /\ New(m) /\ IsFlush(m)
    BY <2>1 DEF SendsFlush, PutsUrgent, Puts
  <2>3. m \in Urgent(t)'
    BY <1>1, <2>1, <2>2 DEF SendsFlush, PutsUrgent
  <2>4. sentIn'[m] = epoch
    BY <2>2 DEF New, StreamTypes
  <2>5. m \in Pending(t)'
    BY <2>2, <2>3 DEF Pending, IsFlush
  <2> QED
    BY <1>3, <2>4, <2>5 DEF Reaches
<1>6. ASSUME player \in SentTo(t), Opened(t), flushed'[t] = flushed[t],
             Pending(t)' = Pending(t)
      PROVE  Reaches(t)'
  <2>1. Reaches(t)
    BY <1>6 DEF ReachInv
  <2> QED
    BY <1>3, <1>4, <1>6, <2>1 DEF Reaches
<1>7. CASE player \in SentTo(t) /\ FlushKept(t)
  BY <1>1, <1>6, <1>7 DEF FlushKept
<1>8. CASE player \in SentTo(t) /\ Takes(t)
  <2>1. Opened(t)' = Opened(t) /\ flushed'[t] = flushed[t]
    BY <1>8 DEF Takes, CodecSame
  <2>2. Pending(t)' = Pending(t)
    BY <1>8, TakesPending DEF ThreadInv
  <2> QED
    BY <1>1, <1>6, <1>8, <2>1, <2>2
<1>9. CASE player \in SentTo(t) /\ Flushes(t)
  <2>1. PICK f \in pMsg[t] : IsFlush(f) /\ flushed'[t] = sentIn[f]
    BY <1>9 DEF Flushes
  <2>2. Opened(t)
    BY <1>1, <1>9 DEF Flushes, QueueSame, LosesPackets
  <2>3. Reaches(t) /\ InTurn(t) /\ Orderly(t) /\ sentIn[f] <= epoch
    BY <1>9, <2>1, <2>2 DEF ReachInv, EpochInv, ThreadInv, StreamTypes
  <2>4. sentIn[f] \in Int /\ epoch \in Int /\ flushed[t] \in Int
    BY <2>1 DEF StreamTypes
  <2>5. f \in Pending(t) /\ flushed[t] <= sentIn[f]
    BY <2>1, <2>3 DEF Pending, InTurn
  <2>6. CASE flushed[t] = epoch
    BY <1>3, <2>1, <2>3, <2>4, <2>5, <2>6 DEF Reaches
  <2>7. CASE \E m \in Pending(t) : sentIn[m] = epoch
    <3>1. PICK m \in Pending(t) : sentIn[m] = epoch
      BY <2>7
    <3>2. CASE m \in pMsg[t]
      <4>1. m = f
        BY <2>1, <2>3, <3>2 DEF Orderly
      <4> QED
        BY <1>3, <2>1, <3>1, <4>1 DEF Reaches
    <3>3. CASE m \in Urgent(t)
      <4>1. IsFlush(m) /\ m \in Urgent(t)'
        BY <1>9, <3>1, <3>3, OneType DEF Pending, Flushes, QueueSame, LosesPackets
      <4>2. m \in Pending(t)'
        BY <4>1 DEF Pending, IsFlush
      <4> QED
        BY <1>3, <1>4, <3>1, <4>2 DEF Reaches
    <3> QED
      BY <3>1, <3>2, <3>3 DEF Pending
  <2> QED
    BY <2>3, <2>6, <2>7 DEF Reaches
<1> QED
  BY <1>2, <1>5, <1>7, <1>8, <1>9, FlushChanges

\* The barrier stays behind the flush, whatever the thread of a stream does.
LEMMA BehindStays ==
  ASSUME StreamTypes, NEW s \in Stream, NEW m, Orderly(s), IsSync(m),
         Behind(s, m),
         FlushKept(s) \/ Takes(s) \/ Flushes(s),
         s \in reached'[m] => s \in reached[m] \/ (Opened(s) /\ m \in pMsg[s])
  PROVE  Behind(s, m)'
<1>1. ~IsFlush(m) /\ ~IsPacket(m)
  BY OneType
<1>2. Opened(s)' = Opened(s)
  BY DEF FlushKept, Takes, Flushes, QueueSame, LosesPackets
<1>3. Pending(s)' \subseteq Pending(s)
  <2>1. CASE FlushKept(s)
    BY <2>1 DEF FlushKept
  <2>2. CASE Takes(s)
    BY <2>2, TakesPending
  <2>3. CASE Flushes(s)
    BY <2>3 DEF Flushes, QueueSame, LosesPackets, Pending, IsFlush
  <2> QED
    BY <2>1, <2>2, <2>3
<1>4. s \in reached'[m] => Opened(s)' /\ Pending(s)' = {}
  BY <1>2, <1>3 DEF Behind
<1>5. \A f \in Message : IsFlush(f) => <<f, m>> \notin UrgentOrder(s)'
  BY <1>1 DEF FlushKept, Takes, TakesUrgent, TakesMain, Flushes, QueueSame, LosesPackets,
              Behind
<1>6. m \in pMsg'[s] => Pending(s)' = {}
  <2>1. SUFFICES ASSUME m \in pMsg'[s] PROVE Pending(s)' = {}
    OBVIOUS
  <2>2. CASE FlushKept(s)
    BY <1>3, <2>1, <2>2 DEF FlushKept, Behind
  <2>3. CASE Flushes(s)
    BY <2>1, <2>3 DEF Flushes
  <2>4. CASE Takes(s)
    <3>1. PICK x \in Message : pMsg'[s] = {x} /\ (TakesUrgent(s, x) \/ TakesMain(s, x))
      BY <2>4 DEF Takes
    <3>2. x = m
      BY <2>1, <3>1
    <3>3. Urgent(s) \subseteq Message
      BY UrgentMessages
    <3>4. Urgent(s)' \subseteq Urgent(s)
      BY <3>1 DEF TakesUrgent, TakesMain
    <3>5. \A a \in Urgent(s)' : ~IsFlush(a)
      BY <3>1, <3>2, <3>3, <3>4 DEF TakesUrgent, TakesMain, Behind
    <3> QED
      BY <1>1, <3>1, <3>2, <3>5 DEF Pending, IsFlush
  <2> QED
    BY <2>2, <2>3, <2>4
<1> QED
  BY <1>4, <1>5, <1>6 DEF Behind, IsFlush

\* A stream that the step leaves alone.
LEMMA BehindElsewhere ==
  ASSUME NEW s \in Stream, NEW m, Behind(s, m), QueueSame(s), ThreadSame(s),
         s \in reached'[m] => s \in reached[m]
  PROVE  Behind(s, m)'
<1>1. /\ Opened(s)' = Opened(s) /\ UrgentOrder(s)' = UrgentOrder(s)
      /\ Pending(s)' = Pending(s) /\ pMsg'[s] = pMsg[s]
  BY StreamStays DEF QueueSame, ThreadSame
<1> QED
  BY <1>1 DEF Behind, IsFlush

\* The part of the barrier.
LEMMA BarrierInvStep ==
  ASSUME StreamTypes, ThreadInv, UnsentInv, BarrierInv, StreamMoves
  PROVE  BarrierInv'
<1>1. SUFFICES ASSUME player' \in {"syncVideo", "wait"}, NEW m \in waitsFor'
               PROVE  IsSync(m) /\ sources'[m] = Stream /\ \A t \in Stream : Behind(t, m)'
  BY DEF BarrierInv, Behind, IsSync
<1>2. "audio" \in Stream /\ "video" \in Stream
  BY DEF Stream
<1>3. ASSUME NEW s \in Stream, ThreadMoves(s)
      PROVE  IsSync(m) /\ sources'[m] = Stream /\ \A t \in Stream : Behind(t, m)'
  <2>1. /\ player' = player /\ waitsFor' = waitsFor /\ sources' = sources /\ OthersSame(s)
    BY <1>3, MovesElsewhere DEF PlayerSame
  <2>2. IsSync(m) /\ sources[m] = Stream /\ \A t \in Stream : Behind(t, m)
    BY <1>1, <2>1 DEF BarrierInv
  <2>3. Orderly(s) /\ Opened(s)
    BY <1>3 DEF ThreadInv, Orderly, ThreadMoves, Idles, Takes, SendsAgain, Answers, Returns,
                Flushes, Consumes, PutsBack, ThreadStep
  <2>4. reached'[m] = reached[m] \/ (m \in pMsg[s] /\
          reached'[m] \subseteq reached[m] \union {s, AnySource})
    <3>1. CASE ~Answers(s)
      BY <1>3, <3>1 DEF ThreadMoves, Idles, Takes, SendsAgain, Returns, Flushes, Consumes,
                        PutsBack
    <3>2. CASE Answers(s)
      <4>1. PICK n \in pMsg[s] :
              reached' = [reached EXCEPT ![n] = @ \union ({s, AnySource} \intersect sources[n])]
        BY <3>2 DEF Answers
      <4>2. reached \in [Message -> SUBSET Answerer] /\ m \in Message
        BY <1>1, <2>1 DEF StreamTypes
      <4> QED
        BY <4>1, <4>2
    <3> QED
      BY <3>1, <3>2
  <2>5. ASSUME NEW t \in Stream \ {s} PROVE Behind(t, m)'
    <3>1. t # AnySource
      BY DEF Stream, AnySource
    <3>2. t \in reached'[m] => t \in reached[m]
      BY <2>4, <3>1
    <3> QED
      BY <2>1, <2>2, <3>2, BehindElsewhere DEF OthersSame
  <2>6. Behind(s, m)'
    <3>1. s \in reached'[m] => s \in reached[m] \/ (Opened(s) /\ m \in pMsg[s])
      BY <2>3, <2>4
    <3>2. FlushKept(s) \/ Takes(s) \/ Flushes(s)
      BY <1>3, <2>3, MovesKeepFlushes
    <3> QED
      BY <2>2, <2>3, <3>1, <3>2, BehindStays
  <2> QED
    BY <2>1, <2>2, <2>5, <2>6
<1>4. ASSUME NEW s \in Stream, Opens(s) \/ Ends(s) PROVE FALSE
  BY <1>1, <1>4 DEF Opens, Ends, PlayerSame
<1>5. ASSUME PlayerQuiet
      PROVE  IsSync(m) /\ sources'[m] = Stream /\ \A t \in Stream : Behind(t, m)'
  <2>1. /\ StreamsSame /\ player' = player /\ waitsFor' = waitsFor
    BY <1>1, <1>5 DEF PlayerQuiet, PlayerStays, PlayerSkips, PlayerSynchronized,
                      PlayerCloses, PlayerDrained
  <2>2. IsSync(m) /\ sources[m] = Stream /\ \A t \in Stream : Behind(t, m)
    BY <1>1, <2>1 DEF BarrierInv
  <2>3. sources' = sources /\ reached' = reached
    BY <2>1 DEF StreamsSame
  <2>4. \A t \in Stream : Behind(t, m)'
    BY <2>1, <2>2, <2>3, BehindElsewhere DEF StreamsSame
  <2> QED
    BY <2>2, <2>3, <2>4
<1>6. ASSUME BeginsFlush PROVE FALSE
  BY <1>1, <1>6 DEF BeginsFlush
<1>7. ASSUME PlayerSends
      PROVE  IsSync(m) /\ sources'[m] = Stream /\ \A t \in Stream : Behind(t, m)'
  <2>1. PICK n \in Message : SendsBarrier(n) \/ SendsBarrierAgain(n)
    BY <1>1, <1>7 DEF PlayerSends, SendsPacket, SendsFlush, SendsDrain
  <2>2. CASE SendsBarrier(n)
    <3>1. /\ m = n /\ IsSync(m) /\ New(m) /\ PutsUrgent("audio", m)
          /\ sources' = [sources EXCEPT ![m] = Stream]
      BY <1>1, <2>2 DEF SendsBarrier
    <3>2. sources'[m] = Stream
      BY <2>1, <3>1 DEF StreamTypes
    <3>3. reached'[m] = {} /\ \A t \in Stream : m \notin Holding(t)
      BY <3>1 DEF New, PutsUrgent, Puts, UnsentInv
    <3>4. OthersSame("audio") /\ ThreadSame("audio")
      BY <3>1 DEF PutsUrgent, Puts
    <3>5. ASSUME NEW t \in Stream PROVE Behind(t, m)'
      <4>1. pMsg'[t] = pMsg[t]
        BY <1>2, <3>4 DEF OthersSame, ThreadSame
      <4>2. m \notin pMsg'[t] /\ m \notin Urgent(t)
        BY <3>3, <4>1 DEF Holding
      <4>3. \A f : <<f, m>> \notin UrgentOrder(t)
        BY <4>2, OrderMembers DEF UrgentOrder, Urgent, Msgs
      <4>4. UrgentOrder(t)' \subseteq UrgentOrder(t) \union ({m} \X Urgent(t))
        BY <3>1, <3>4 DEF PutsUrgent, OthersSame, QueueSame
      <4>5. \A f : <<f, m>> \notin UrgentOrder(t)'
        BY <4>2, <4>3, <4>4
      <4> QED
        BY <3>3, <4>2, <4>5 DEF Behind
    <3> QED
      BY <3>1, <3>2, <3>5
  <2>3. CASE SendsBarrierAgain(n)
    <3>1. /\ player = "syncVideo" /\ waitsFor' = waitsFor /\ n \in waitsFor
          /\ sources' = sources /\ PutsUrgent("video", n)
      BY <2>3 DEF SendsBarrierAgain
    <3>2. /\ IsSync(m) /\ sources[m] = Stream /\ \A t \in Stream : Behind(t, m)
          /\ IsSync(n)
      BY <1>1, <3>1 DEF BarrierInv
    <3>3. reached' = reached /\ OthersSame("video")
      BY <3>1 DEF PutsUrgent, Puts
    <3>4. ASSUME NEW t \in Stream \ {"video"} PROVE Behind(t, m)'
      BY <3>2, <3>3, BehindElsewhere DEF OthersSame
    <3>5. FlushKept("video")
      BY <1>2, <3>1, <3>2, OneType, PlayerKeepsFlushes
    <3>6. Behind("video", m)'
      BY <1>2, <3>2, <3>3, <3>5, BehindStays DEF ThreadInv
    <3> QED
      BY <3>1, <3>2, <3>4, <3>6
  <2> QED
    BY <2>1, <2>2, <2>3
<1> QED
  BY <1>3, <1>4, <1>5, <1>6, <1>7 DEF StreamMoves

\* The player comes into FlushBuffers only by the first step of FlushBuffers.
LEMMA FlushPhases ==
  ASSUME StreamMoves, player \notin FlushPlaces, ~BeginsFlush
  PROVE  player' \notin FlushPlaces /\ \A s \in Stream, m \in Message : ~SendsFlush(s, m)
<1>1. \A s \in Stream, m \in Message : ~SendsFlush(s, m)
  BY DEF SendsFlush, FlushPlaces
<1>2. CASE \E s \in Stream : ThreadMoves(s) \/ Opens(s) \/ Ends(s)
  <2>1. player' = player \/ player' = "run"
    BY <1>2, MovesElsewhere DEF PlayerSame, Ends
  <2> QED
    BY <1>1, <2>1 DEF FlushPlaces
<1>3. CASE PlayerQuiet
  BY <1>1, <1>3 DEF PlayerQuiet, PlayerStays, PlayerSkips, PlayerSynchronized,
                    PlayerCloses, PlayerDrained, FlushPlaces
<1>4. CASE PlayerSends
  BY <1>1, <1>4 DEF PlayerSends, SendsPacket, SendsDrain, SendsBarrier, SendsBarrierAgain,
                    FlushPlaces
<1> QED
  BY <1>2, <1>3, <1>4 DEF StreamMoves

\* How the wait of FlushBuffers ended changes only where it ends or begins.
LEMMA FlushEndChanges ==
  ASSUME StreamMoves, flushEnd' = "reached"
  PROVE  /\ ~BeginsFlush
         /\ PlayerSynchronized \/ flushEnd = "reached"
<1>1. ~BeginsFlush
  BY DEF BeginsFlush
<1>2. CASE \E s \in Stream : ThreadMoves(s) \/ Opens(s) \/ Ends(s)
  BY <1>1, <1>2, MovesElsewhere DEF PlayerSame, Ends
<1>3. CASE PlayerQuiet
  BY <1>1, <1>3 DEF PlayerQuiet, PlayerStays, PlayerSkips, PlayerCloses, PlayerDrained
<1>4. CASE PlayerSends
  BY <1>1, <1>4 DEF PlayerSends, SendsPacket, SendsFlush, SendsDrain, SendsBarrier,
                    SendsBarrierAgain, PutsMain, PutsUrgent, Puts
<1> QED
  BY <1>1, <1>2, <1>3, <1>4 DEF StreamMoves

\* The part of the barrier that was answered.
LEMMA AnsweredInvStep ==
  ASSUME StreamTypes, ThreadInv, UnsentInv, ReachInv, BarrierInv, AnsweredInv, StreamMoves
  PROVE  AnsweredInv'
<1>1. SUFFICES ASSUME flushEnd' = "reached"
               PROVE  /\ player' \notin FlushPlaces
                      /\ \A t \in Stream : flushed'[t] = epoch' /\ Pending(t)' = {}
  BY DEF AnsweredInv, FlushPlaces
<1>2. ~BeginsFlush /\ (PlayerSynchronized \/ flushEnd = "reached")
  BY <1>1, FlushEndChanges
<1>3. epoch' = epoch
  BY <1>2, SentKept
<1>4. CASE flushEnd = "reached"
  <2>1. player \notin FlushPlaces /\ \A t \in Stream : flushed[t] = epoch /\ Pending(t) = {}
    BY <1>4 DEF AnsweredInv, FlushPlaces
  <2>2. player' \notin FlushPlaces /\ \A s \in Stream, m \in Message : ~SendsFlush(s, m)
    BY <1>2, <2>1, FlushPhases
  <2>3. ASSUME NEW t \in Stream PROVE flushed'[t] = epoch /\ Pending(t)' = {}
    <3>1. CASE FlushKept(t)
      BY <2>1, <3>1 DEF FlushKept
    <3>2. CASE Takes(t)
      <4>1. Pending(t)' = Pending(t)
        BY <3>2, TakesPending DEF ThreadInv
      <4> QED
        BY <2>1, <3>2, <4>1 DEF Takes, CodecSame
    <3>3. ~Flushes(t)
      BY <2>1 DEF Flushes, Pending
    <3>4. CASE Opens(t) \/ Ends(t)
      <4>1. /\ pMsg'[t] = pMsg[t] /\ Urgent(t)' \subseteq Urgent(t)
            /\ flushed'[t] = flushed[t]
        BY <3>4 DEF Opens, Ends
      <4> QED
        BY <2>1, <4>1 DEF Pending, IsFlush
    <3> QED
      BY <2>2, <3>1, <3>2, <3>3, <3>4, FlushChanges
  <2> QED
    BY <1>3, <2>2, <2>3
<1>5. CASE PlayerSynchronized
  <2>1. PICK m \in waitsFor : flushEnd' = EndOf(m)
    BY <1>5 DEF PlayerSynchronized
  <2>2. /\ StreamsSame /\ player = "wait" /\ player' = "run"
    BY <1>5 DEF PlayerSynchronized
  <2>3. reached[m] = sources[m]
    BY <1>1, <2>1 DEF EndOf, Complete
  <2>4. sources[m] = Stream /\ \A t \in Stream : Behind(t, m)
    BY <2>1, <2>2 DEF BarrierInv
  <2>5. ASSUME NEW t \in Stream PROVE flushed'[t] = epoch /\ Pending(t)' = {}
    <3>1. Opened(t) /\ Pending(t) = {}
      BY <2>3, <2>4 DEF Behind
    <3>2. Reaches(t)
      BY <2>2, <3>1 DEF ReachInv, SentTo
    <3>3. flushed'[t] = flushed[t] /\ Pending(t)' = Pending(t)
      BY <2>2, StreamStays DEF StreamsSame, ThreadSame, CodecSame
    <3> QED
      BY <3>1, <3>2, <3>3 DEF Reaches
  <2> QED
    BY <1>3, <2>2, <2>5 DEF FlushPlaces
<1> QED
  BY <1>2, <1>4, <1>5

\* A message that is no packet moves only within the queue and the hands of a
\* thread.
LEMMA MovesInHands ==
  ASSUME NEW s \in Stream, StreamTypes, ThreadMoves(s), NEW m, ~IsPacket(m),
         m \notin Main(s) \union Urgent(s) \union pMsg[s]
  PROVE  m \notin Main(s)' \union Urgent(s)' \union pMsg'[s]
<1>1. CASE Idles(s) \/ Answers(s)
  BY <1>1 DEF Idles, Answers, QueueSame
<1>2. CASE Takes(s)
  BY <1>2 DEF Takes, TakesUrgent, TakesMain
<1>3. CASE SendsAgain(s)
  <2>1. m \notin ToSet(m_packets[s])
    <3>1. m_packets[s] \in Seq(Messages("packet"))
      BY DEF StreamTypes
    <3>2. ToSet(m_packets[s]) \subseteq Messages("packet")
      BY <3>1, ToSetProperties
    <3> QED
      BY <3>2 DEF Messages, IsPacket
  <2> QED
    BY <1>3, <2>1 DEF SendsAgain
<1>4. CASE Returns(s)
  BY <1>4 DEF Returns
<1>5. CASE Flushes(s) \/ Consumes(s)
  BY <1>5 DEF Flushes, Consumes, QueueSame, LosesPackets
<1>6. CASE PutsBack(s)
  BY <1>6 DEF PutsBack
<1> QED
  BY <1>1, <1>2, <1>3, <1>4, <1>5, <1>6 DEF ThreadMoves

\* A stream whose player keeps no packets stays emptied while nothing is put.
LEMMA EmptiedStays ==
  ASSUME NEW s \in Stream, Orderly(s), KeepsNone(s), Emptied(s), ThreadMoves(s)
  PROVE  Emptied(s)'
<1>1. Main(s) = {} /\ \A x \in pMsg[s] : ~IsPacket(x)
  BY DEF Emptied
<1>2. CASE Idles(s) \/ Answers(s)
  BY <1>1, <1>2 DEF Idles, Answers, QueueSame, Emptied, IsPacket
<1>3. CASE Takes(s)
  <2>1. PICK x \in Message : pMsg'[s] = {x} /\ (TakesUrgent(s, x) \/ TakesMain(s, x))
    BY <1>3 DEF Takes
  <2>2. Main(s)' = {} /\ x \in Urgent(s)
    BY <1>1, <2>1 DEF TakesUrgent, TakesMain
  <2>3. ~IsPacket(x)
    BY <2>2 DEF Orderly
  <2> QED
    BY <2>1, <2>2, <2>3 DEF Emptied, IsPacket
<1>4. CASE SendsAgain(s)
  BY <1>1, <1>4 DEF SendsAgain, Emptied, IsPacket
<1>5. CASE Returns(s) \/ Flushes(s) \/ Consumes(s)
  BY <1>1, <1>5 DEF Returns, Flushes, Consumes, QueueSame, LosesPackets, Emptied
<1>6. CASE PutsBack(s)
  BY <1>1, <1>6 DEF PutsBack
<1> QED
  BY <1>2, <1>3, <1>4, <1>5, <1>6 DEF ThreadMoves

\* Answers that a message has got.
LEMMA AnswerReaches ==
  ASSUME StreamTypes, NEW s \in Stream, ThreadMoves(s), NEW m \in Message
  PROVE  \/ reached'[m] = reached[m]
         \/ /\ Answers(s) /\ m \in pMsg[s]
            /\ reached'[m] = reached[m] \union ({s, AnySource} \intersect sources[m])
<1>1. CASE ~Answers(s)
  BY <1>1 DEF ThreadMoves, Idles, Takes, SendsAgain, Returns, Flushes, Consumes, PutsBack
<1>2. CASE Answers(s)
  <2>1. PICK n \in pMsg[s] :
          reached' = [reached EXCEPT ![n] = @ \union ({s, AnySource} \intersect sources[n])]
    BY <1>2 DEF Answers
  <2>2. reached \in [Message -> SUBSET Answerer]
    BY DEF StreamTypes
  <2> QED
    BY <1>2, <2>1, <2>2
<1> QED
  BY <1>1, <1>2

\* Ordinary messages are messages.
LEMMA MainMessages ==
  ASSUME StreamTypes, NEW s \in Stream
  PROVE  Main(s) \subseteq Message
<1>1. queues[s].m_messages \in Seq(Item({0}))
  BY DEF StreamTypes, Sound, Queue
<1>2. \A i \in DOMAIN queues[s].m_messages : queues[s].m_messages[i] \in Item({0})
  BY <1>1
<1> QED
  BY <1>2 DEF Main, Msgs, Item

\* Its thread's steps keep that.
LEMMA DrainsStays ==
  ASSUME StreamTypes, NEW s \in Stream, Orderly(s), ThreadMoves(s), NEW m \in Message,
         IsSync(m), sources[m] = {AnySource}, reached[m] \subseteq {AnySource},
         sources' = sources, Drains(s, m)
  PROVE  Drains(s, m)'
<1>1. ~IsPacket(m) /\ ~IsFlush(m)
  BY OneType
<1>2. m \notin Urgent(s)'
  <2>1. CASE Idles(s) \/ Answers(s) \/ Consumes(s)
    BY <2>1 DEF Idles, Answers, Consumes, QueueSame, Drains
  <2>2. CASE Takes(s)
    BY <2>2 DEF Takes, TakesUrgent, TakesMain, Drains
  <2>3. CASE SendsAgain(s)
    <3>1. m \notin ToSet(m_packets[s])
      <4>1. m_packets[s] \in Seq(Messages("packet"))
        BY DEF StreamTypes
      <4>2. ToSet(m_packets[s]) \subseteq Messages("packet")
        BY <4>1, ToSetProperties
      <4> QED
        BY <1>1, <4>2 DEF Messages, IsPacket
    <3> QED
      BY <2>3, <3>1 DEF SendsAgain, Drains
  <2>4. CASE Returns(s)
    <3>1. PICK n \in pMsg[s] :
            \/ Urgent(s)' = Urgent(s)
            \/ ~Complete(n) /\ Urgent(s)' = Urgent(s) \union {n}
      BY <2>4 DEF Returns
    <3>2. n = m => Complete(n)
      BY <2>4 DEF Returns, Drains, Complete
    <3> QED
      BY <3>1, <3>2 DEF Drains
  <2>5. CASE Flushes(s)
    BY <2>5 DEF Flushes, QueueSame, LosesPackets, Drains
  <2>6. CASE PutsBack(s)
    BY <2>6 DEF PutsBack, Drains
  <2> QED
    BY <2>1, <2>2, <2>3, <2>4, <2>5, <2>6 DEF ThreadMoves
<1>3. \/ reached'[m] = reached[m]
      \/ /\ Answers(s) /\ m \in pMsg[s]
         /\ reached'[m] = reached[m] \union ({s, AnySource} \intersect sources[m])
  BY AnswerReaches
<1>4. at'[s] = "sync" /\ m \in pMsg'[s] => reached'[m] = {AnySource}
  <2>1. SUFFICES ASSUME at'[s] = "sync", m \in pMsg'[s] PROVE reached'[m] = {AnySource}
    OBVIOUS
  <2>2. Answers(s)
    BY <2>1 DEF ThreadMoves, Idles, Takes, SendsAgain, Returns, Flushes, Consumes, PutsBack
  <2>3. PICK n \in pMsg[s] :
          reached' = [reached EXCEPT ![n] = @ \union ({s, AnySource} \intersect sources[n])]
    BY <2>2 DEF Answers
  <2>4. m = n
    BY <2>1, <2>2, <2>3 DEF Answers, Orderly
  <2> QED
    BY <2>3, <2>4 DEF StreamTypes
<1>5. ASSUME KeepsNone(s) PROVE \A a \in Message : <<a, m>> \notin MainOrder(s)'
  <2>1. CASE PutsBack(s)
    BY <1>1, <1>5, <2>1 DEF PutsBack, Drains
  <2>2. CASE ~PutsBack(s)
    <3>1. MainOrder(s)' \subseteq MainOrder(s)
      BY <2>2 DEF ThreadMoves, Idles, Answers, Takes, TakesUrgent, TakesMain, SendsAgain,
                  Returns, Flushes, Consumes, QueueSame, LosesPackets
    <3> QED
      BY <1>5, <3>1 DEF Drains
  <2> QED
    BY <2>1, <2>2
<1>6. ASSUME KeepsNone(s), m \in pMsg'[s] \/ reached'[m] # {} PROVE Emptied(s)'
  <2>1. CASE m \in pMsg[s] \/ reached[m] # {}
    BY <1>6, <2>1, EmptiedStays DEF Drains
  <2>2. CASE m \notin pMsg[s] /\ reached[m] = {}
    <3>1. m \in pMsg'[s]
      BY <1>3, <1>6, <2>2
    <3>2. Takes(s)
      BY <2>2, <3>1 DEF ThreadMoves, Idles, Answers, SendsAgain, Returns, Flushes, Consumes,
                        PutsBack
    <3>3. PICK x \in Message : pMsg'[s] = {x} /\ (TakesUrgent(s, x) \/ TakesMain(s, x))
      BY <3>2 DEF Takes
    <3>4. x = m /\ TakesMain(s, x)
      BY <3>1, <3>3 DEF TakesUrgent, Drains
    <3>5. Main(s)' \subseteq Message
      BY <3>4, MainMessages DEF TakesMain
    <3>6. Main(s)' = {}
      BY <1>6, <3>4, <3>5 DEF TakesMain, Drains
    <3> QED
      BY <1>1, <3>3, <3>4, <3>6 DEF Emptied, IsPacket
  <2> QED
    BY <2>1, <2>2
<1> QED
  BY <1>2, <1>4, <1>5, <1>6 DEF Drains, KeepsNone

\* A stream that the step leaves alone.
LEMMA DrainsElsewhere ==
  ASSUME NEW s \in Stream, NEW m, Drains(s, m), QueueSame(s), ThreadSame(s),
         reached'[m] = reached[m]
  PROVE  Drains(s, m)'
<1>1. /\ Urgent(s)' = Urgent(s) /\ MainOrder(s)' = MainOrder(s) /\ Main(s)' = Main(s)
      /\ pMsg'[s] = pMsg[s] /\ at'[s] = at[s]
  BY DEF QueueSame, ThreadSame
<1>2. Emptied(s)' <=> Emptied(s)
  BY <1>1 DEF Emptied, IsPacket
<1> QED
  BY <1>1, <1>2 DEF Drains, KeepsNone

\* The part of the message that WaitUntilEmpty waits for.
LEMMA DrainInvStep ==
  ASSUME StreamTypes, ThreadInv, UnsentInv, DrainInv, StreamMoves
  PROVE  DrainInv'
<1> DEFINE Waits(m) ==
             /\ IsSync(m) /\ sources[m] = {AnySource} /\ reached[m] \subseteq {AnySource}
             /\ \A t \in Stream \ closing :
                  m \notin Main(t) \union Urgent(t) \union pMsg[t]
             /\ \A s \in closing : Drains(s, m)
<1>1. DrainInv <=> (player = "waitDrain" => \A m \in waitsFor : Waits(m))
  BY DEF DrainInv
<1>2. DrainInv' <=> (player' = "waitDrain" => \A m \in waitsFor' : Waits(m)')
  BY DEF DrainInv, IsSync
<1>3. SUFFICES ASSUME player' = "waitDrain", NEW m \in waitsFor' PROVE Waits(m)'
  BY <1>2
<1>4. ASSUME NEW s \in Stream, ThreadMoves(s) PROVE Waits(m)'
  <2>1. /\ player' = player /\ waitsFor' = waitsFor /\ sources' = sources
        /\ closing' = closing /\ OthersSame(s)
    BY <1>4, MovesElsewhere DEF PlayerSame
  <2>2. Waits(m) /\ m \in Message
    BY <1>1, <1>3, <2>1 DEF StreamTypes
  <2>3. ~IsPacket(m)
    BY <2>2, OneType
  <2>4. \/ reached'[m] = reached[m]
        \/ /\ Answers(s) /\ m \in pMsg[s]
           /\ reached'[m] = reached[m] \union ({s, AnySource} \intersect sources[m])
    BY <1>4, <2>2, AnswerReaches
  <2>5. reached'[m] \subseteq {AnySource}
    BY <2>2, <2>4
  <2>6. ASSUME NEW t \in Stream \ closing
        PROVE  m \notin Main(t)' \union Urgent(t)' \union pMsg'[t]
    <3>1. CASE t = s
      BY <1>4, <2>2, <2>3, <3>1, MovesInHands
    <3>2. CASE t # s
      BY <2>1, <2>2, <3>2 DEF OthersSame, QueueSame, ThreadSame
    <3> QED
      BY <3>1, <3>2
  <2>7. ASSUME NEW t \in closing PROVE Drains(t, m)'
    <3>1. Drains(t, m) /\ t \in Stream
      BY <2>2 DEF StreamTypes
    <3>2. CASE t = s
      BY <1>4, <2>1, <2>2, <3>1, <3>2, DrainsStays DEF ThreadInv
    <3>3. CASE t # s
      <4>1. s \in Stream \ closing
        BY <3>3 DEF ThreadInv
      <4>2. m \notin pMsg[s]
        BY <2>2, <4>1
      <4>3. reached'[m] = reached[m]
        BY <2>4, <4>2
      <4> QED
        BY <2>1, <3>1, <3>3, <4>3, DrainsElsewhere DEF OthersSame
    <3> QED
      BY <3>2, <3>3
  <2> QED
    BY <2>1, <2>2, <2>5, <2>6, <2>7 DEF IsSync
<1>5. ASSUME NEW s \in Stream, Opens(s) \/ Ends(s) PROVE FALSE
  BY <1>3, <1>5 DEF Opens, Ends, PlayerSame
<1>6. ASSUME BeginsFlush PROVE FALSE
  BY <1>3, <1>6 DEF BeginsFlush
<1>7. ASSUME PlayerQuiet PROVE Waits(m)'
  <2>1. StreamsSame /\ player' = player /\ waitsFor' = waitsFor /\ closing' = closing
    BY <1>3, <1>7 DEF PlayerQuiet, PlayerStays, PlayerSkips, PlayerSynchronized,
                      PlayerCloses, PlayerDrained
  <2>2. Waits(m)
    BY <1>1, <1>3, <2>1
  <2>3. /\ sources' = sources /\ reached' = reached
        /\ \A t \in Stream : QueueSame(t) /\ ThreadSame(t)
    BY <2>1 DEF StreamsSame
  <2>4. \A t \in Stream : Main(t)' = Main(t) /\ Urgent(t)' = Urgent(t) /\ pMsg'[t] = pMsg[t]
    BY <2>3 DEF QueueSame, ThreadSame
  <2>5. \A t \in closing : Drains(t, m)'
    BY <2>2, <2>3, DrainsElsewhere DEF StreamTypes
  <2> QED
    BY <2>1, <2>2, <2>3, <2>4, <2>5 DEF IsSync
<1>8. ASSUME PlayerSends PROVE Waits(m)'
  <2>1. PICK s \in Stream, n \in Message : SendsDrain(s, n)
    BY <1>3, <1>8 DEF PlayerSends, SendsPacket, SendsFlush, SendsBarrier,
                      SendsBarrierAgain
  <2>2. /\ m = n /\ IsSync(m) /\ New(m) /\ PutsMain(s, m) /\ s \in closing
        /\ sources' = [sources EXCEPT ![m] = {AnySource}]
    BY <1>3, <2>1 DEF SendsDrain
  <2>3. sources'[m] = {AnySource}
    BY <2>1, <2>2 DEF StreamTypes
  <2>4. reached'[m] = {} /\ \A t \in Stream : m \notin Holding(t)
    BY <2>2 DEF New, PutsMain, Puts, UnsentInv
  <2>5. OthersSame(s) /\ ThreadSame(s) /\ closing' = closing
    BY <2>2 DEF PutsMain, Puts
  <2>6. \A t \in Stream : m \notin Main(t) /\ m \notin Urgent(t) /\ m \notin pMsg[t]
    BY <2>4 DEF Holding
  <2>7. \A t \in Stream : pMsg'[t] = pMsg[t] /\ Urgent(t)' = Urgent(t)
    BY <2>2, <2>5 DEF OthersSame, ThreadSame, QueueSame, PutsMain
  <2>8. ASSUME NEW t \in Stream \ closing PROVE m \notin Main(t)'
    <3>1. t # s
      BY <2>2
    <3> QED
      BY <2>5, <2>6, <3>1 DEF OthersSame, QueueSame
  <2>9. ASSUME NEW t \in closing PROVE Drains(t, m)'
    <3>1. t = s
      BY <2>2 DEF ThreadInv
    <3>2. \A a : <<a, m>> \notin MainOrder(s)
      BY <2>6, OrderMembers DEF MainOrder, Main, Msgs
    <3>3. MainOrder(s)' \subseteq MainOrder(s) \union ({m} \X Main(s))
      BY <2>2 DEF PutsMain
    <3>4. \A a : <<a, m>> \notin MainOrder(s)'
      BY <2>6, <3>2, <3>3
    <3> QED
      BY <2>4, <2>6, <2>7, <3>1, <3>4 DEF Drains
  <2> QED
    BY <2>2, <2>3, <2>4, <2>5, <2>6, <2>7, <2>8, <2>9 DEF IsSync
<1> QED
  BY <1>4, <1>5, <1>6, <1>7, <1>8 DEF StreamMoves

\* The part of a stream that was drained.
LEMMA DrainedInvStep ==
  ASSUME StreamTypes, ThreadInv, DrainInv, DrainedInv, StreamMoves
  PROVE  DrainedInv'
<1>1. SUFFICES ASSUME player' = "drained", drainEnd' = "reached", NEW t \in closing',
                      KeepsNone(t)
               PROVE  Emptied(t)'
  BY DEF DrainedInv, KeepsNone
<1>2. ASSUME NEW s, QueueSame(s), ThreadSame(s), Emptied(s) PROVE Emptied(s)'
  BY <1>2 DEF QueueSame, ThreadSame, Emptied, IsPacket
<1>3. ASSUME NEW s \in Stream, ThreadMoves(s) PROVE Emptied(t)'
  <2>1. /\ player' = player /\ drainEnd' = drainEnd /\ closing' = closing /\ OthersSame(s)
    BY <1>3, MovesElsewhere DEF PlayerSame
  <2>2. t \in Stream /\ Emptied(t)
    BY <1>1, <2>1 DEF DrainedInv, StreamTypes
  <2>3. CASE t = s
    BY <1>1, <1>3, <2>2, <2>3, EmptiedStays DEF ThreadInv
  <2>4. CASE t # s
    BY <1>2, <2>1, <2>2, <2>4 DEF OthersSame
  <2> QED
    BY <2>3, <2>4
<1>4. ASSUME NEW s \in Stream, Opens(s) \/ Ends(s) PROVE FALSE
  BY <1>1, <1>4 DEF Opens, Ends, PlayerSame
<1>5. ASSUME BeginsFlush \/ PlayerSends PROVE FALSE
  BY <1>1, <1>5 DEF BeginsFlush, PlayerSends, SendsPacket, SendsFlush, SendsDrain,
                    SendsBarrier, SendsBarrierAgain
<1>6. CASE PlayerStays \/ PlayerDrained
  <2>1. StreamsSame /\ closing' = closing /\ t \in Stream
    BY <1>1, <1>6 DEF PlayerStays, PlayerDrained, StreamTypes
  <2>2. Emptied(t)
    <3>1. CASE PlayerStays
      BY <1>1, <2>1, <3>1 DEF PlayerStays, DrainedInv
    <3>2. CASE PlayerDrained
      <4>1. PICK m \in waitsFor : drainEnd' = EndOf(m)
        BY <3>2 DEF PlayerDrained
      <4>2. sources[m] = {AnySource} /\ Drains(t, m)
        BY <1>1, <2>1, <3>2, <4>1 DEF PlayerDrained, DrainInv
      <4>3. reached[m] # {}
        BY <1>1, <4>1, <4>2 DEF EndOf, Complete
      <4> QED
        BY <1>1, <4>2, <4>3 DEF Drains
    <3> QED
      BY <1>6, <3>1, <3>2
  <2> QED
    BY <1>2, <2>1, <2>2 DEF StreamsSame
<1>7. ASSUME PlayerSkips \/ PlayerSynchronized \/ PlayerCloses PROVE FALSE
  BY <1>1, <1>7 DEF PlayerSkips, PlayerSynchronized, PlayerCloses
<1> QED
  BY <1>3, <1>4, <1>5, <1>6, <1>7 DEF StreamMoves, PlayerQuiet

\* What is in the lists is what is queued; a packet that is present is held.
LEMMA PresentPackets ==
  ASSUME NEW s
  PROVE  /\ Queued(s) = Main(s) \union Urgent(s)
         /\ Present(s) = {m \in Holding(s) : IsPacket(m)}
<1>1. Queued(s) = Main(s) \union Urgent(s)
  BY DEF Queued, Main, Urgent, Msgs, ToSet
<1> QED
  BY <1>1 DEF Present, Holding

\* What is held in the next state is held already, or it is sent.
LEMMA HoldingMoves ==
  ASSUME StreamTypes, ThreadInv, BarrierInv, StreamMoves, NEW t \in Stream,
         NEW m \in Holding(t)', IsPacket(m)
  PROVE  m \in Holding(t) \/ (m \in unsent /\ New(m))
<1>1. QueueSame(t) /\ ThreadSame(t) => Holding(t)' = Holding(t)
  BY StreamStays
<1>2. ASSUME NEW s \in Stream, ThreadMoves(s) PROVE m \in Holding(t)
  <2>1. OthersSame(s) /\ Holding(s)' \subseteq Holding(s)
    BY <1>2, MovesElsewhere, ThreadMovesHolding DEF ThreadInv
  <2> QED
    BY <1>1, <2>1 DEF OthersSame
<1>3. ASSUME NEW s \in Stream, Opens(s) \/ Ends(s) PROVE m \in Holding(t)
  <2>1. /\ OthersSame(s) /\ Main(s)' \subseteq Main(s) /\ Urgent(s)' \subseteq Urgent(s)
        /\ pMsg'[s] = pMsg[s] /\ codec'[s] = {}
        /\ m_packets'[s] = m_packets[s] \/ m_packets'[s] = <<>>
    BY <1>3, MovesElsewhere DEF Opens, Ends
  <2>2. ToSet(m_packets'[s]) \subseteq ToSet(m_packets[s])
    BY <2>1 DEF ToSet
  <2>3. Holding(s)' \subseteq Holding(s)
    BY <2>1, <2>2 DEF Holding
  <2> QED
    BY <1>1, <2>1, <2>3 DEF OthersSame
<1>4. ASSUME PlayerQuiet PROVE m \in Holding(t)
  <2>1. StreamsSame
    BY <1>4 DEF PlayerQuiet, PlayerStays, PlayerSkips, PlayerSynchronized, PlayerCloses,
                PlayerDrained
  <2> QED
    BY <1>1, <2>1 DEF StreamsSame
<1>5. ASSUME BeginsFlush PROVE m \in Holding(t)
  <2>1. /\ OthersSame("audio") /\ ThreadSame("audio")
        /\ Main("audio")' \subseteq Main("audio") /\ Urgent("audio")' \subseteq Urgent("audio")
    BY <1>5 DEF BeginsFlush, LosesPackets
  <2>2. Holding("audio")' \subseteq Holding("audio")
    BY <2>1 DEF Holding, ThreadSame, CodecSame
  <2> QED
    BY <1>1, <2>1, <2>2 DEF OthersSame
<1>6. ASSUME PlayerSends PROVE m \in Holding(t) \/ (m \in unsent /\ New(m))
  <2>1. PICK n \in Message, s \in Stream :
          /\ PutsMain(s, n) \/ PutsUrgent(s, n)
          /\ \/ New(n) /\ (waitsFor' = waitsFor \/ waitsFor' = {n})
             \/ SendsBarrierAgain(n) /\ s = "video"
    BY <1>6, SendsNew
  <2>2. Holding(t)' \subseteq Holding(t) \union {n}
    BY <2>1, PutsHolding
  <2>3. CASE New(n)
    BY <2>2, <2>3 DEF New
  <2>4. CASE SendsBarrierAgain(n)
    <3>1. ~IsPacket(n)
      BY <2>4, OneType DEF SendsBarrierAgain, BarrierInv
    <3> QED
      BY <2>2, <3>1
  <2> QED
    BY <2>1, <2>3, <2>4
<1> QED
  BY <1>2, <1>3, <1>4, <1>5, <1>6 DEF StreamMoves

\* The part of the packets from before the flush that the video player handled.
LEMMA VideoFlushedStep ==
  ASSUME StreamTypes, ThreadInv, UnsentInv, EpochInv, BarrierInv, VideoFlushed,
         StreamMoves
  PROVE  VideoFlushed'
<1>1. "video" \in Stream
  BY DEF Stream
<1>2. Present("video")' = {m \in Holding("video")' : IsPacket(m)}
  <2>1. Queued("video")' = Main("video")' \union Urgent("video")'
    BY DEF Queued, Main, Urgent, Msgs, ToSet
  <2> QED
    BY <2>1 DEF Present, Holding, IsPacket
<1>3. SUFFICES ASSUME NEW m \in Holding("video")', IsPacket(m)
               PROVE  sentIn'[m] >= flushed'["video"]
  BY <1>2 DEF VideoFlushed
<1>4. CASE Flushes("video")
  <2>1. /\ \A n \in Main("video")' \union Urgent("video")' : ~IsPacket(n)
        /\ pMsg'["video"] = {} /\ codec'["video"] = {} /\ m_packets'["video"] = <<>>
    BY <1>4 DEF Flushes, LosesPackets
  <2>2. ToSet(m_packets'["video"]) = {}
    BY <2>1 DEF ToSet
  <2> QED
    BY <1>3, <2>1, <2>2 DEF Holding
<1>5. CASE ~Flushes("video")
  <2>1. flushed'["video"] = flushed["video"]
    BY <1>1, <1>5, FlushChanges
       DEF FlushKept, Takes, CodecSame, Opens, Ends, SendsFlush, PutsUrgent, Puts, ThreadSame
  <2>2. m \in Holding("video") \/ (m \in unsent /\ New(m))
    BY <1>1, <1>3, HoldingMoves
  <2>3. CASE m \in Holding("video")
    <3>1. sentIn'[m] = sentIn[m]
      BY <1>1, <2>3, SentKept
    <3>2. m \in Present("video")
      BY <1>3, <2>3, PresentPackets
    <3> QED
      BY <2>1, <3>1, <3>2 DEF VideoFlushed
  <2>4. CASE m \in unsent /\ New(m)
    <3>1. sentIn'[m] = epoch
      BY <2>4 DEF New, StreamTypes
    <3>2. flushed["video"] <= epoch
      BY <1>1 DEF EpochInv, InTurn
    <3>3. flushed["video"] \in Int /\ epoch \in Int
      BY <1>1 DEF StreamTypes
    <3> QED
      BY <2>1, <3>1, <3>2, <3>3
  <2> QED
    BY <2>2, <2>3, <2>4
<1> QED
  BY <1>4, <1>5

-----------------------------------------------------------------------------
(* The stream players: the theorems.                                       *)

\* The invariant holds at the beginning.
LEMMA StreamInvInit == StreamInit => StreamInv
<1> SUFFICES ASSUME StreamInit PROVE StreamInv
  OBVIOUS
<1>1. NewQueue \in Queue
  <2>1. <<>> \in Seq(Item({0})) /\ <<>> \in Seq(Item(Priority \ {0})) /\ NoPts \in Time
    BY DEF Time
  <2> HIDE DEF NoPts
  <2> QED
    BY <2>1 DEF NewQueue, Queue
<1>2. Sound(NewQueue)
  <2>1. <<>> \in Seq(Item({0})) /\ DOMAIN <<>> = {}
    OBVIOUS
  <2>2. HasSize(<<>>, 0)
    BY <2>1, NoSize
  <2> QED
    BY <1>1, <2>2 DEF Sound, NewQueue, TimesTogether
<1>3. /\ queues = [s \in Stream |-> NewQueue]
      /\ unsent = Message /\ epoch = 0 /\ sentIn = [m \in Message |-> 0]
      /\ player = "run" /\ closing = {} /\ waitsFor = {} /\ flushEnd = "none"
      /\ sources = [m \in Message |-> {}] /\ reached = [m \in Message |-> {}]
      /\ at = [s \in Stream |-> "none"] /\ priority = [s \in Stream |-> 0]
      /\ pMsg = [s \in Stream |-> {}] /\ codec = [s \in Stream |-> {}]
      /\ m_packets = [s \in Stream |-> <<>>] /\ flushed = [s \in Stream |-> 0]
  BY DEF StreamInit
<1>4. 0 \in 0 .. MaxEpoch
  BY StreamAssumption
<1>5. StreamTypes
  <2>1. queues \in [Stream -> Queue] /\ \A s \in Stream : Sound(queues[s])
    BY <1>1, <1>2, <1>3
  <2>2. <<>> \in Seq(Messages("packet"))
    OBVIOUS
  <2>3. m_packets \in [Stream -> Seq(Messages("packet"))]
    BY <1>3, <2>2
  <2>4. /\ sources \in [Message -> SUBSET Answerer]
        /\ reached \in [Message -> SUBSET Answerer]
        /\ sentIn \in [Message -> 0 .. MaxEpoch] /\ flushed \in [Stream -> 0 .. MaxEpoch]
        /\ at \in [Stream -> Place] /\ priority \in [Stream -> {0, 1}]
        /\ pMsg \in [Stream -> SUBSET Message] /\ codec \in [Stream -> SUBSET Message]
    BY <1>3, <1>4 DEF Place
  <2> QED
    BY <1>3, <1>4, <2>1, <2>3, <2>4 DEF StreamTypes, PlayerPlace
<1>6. \A s \in Stream :
        /\ Main(s) = {} /\ Urgent(s) = {} /\ UrgentOrder(s) = {} /\ pMsg[s] = {}
        /\ codec[s] = {} /\ m_packets[s] = <<>> /\ at[s] = "none" /\ flushed[s] = 0
        /\ ~Opened(s)
  <2>1. Msgs(<<>>) = {} /\ Order(<<>>) = {}
    BY DEF Msgs, Order
  <2> QED
    BY <1>3, <2>1 DEF Main, Urgent, UrgentOrder, Opened, NewQueue
<1>7. \A s \in Stream : Holding(s) = {} /\ Pending(s) = {}
  BY <1>6 DEF Holding, Pending, ToSet
<1>8. ThreadInv
  BY <1>3, <1>6 DEF ThreadInv, Orderly
<1>9. UnsentInv
  BY <1>3, <1>7 DEF UnsentInv
<1>10. EpochInv
  BY <1>3, <1>6, <1>7 DEF EpochInv, InTurn
<1>11. ReachInv /\ BarrierInv /\ AnsweredInv /\ DrainInv /\ DrainedInv
  BY <1>3, <1>6 DEF ReachInv, BarrierInv, AnsweredInv, DrainInv, DrainedInv
<1>12. VideoFlushed
  <2>1. "video" \in Stream
    BY DEF Stream
  <2> QED
    BY <1>7, <2>1, PresentPackets DEF VideoFlushed
<1> QED
  BY <1>5, <1>8, <1>9, <1>10, <1>11, <1>12 DEF StreamInv

\* A step that changes nothing.
LEMMA StreamStutter ==
  ASSUME StreamTypes, UNCHANGED streamVars
  PROVE  StreamMoves /\ StreamTypes'
<1>1. /\ queues' = queues /\ unsent' = unsent /\ sentIn' = sentIn /\ player' = player
      /\ m_bStop' = m_bStop /\ closing' = closing /\ waitsFor' = waitsFor
      /\ flushEnd' = flushEnd /\ drainEnd' = drainEnd /\ epoch' = epoch
      /\ sources' = sources /\ reached' = reached /\ at' = at /\ priority' = priority
      /\ pMsg' = pMsg /\ codec' = codec /\ m_packets' = m_packets /\ flushed' = flushed
  BY DEF streamVars, playerVars, syncVars, threadVars
<1>2. \A s \in Stream : QueueSame(s) /\ ThreadSame(s)
  BY <1>1, ListsSame DEF ThreadSame, CodecSame
<1>3. PlayerStays
  BY <1>1, <1>2 DEF PlayerStays, StreamsSame
<1>4. StreamTypes'
  BY <1>1 DEF StreamTypes
<1> QED
  BY <1>3, <1>4 DEF StreamMoves, PlayerQuiet

\* Every step keeps the invariant.
LEMMA StreamInvStep == StreamInv /\ [StreamNext]_streamVars => StreamInv'
<1> SUFFICES ASSUME StreamInv, [StreamNext]_streamVars PROVE StreamInv'
  OBVIOUS
<1>1. /\ StreamTypes /\ ThreadInv /\ UnsentInv /\ EpochInv /\ ReachInv /\ BarrierInv
      /\ AnsweredInv /\ DrainInv /\ DrainedInv /\ VideoFlushed
  BY DEF StreamInv
<1>2. StreamMoves /\ StreamTypes'
  BY <1>1, StepEffect, StreamStutter
<1>3. ThreadInv' /\ UnsentInv'
  BY <1>1, <1>2, ThreadInvStep, UnsentInvStep
<1>4. EpochInv' /\ ReachInv'
  BY <1>1, <1>2, EpochInvStep, ReachInvStep
<1>5. BarrierInv' /\ AnsweredInv'
  BY <1>1, <1>2, BarrierInvStep, AnsweredInvStep
<1>6. DrainInv' /\ DrainedInv'
  BY <1>1, <1>2, DrainInvStep, DrainedInvStep
<1>7. VideoFlushed'
  BY <1>1, <1>2, VideoFlushedStep
<1> QED
  BY <1>2, <1>3, <1>4, <1>5, <1>6, <1>7 DEF StreamInv

\* The invariant of every reachable state.
LEMMA StreamInvariance == StreamSpec => []StreamInv
BY StreamInvInit, StreamInvStep, PTL DEF StreamSpec

\* The barrier of FlushBuffers means what it is waited for, for any messages and any
\* number of flushes: when both players have answered, both have handled the last
\* GENERAL_FLUSH, and the video player has kept no packet from before the flush it
\* handled (VideoPlayer.cpp, FlushBuffers; VideoPlayerVideo.cpp, Process).
THEOREM FlushIsComplete == StreamSpec => []FlushComplete
<1>1. StreamInv => FlushComplete
  BY DEF StreamInv, AnsweredInv, FlushComplete, BarrierFlushes
<1> QED
  BY <1>1, StreamInvariance, PTL

\* When WaitUntilEmpty was answered, what was put before was taken: the queue of a
\* player that keeps no packets holds no ordinary message (DVDMessageQueue.cpp,
\* WaitUntilEmpty).
THEOREM DrainIsComplete == StreamSpec => []DrainEmpties
<1>1. StreamInv => DrainEmpties
  <2> SUFFICES ASSUME StreamInv, player = "drained", drainEnd = "reached",
                      NEW s \in closing, s = "audio" \/ ConvergeCount = 0
               PROVE  queues[s].m_messages = <<>>
    BY DEF DrainEmpties
  <2>1. StreamTypes /\ DrainedInv
    BY DEF StreamInv
  <2>2. Main(s) = {}
    BY <2>1 DEF DrainedInv, KeepsNone, Emptied
  <2>3. queues[s].m_messages \in Seq(Item({0}))
    BY <2>1 DEF StreamTypes, Sound, Queue
  <2> QED
    BY <2>2, <2>3, EmptyMsgs DEF Main
<1> QED
  BY <1>1, StreamInvariance, PTL

\* A stream player runs only while its queue is initialized, and the variables have
\* their types: the thread is joined before End (VideoPlayerAudio.cpp and
\* VideoPlayerVideo.cpp, CloseStream).
THEOREM QueueOutlivesThread == StreamSpec => []NoGetAfterEnd
<1>1. StreamInv => NoGetAfterEnd
  <2> SUFFICES ASSUME StreamInv PROVE NoGetAfterEnd
    OBVIOUS
  <2>1. StreamTypes /\ ThreadInv
    BY DEF StreamInv
  <2>2. ASSUME NEW s \in Stream
        PROVE  /\ \A i \in DOMAIN queues[s].m_messages :
                    queues[s].m_messages[i] \in [message : Message, priority : {0}]
               /\ \A i \in DOMAIN queues[s].m_prioMessages :
                    queues[s].m_prioMessages[i] \in [message : Message, priority : {1, 10}]
               /\ queues[s].m_iDataSize \in Nat
    <3>1. /\ queues[s].m_messages \in Seq(Item({0}))
          /\ queues[s].m_prioMessages \in Seq(Item(Priority \ {0}))
          /\ HasSize(queues[s].m_messages, queues[s].m_iDataSize)
      BY <2>1 DEF StreamTypes, Sound, Queue
    <3>2. queues[s].m_iDataSize \in Nat
      BY <3>1, SizeIsFold
    <3>3. \A i \in DOMAIN queues[s].m_messages : queues[s].m_messages[i] \in Item({0})
      BY <3>1
    <3>4. \A i \in DOMAIN queues[s].m_prioMessages :
            queues[s].m_prioMessages[i] \in Item(Priority \ {0})
      BY <3>1
    <3>5. Item({0}) = [message : Message, priority : {0}]
          /\ Item(Priority \ {0}) \subseteq [message : Message, priority : {1, 10}]
      BY DEF Item, Priority
    <3> QED
      BY <3>2, <3>3, <3>4, <3>5
  <2>3. StreamTypeOK
    BY <2>1, <2>2 DEF StreamTypeOK, StreamTypes, PlayerPlace, Place
  <2>4. \A s \in Stream : at[s] # "none" => queues[s].m_bInitialized
    BY <2>1 DEF ThreadInv, Orderly, Opened
  <2> QED
    BY <2>3, <2>4 DEF NoGetAfterEnd
<1> QED
  BY <1>1, StreamInvariance, PTL

=============================================================================
