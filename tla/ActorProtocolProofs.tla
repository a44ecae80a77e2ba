------------------------ MODULE ActorProtocolProofs ------------------------
(***************************************************************************)
(* Proofs about ActorProtocol: who holds a message, for any clients, calls *)
(* and number of messages.                                                 *)
(***************************************************************************)
EXTENDS ActorProtocol, SequenceProofs

Waits(c) == at[c] \in {"signalsync", "wait", "late"}

\* The reply that is on its way to a client: in the message it waits for, then in
\* its hands.
reply == [c \in Client |-> IF Waits(c) THEN fields[mine[c]].replyMessage ELSE retMsg[c]]

\* Nothing more is sent for a message that was answered or whose client gave up.
Settled(m, fl) == fl[m].replyMessage # None \/ fl[m].isSyncTimeout

\* Where the threads are tells what they hold.
ClientPhase(c) ==
  /\ mine[c] # None <=> Waits(c) \/ at[c] = "release"
  /\ retMsg[c] # None => at[c] \in {"release", "reply"}
  /\ at[c] = "reply" => retMsg[c] # None
  /\ Waits(c) => ~fields[mine[c]].isSyncTimeout
  /\ at[c] = "release" => Settled(mine[c], fields)
  /\ mine[c] # None /\ fields[mine[c]].event = "set" => Settled(mine[c], fields)

ActorPhase ==
  /\ msg # None <=> actor \in {"handle", "set", "handled"}
  /\ actor = "set" => fields[msg].isSync /\ Settled(msg, fields)

PhaseInv == (\A c \in Client : ClientPhase(c)) /\ ActorPhase

\* No message is twice in the queues.
QueueInv ==
  /\ IsInjective(freeMessageQueue) /\ IsInjective(outMessages) /\ IsInjective(inMessages)
  /\ msg \notin ToSet(outMessages)

\* The free messages F, the actor's A, the ones N that go back to the clients, the
\* ones that clients wait for and their replies are apart, but that a client and
\* the actor share the message of a call.
Apart(F, A, N, mn, rp) ==
  /\ F \cap A = {} /\ F \cap N = {} /\ A \cap N = {}
  /\ \A c \in Client : mn[c] # None => mn[c] \notin F /\ mn[c] \notin N
  /\ \A c \in Client : rp[c] # None => rp[c] \notin F /\ rp[c] \notin A /\ rp[c] \notin N
  /\ \A c, d \in Client : mn[c] # None => mn[c] # rp[d] /\ (mn[c] = mn[d] => c = d)
  /\ \A c, d \in Client : rp[c] # None => (rp[c] = rp[d] => c = d)

\* Who of the two owners has left, fl being the members of the messages, n the
\* calls and L the messages that are lost.
ClientOwns(A, mn, fl, n, L) ==
  \A c \in Client : mn[c] # None =>
    /\ fl[mn[c]].isSync /\ fl[mn[c]].signal = <<c, n[c]>>
    /\ IF fl[mn[c]].isSyncFini THEN mn[c] \notin A ELSE mn[c] \in A \cup L

ActorOwns(A, mn, fl) ==
  \A m \in A :
    /\ fl[m].event # "deleted"
    /\ fl[m].isSync => IF fl[m].isSyncFini THEN Settled(m, fl)
                       ELSE \E c \in Client : mn[c] = m

\* A message to a client has no second owner, a reply is to the present call.
ReplyOwns(N, rp, fl, n) ==
  /\ \A m \in N : ~fl[m].isSync
  /\ \A c \in Client : rp[c] # None => ~fl[rp[c]].isSync /\ fl[rp[c]].signal = <<c, n[c]>>

\* Every message that was made is somewhere, and no other is.
Everywhere(F, A, N, mn, rp, L) ==
  F \cup A \cup N \cup {mn[c] : c \in Client} \cup {rp[c] : c \in Client} \cup L \cup {None}

HoldInv ==
  /\ Apart(ToSet(freeMessageQueue), ToActor, ToSet(inMessages), mine, reply)
  /\ ClientOwns(ToActor, mine, fields, calls, lost)
  /\ ActorOwns(ToActor, mine, fields)
  /\ ReplyOwns(ToSet(inMessages), reply, fields, calls)
  /\ Everywhere(ToSet(freeMessageQueue), ToActor, ToSet(inMessages), mine, reply, lost)
       = 1 .. made \cup {None}

IInv == TypeOK /\ PhaseInv /\ QueueInv /\ HoldInv
-----------------------------------------------------------------------------
(* Types.                                                                  *)

Fields ==
  [signal : Tags, isOut : BOOLEAN, isSync : BOOLEAN, isSyncFini : BOOLEAN,
   isSyncTimeout : BOOLEAN, event : {"none", "clear", "set", "deleted"},
   replyMessage : Message \cup {None}]

\* The number None is not one of a message.
LEMMA Numbers ==
  /\ Made \in Nat /\ Ticks \in Nat /\ Calls \in [Client -> Nat]
  /\ None \notin Message /\ \A m \in Message : m \in Nat /\ m # None
  /\ NoTag \in Tags
  BY ActorAssumption DEF Message, None, NoTag, Tags

\* What a message is set to.
LEMMA FreshFields ==
  ASSUME NEW tag \in Tags, NEW out \in BOOLEAN
  PROVE  /\ Fresh(tag, out) \in Fields
         /\ Fresh(tag, out).signal = tag /\ ~Fresh(tag, out).isSync
         /\ ~Fresh(tag, out).isSyncFini /\ ~Fresh(tag, out).isSyncTimeout
         /\ Fresh(tag, out).event = "none" /\ Fresh(tag, out).replyMessage = None
  BY DEF Fresh, Fields

\* The queues and the fields, from TypeOK.
LEMMA TypesOf ==
  ASSUME TypeOK, PhaseInv
  PROVE  /\ fields \in [Message -> Fields]
         /\ freeMessageQueue \in Seq(Message) /\ outMessages \in Seq(Message)
         /\ inMessages \in Seq(Message) /\ msg \in Message \cup {None}
         /\ mine \in [Client -> Message \cup {None}]
         /\ retMsg \in [Client -> Message \cup {None}]
         /\ reply \in [Client -> Message \cup {None}]
         /\ ToActor \subseteq Message
         /\ ToSet(freeMessageQueue) \subseteq Message /\ ToSet(inMessages) \subseteq Message
<1>1. /\ fields \in [Message -> Fields]
      /\ freeMessageQueue \in Seq(Message) /\ outMessages \in Seq(Message)
      /\ inMessages \in Seq(Message) /\ msg \in Message \cup {None}
      /\ mine \in [Client -> Message \cup {None}]
      /\ retMsg \in [Client -> Message \cup {None}]
  BY DEF TypeOK, Fields
<1>2. /\ ToSet(freeMessageQueue) \subseteq Message /\ ToSet(inMessages) \subseteq Message
      /\ ToSet(outMessages) \subseteq Message
  BY <1>1, ToSetProperties
<1>3. ToActor \subseteq Message
  BY <1>1, <1>2 DEF ToActor
<1>4. reply \in [Client -> Message \cup {None}]
  <2> SUFFICES ASSUME NEW c \in Client, Waits(c)
               PROVE  fields[mine[c]].replyMessage \in Message \cup {None}
    BY <1>1 DEF reply
  <2>1. mine[c] \in Message
    BY <1>1 DEF PhaseInv, ClientPhase
  <2>2. fields[mine[c]] \in Fields
    BY <1>1, <2>1
  <2> QED
    BY <2>2 DEF Fields
<1> QED
  BY <1>1, <1>2, <1>3, <1>4

-----------------------------------------------------------------------------
(* GetMessage and Release.                                                 *)

\* A message that GetMessage gives is nobody's: it was free, or nobody had seen it.
LEMMA TakesFresh ==
  ASSUME IInv, GetMessage
  PROVE  /\ NewMessage \in Message /\ NewMessage # None
         /\ NewMessage \notin ToActor /\ NewMessage \notin ToSet(inMessages)
         /\ \A c \in Client : mine[c] # NewMessage /\ reply[c] # NewMessage
         /\ freeMessageQueue' \in Seq(Message) /\ IsInjective(freeMessageQueue')
         /\ ToSet(freeMessageQueue') = ToSet(freeMessageQueue) \ {NewMessage}
         /\ made' \in 0 .. Made
         /\ 1 .. made' \cup {None} = 1 .. made \cup {None, NewMessage}
<1> DEFINE F == ToSet(freeMessageQueue)
           x == NewMessage
<1>1. /\ freeMessageQueue \in Seq(Message) /\ F \subseteq Message /\ IsInjective(freeMessageQueue)
      /\ made \in 0 .. Made /\ made \in Nat /\ x \in Message /\ x # None
  BY TypesOf, Numbers DEF IInv, QueueInv, TypeOK, GetMessage
<1>2. /\ Everywhere(F, ToActor, ToSet(inMessages), mine, reply, lost) = 1 .. made \cup {None}
      /\ Apart(F, ToActor, ToSet(inMessages), mine, reply)
  BY DEF IInv, HoldInv
<1>3. CASE freeMessageQueue # <<>>
  <2>1. /\ freeMessageQueue' = Tail(freeMessageQueue) /\ made' = made
        /\ x = Head(freeMessageQueue)
    BY <1>3 DEF GetMessage, NewMessage
  <2>2. /\ freeMessageQueue' \in Seq(Message) /\ IsInjective(freeMessageQueue') /\ x \in F
        /\ ToSet(freeMessageQueue') = F \ {x}
    BY <1>1, <1>3, <2>1, InjectiveTail
  <2> HIDE DEF F, x
  <2>3. /\ x \notin ToActor /\ x \notin ToSet(inMessages)
        /\ \A c \in Client : mine[c] # x /\ reply[c] # x
    BY <1>1, <1>2, <2>2 DEF Apart
  <2>4. x \in 1 .. made
    BY <1>1, <1>2, <2>2 DEF Everywhere, None
  <2> QED
    BY <1>1, <2>1, <2>2, <2>3, <2>4 DEF F, x
<1>4. CASE freeMessageQueue = <<>>
  <2>1. freeMessageQueue' = freeMessageQueue /\ made' = made + 1 /\ x = made + 1
    BY <1>4 DEF GetMessage, NewMessage
  <2>2. F = {}
    BY <1>1, <1>4, ToSetProperties
  <2>3. x \notin 1 .. made \cup {None}
    BY <1>1, <2>1
  <2>4. made' \in 0 .. Made /\ 1 .. made' = 1 .. made \cup {x}
    BY <1>1, <2>1 DEF Message
  <2> HIDE DEF F, x
  <2>5. /\ x \notin ToActor /\ x \notin ToSet(inMessages)
        /\ \A c \in Client : mine[c] # x /\ reply[c] # x
    BY <1>2, <2>3 DEF Everywhere
  <2> QED
    BY <1>1, <2>1, <2>2, <2>4, <2>5 DEF F, x
<1> QED
  BY <1>3, <1>4

\* What Release does to the members of the message and to the free ones.
LEMMA ReleaseEffect ==
  ASSUME TypeOK, PhaseInv, IsInjective(freeMessageQueue), NEW m \in Message,
         m \notin ToSet(freeMessageQueue), Release(m)
  PROVE  /\ fields' \in [Message -> Fields]
         /\ \A l \in Message : l # m => fields'[l] = fields[l]
         /\ fields'[m].signal = fields[m].signal /\ fields'[m].isSync = fields[m].isSync
         /\ fields'[m].isSyncFini
         /\ fields'[m].isSyncTimeout = fields[m].isSyncTimeout
         /\ fields'[m].replyMessage = fields[m].replyMessage
         /\ Leaves(m) => fields'[m].event = fields[m].event
         /\ fields'[m].event = "set" => fields[m].event = "set"
         /\ freeMessageQueue' \in Seq(Message) /\ IsInjective(freeMessageQueue')
         /\ ToSet(freeMessageQueue') =
              IF Leaves(m) THEN ToSet(freeMessageQueue) ELSE ToSet(freeMessageQueue) \cup {m}
<1>1. fields \in [Message -> Fields] /\ freeMessageQueue \in Seq(Message)
  BY TypesOf
<1>2. fields[m] \in Fields
  BY <1>1
<1>3. CASE Leaves(m)
  <2>1. /\ fields' = [fields EXCEPT ![m] = [fields[m] EXCEPT !.isSyncFini = TRUE]]
        /\ freeMessageQueue' = freeMessageQueue
    BY <1>1, <1>3 DEF Release
  <2>2. [fields[m] EXCEPT !.isSyncFini = TRUE] \in Fields
    BY <1>2 DEF Fields
  <2> QED
    BY <1>1, <1>2, <1>3, <2>1, <2>2 DEF Fields
<1>4. CASE ~Leaves(m)
  <2> DEFINE ev == IF fields[m].event = "none" THEN "none" ELSE "deleted"
             r == [fields[m] EXCEPT !.isSyncFini = TRUE, !.event = ev]
  <2>1. freeMessageQueue' = Append(freeMessageQueue, m)
    BY <1>4 DEF Release
  <2>2. fields' = [fields EXCEPT ![m] = r]
    BY <1>1, <1>2, <1>4 DEF Release, Finished, Fields
  <2>3. /\ r \in Fields /\ r.signal = fields[m].signal /\ r.isSync = fields[m].isSync
        /\ r.isSyncFini /\ r.isSyncTimeout = fields[m].isSyncTimeout
        /\ r.replyMessage = fields[m].replyMessage /\ r.event # "set"
    BY <1>2 DEF Fields
  <2> HIDE DEF r
  <2>4. /\ freeMessageQueue' \in Seq(Message) /\ IsInjective(freeMessageQueue')
        /\ ToSet(freeMessageQueue') = ToSet(freeMessageQueue) \cup {m}
    BY <1>1, <2>1, InjectiveAppend
  <2> QED
    BY <1>1, <1>4, <2>2, <2>3, <2>4
<1> QED
  BY <1>3, <1>4
-----------------------------------------------------------------------------
(* Sending.                                                                *)

\* A call: a fresh message is its client's and the actor's.
LEMMA StepSend ==
  ASSUME IInv, NEW c \in Client, NEW sync \in BOOLEAN, Send(c, sync)
  PROVE  IInv'
<1> DEFINE F == ToSet(freeMessageQueue)
           N == ToSet(inMessages)
           x == NewMessage
           r == [Fresh(<<c, calls[c] + 1>>, TRUE) EXCEPT
                   !.isSync = sync, !.event = IF sync THEN "clear" ELSE "none"]
           h == IF sync THEN x ELSE None
<1>1. /\ fields \in [Message -> Fields] /\ outMessages \in Seq(Message)
      /\ inMessages \in Seq(Message) /\ msg \in Message \cup {None}
      /\ mine \in [Client -> Message \cup {None}]
      /\ retMsg \in [Client -> Message \cup {None}]
      /\ reply \in [Client -> Message \cup {None}]
      /\ ToActor \subseteq Message
  BY TypesOf DEF IInv
<1>2. /\ x \in Message /\ x # None /\ x \notin ToActor /\ x \notin N
      /\ \A d \in Client : mine[d] # x /\ reply[d] # x
      /\ freeMessageQueue' \in Seq(Message) /\ IsInjective(freeMessageQueue')
      /\ ToSet(freeMessageQueue') = F \ {x}
      /\ made' \in 0 .. Made /\ 1 .. made' \cup {None} = 1 .. made \cup {None, x}
  BY TakesFresh DEF Send
<1>3. /\ r \in Fields /\ r.signal = <<c, calls[c] + 1>> /\ r.isSync = sync /\ ~r.isSyncFini
      /\ ~r.isSyncTimeout /\ r.replyMessage = None /\ r.event \in {"clear", "none"}
  <2>1. calls[c] + 1 \in Nat
    BY DEF IInv, TypeOK
  <2>2. Fresh(<<c, calls[c] + 1>>, TRUE) \in Fields
    BY <2>1, FreshFields DEF Tags
  <2> QED
    BY <2>2 DEF Fields, Fresh
<1>4. /\ at[c] = "idle" /\ at' = [at EXCEPT ![c] = IF sync THEN "signalsync" ELSE "signal"]
      /\ calls' = [calls EXCEPT ![c] = calls[c] + 1] /\ calls[c] < Calls[c]
      /\ mine' = [mine EXCEPT ![c] = h] /\ retMsg' = retMsg
      /\ fields' = [fields EXCEPT ![x] = r]
      /\ outMessages' = Append(outMessages, x) /\ inMessages' = inMessages
      /\ UNCHANGED <<containerOutEvent, actorVars>>
  BY DEF Send, Go, Reset
<1>5. /\ at \in [Client -> {"idle", "signal", "signalsync", "wait", "late", "release", "reply"}]
      /\ calls \in [Client -> Nat]
  BY DEF IInv, TypeOK
<1>6. /\ msg' = msg /\ actor' = actor /\ lost' = lost /\ m_bStop' = m_bStop /\ ticks' = ticks
      /\ inMessages' = inMessages /\ containerOutEvent' = containerOutEvent
  BY <1>4 DEF actorVars
<1>7. mine[c] = None /\ retMsg[c] = None /\ reply[c] = None
  BY <1>4 DEF IInv, PhaseInv, ClientPhase, reply, Waits
<1> HIDE DEF F, N, x, r, h
<1>8. /\ outMessages' \in Seq(Message) /\ IsInjective(outMessages')
      /\ ToSet(outMessages') = ToSet(outMessages) \cup {x}
  <2>1. x \notin ToSet(outMessages) /\ IsInjective(outMessages)
    BY <1>2 DEF ToActor, IInv, QueueInv
  <2> QED
    BY <1>1, <1>2, <1>4, <2>1, InjectiveAppend
<1>9. ToActor' = ToActor \cup {x}
  BY <1>6, <1>8 DEF ToActor
<1>10. /\ h \in {x, None} /\ (sync => h = x) /\ (~sync => h = None)
       /\ mine'[c] = h /\ \A d \in Client : d # c => mine'[d] = mine[d]
       /\ mine' \in [Client -> Message \cup {None}]
  BY <1>1, <1>2, <1>4 DEF h
<1>11. /\ fields'[x] = r /\ \A m \in Message : m # x => fields'[m] = fields[m]
       /\ fields' \in [Message -> Fields]
  BY <1>1, <1>2, <1>3, <1>4
<1>12. /\ at'[c] = IF sync THEN "signalsync" ELSE "signal"
       /\ \A d \in Client : d # c => at'[d] = at[d]
       /\ at' \in [Client -> {"idle", "signal", "signalsync", "wait", "late", "release",
                              "reply"}]
  BY <1>4, <1>5
<1>13. /\ calls'[c] = calls[c] + 1 /\ \A d \in Client : d # c => calls'[d] = calls[d]
       /\ calls' \in [Client -> Nat]
  BY <1>4, <1>5
<1>14. \A d \in Client : d # c => fields'[mine[d]] = fields[mine[d]] \/ mine[d] = None
  BY <1>1, <1>2, <1>11
<1>15. PhaseInv'
  <2> SUFFICES ASSUME NEW d \in Client
               PROVE  ClientPhase(d)'
    <3>1. msg # None => fields'[msg] = fields[msg]
      BY <1>1, <1>2, <1>11 DEF ToActor
    <3>2. /\ msg' # None <=> actor' \in {"handle", "set", "handled"}
          /\ actor' = "set" => fields'[msg'].isSync /\ Settled(msg', fields')
      BY <1>6, <3>1 DEF IInv, PhaseInv, ActorPhase, Settled
    <3> QED
      BY <3>2 DEF PhaseInv, ActorPhase
  <2>1. CASE d = c
    BY <1>2, <1>3, <1>4, <1>7, <1>10, <1>11, <1>12, <2>1 DEF Waits, ClientPhase
  <2>2. CASE d # c
    BY <1>4, <1>10, <1>12, <1>14, <2>2 DEF IInv, PhaseInv, ClientPhase, Waits, Settled
  <2> QED
    BY <2>1, <2>2
<1>16. reply' = reply
  <2> SUFFICES ASSUME NEW d \in Client
               PROVE  reply'[d] = reply[d]
    BY DEF reply
  <2>1. /\ reply[d] = IF Waits(d) THEN fields[mine[d]].replyMessage ELSE retMsg[d]
        /\ reply'[d] = IF Waits(d)' THEN fields'[mine'[d]].replyMessage ELSE retMsg[d]
    BY <1>4 DEF reply
  <2>2. CASE d = c
    BY <1>3, <1>7, <1>10, <1>11, <1>12, <2>1, <2>2 DEF Waits
  <2>3. CASE d # c
    BY <1>10, <1>12, <1>14, <2>1, <2>3 DEF Waits, IInv, PhaseInv, ClientPhase
  <2> QED
    BY <2>2, <2>3
<1>17. QueueInv'
  BY <1>1, <1>2, <1>4, <1>6, <1>8 DEF IInv, QueueInv, ToActor
<1>18. Apart(F \ {x}, ToActor \cup {x}, N, mine', reply)
  BY <1>2, <1>7, <1>10 DEF IInv, HoldInv, Apart, F, N
<1>19. ClientOwns(ToActor \cup {x}, mine', fields', calls', lost)
  <2> SUFFICES ASSUME NEW d \in Client, mine'[d] # None
               PROVE  /\ fields'[mine'[d]].isSync /\ fields'[mine'[d]].signal = <<d, calls'[d]>>
                      /\ IF fields'[mine'[d]].isSyncFini THEN mine'[d] \notin ToActor \cup {x}
                         ELSE mine'[d] \in (ToActor \cup {x}) \cup lost
    BY DEF ClientOwns
  <2>1. CASE d = c
    BY <1>3, <1>10, <1>11, <1>13, <2>1
  <2>2. CASE d # c
    BY <1>2, <1>10, <1>13, <1>14, <2>2 DEF IInv, HoldInv, ClientOwns
  <2> QED
    BY <2>1, <2>2
<1>20. ActorOwns(ToActor \cup {x}, mine', fields')
  <2> SUFFICES ASSUME NEW m \in ToActor \cup {x}
               PROVE  /\ fields'[m].event # "deleted"
                      /\ fields'[m].isSync =>
                           IF fields'[m].isSyncFini THEN Settled(m, fields')
                           ELSE \E d \in Client : mine'[d] = m
    BY DEF ActorOwns
  <2>1. CASE m = x
    BY <1>3, <1>10, <1>11, <2>1
  <2>2. CASE m # x
    <3>1. m \in ToActor /\ m \in Message /\ fields'[m] = fields[m] /\ m # None
      BY <1>1, <1>11, <2>2, Numbers
    <3>2. \A d \in Client : mine[d] = m => mine'[d] = m
      BY <1>7, <1>10, <3>1
    <3> QED
      BY <3>1, <3>2 DEF IInv, HoldInv, ActorOwns, Settled
  <2> QED
    BY <2>1, <2>2
<1>21. ReplyOwns(N, reply, fields', calls')
  <2>1. N \subseteq Message
    BY TypesOf DEF IInv, N
  <2>2. \A m \in N : ~fields'[m].isSync
    BY <1>2, <1>11, <2>1 DEF IInv, HoldInv, ReplyOwns, N
  <2>3. ASSUME NEW d \in Client, reply[d] # None
        PROVE  ~fields'[reply[d]].isSync /\ fields'[reply[d]].signal = <<d, calls'[d]>>
    BY <1>1, <1>2, <1>7, <1>11, <1>13, <2>3 DEF IInv, HoldInv, ReplyOwns
  <2> QED
    BY <2>2, <2>3 DEF ReplyOwns
<1>22. Everywhere(F \ {x}, ToActor \cup {x}, N, mine', reply, lost) = 1 .. made' \cup {None}
  <2>1. Everywhere(F, ToActor, N, mine, reply, lost) = 1 .. made \cup {None}
    BY DEF IInv, HoldInv, F, N
  <2>2. {mine'[d] : d \in Client} \cup {None, x} = {mine[d] : d \in Client} \cup {None, x}
    BY <1>7, <1>10
  <2>3. Everywhere(F \ {x}, ToActor \cup {x}, N, mine', reply, lost)
          = Everywhere(F, ToActor, N, mine, reply, lost) \cup {x}
    BY <2>2 DEF Everywhere
  <2> QED
    BY <1>2, <2>1, <2>3
<1>23. HoldInv'
  <2>1. ToSet(freeMessageQueue') = F \ {x} /\ ToSet(inMessages') = N
    BY <1>2, <1>6 DEF N
  <2> QED
    BY <1>6, <1>9, <1>16, <1>18, <1>19, <1>20, <1>21, <1>22, <2>1 DEF HoldInv
<1>24. TypeOK'
  <2>1. \A d \in Client : calls'[d] <= Calls[d]
    <3>1. \A d \in Client : calls[d] <= Calls[d] /\ calls[d] \in Nat /\ Calls[d] \in Nat
      BY Numbers DEF IInv, TypeOK
    <3> QED
      BY <1>4, <1>13, <3>1
  <2> QED
    BY <1>2, <1>4, <1>6, <1>8, <1>10, <1>11, <1>12, <1>13, <2>1
    DEF IInv, TypeOK, Fields
<1> QED
  BY <1>15, <1>17, <1>23, <1>24 DEF IInv
-----------------------------------------------------------------------------
(* Steps that give no message back.                                        *)

\* Who holds what is not disturbed when messages stay where they are, but for some
\* of the actor's that are lost, and their members change at most towards settled.
LEMMA HoldMoves ==
  ASSUME IInv,
         ToSet(freeMessageQueue') = ToSet(freeMessageQueue),
         ToSet(inMessages') = ToSet(inMessages), mine' = mine, reply' = reply,
         calls' = calls, made' = made,
         ToActor' \subseteq ToActor, lost \subseteq lost', lost' \subseteq lost \cup ToActor,
         ToActor \subseteq ToActor' \cup lost',
         \A m \in Message :
           /\ fields'[m].signal = fields[m].signal /\ fields'[m].isSync = fields[m].isSync
           /\ fields'[m].isSyncFini = fields[m].isSyncFini
           /\ fields'[m].event = "deleted" => fields[m].event = "deleted"
           /\ Settled(m, fields) => Settled(m, fields')
  PROVE  HoldInv'
<1> DEFINE F == ToSet(freeMessageQueue)
           N == ToSet(inMessages)
<1>1. /\ Apart(F, ToActor, N, mine, reply) /\ ClientOwns(ToActor, mine, fields, calls, lost)
      /\ ActorOwns(ToActor, mine, fields) /\ ReplyOwns(N, reply, fields, calls)
      /\ Everywhere(F, ToActor, N, mine, reply, lost) = 1 .. made \cup {None}
  BY DEF IInv, HoldInv
<1>2. /\ mine \in [Client -> Message \cup {None}] /\ reply \in [Client -> Message \cup {None}]
      /\ ToActor \subseteq Message /\ N \subseteq Message
  BY TypesOf DEF IInv
<1> HIDE DEF F, N
<1>3. Apart(F, ToActor', N, mine, reply)
  BY <1>1 DEF Apart
<1>4. ClientOwns(ToActor', mine, fields', calls, lost')
  <2> SUFFICES ASSUME NEW c \in Client, mine[c] # None
               PROVE  /\ fields'[mine[c]].isSync /\ fields'[mine[c]].signal = <<c, calls[c]>>
                      /\ IF fields'[mine[c]].isSyncFini THEN mine[c] \notin ToActor'
                         ELSE mine[c] \in ToActor' \cup lost'
    BY DEF ClientOwns
  <2>1. mine[c] \in Message
    BY <1>2
  <2>2. /\ fields[mine[c]].isSync /\ fields[mine[c]].signal = <<c, calls[c]>>
        /\ IF fields[mine[c]].isSyncFini THEN mine[c] \notin ToActor
           ELSE mine[c] \in ToActor \cup lost
    BY <1>1 DEF ClientOwns
  <2> QED
    BY <2>1, <2>2
<1>5. ActorOwns(ToActor', mine, fields')
  <2> SUFFICES ASSUME NEW m \in ToActor'
               PROVE  /\ fields'[m].event # "deleted"
                      /\ fields'[m].isSync =>
                           IF fields'[m].isSyncFini THEN Settled(m, fields')
                           ELSE \E c \in Client : mine[c] = m
    BY DEF ActorOwns
  <2>1. m \in Message /\ m \in ToActor
    BY <1>2
  <2>2. /\ fields[m].event # "deleted"
        /\ fields[m].isSync => IF fields[m].isSyncFini THEN Settled(m, fields)
                               ELSE \E c \in Client : mine[c] = m
    BY <1>1, <2>1 DEF ActorOwns
  <2> QED
    BY <2>1, <2>2
<1>6. ReplyOwns(N, reply, fields', calls)
  BY <1>1, <1>2 DEF ReplyOwns
<1>7. Everywhere(F, ToActor', N, mine, reply, lost') = 1 .. made \cup {None}
  <2>1. Everywhere(F, ToActor', N, mine, reply, lost')
          = Everywhere(F, ToActor, N, mine, reply, lost)
    BY DEF Everywhere
  <2> QED
    BY <1>1, <2>1
<1> QED
  BY <1>3, <1>4, <1>5, <1>6, <1>7 DEF HoldInv, F, N

\* The reply on its way to a client is the same when only the other members of the
\* messages change.
LEMMA KeepsReply ==
  ASSUME IInv, UNCHANGED <<at, mine, retMsg>>,
         \A c \in Client : mine[c] # None
           => fields'[mine[c]].replyMessage = fields[mine[c]].replyMessage
  PROVE  reply' = reply
  BY DEF reply, Waits, IInv, PhaseInv, ClientPhase

\* The phases of the clients bear steps of the actor.
LEMMA KeepsClients ==
  ASSUME IInv, UNCHANGED <<at, mine, retMsg>>,
         \A m \in Message :
           /\ fields'[m].isSyncTimeout = fields[m].isSyncTimeout
           /\ Settled(m, fields) => Settled(m, fields')
           /\ fields'[m].event = "set" => fields[m].event = "set" \/ Settled(m, fields')
  PROVE  \A c \in Client : ClientPhase(c)'
<1> SUFFICES ASSUME NEW c \in Client PROVE ClientPhase(c)'
  OBVIOUS
<1>1. ClientPhase(c) /\ mine[c] \in Message \cup {None}
  BY TypesOf DEF IInv, PhaseInv
<1> QED
  BY <1>1 DEF ClientPhase, Waits

\* A client signals the actor, is answered, or finds that it was not.
LEMMA StepSignal ==
  ASSUME IInv, NEW c \in Client, Signal(c) \/ WaitTimeout(c)
  PROVE  IInv'
<1>1. /\ at \in [Client -> {"idle", "signal", "signalsync", "wait", "late", "release", "reply"}]
  BY DEF IInv, TypeOK
<1>2. /\ UNCHANGED <<portVars, calls, mine, retMsg, actorVars>>
      /\ containerOutEvent' \in {TRUE, containerOutEvent}
      /\ \/ at[c] = "signal" /\ at' = [at EXCEPT ![c] = "idle"]
         \/ at[c] \in {"signalsync", "wait"} /\ at' = [at EXCEPT ![c] = "wait"]
         \/ at[c] = "wait" /\ at' = [at EXCEPT ![c] = "late"]
  BY DEF Signal, WaitTimeout, Go
<1>3. /\ fields' = fields /\ made' = made /\ freeMessageQueue' = freeMessageQueue
      /\ outMessages' = outMessages /\ inMessages' = inMessages /\ calls' = calls
      /\ mine' = mine /\ retMsg' = retMsg /\ actor' = actor /\ msg' = msg
      /\ m_bStop' = m_bStop /\ ticks' = ticks /\ lost' = lost
  BY <1>2 DEF portVars, actorVars
<1>4. \A d \in Client : Waits(d)' <=> Waits(d)
  BY <1>1, <1>2 DEF Waits
<1>5. \A d \in Client : at'[d] = "release" <=> at[d] = "release"
  BY <1>1, <1>2
<1>6. \A d \in Client : at'[d] = "reply" <=> at[d] = "reply"
  BY <1>1, <1>2
<1>7. PhaseInv'
  <2>1. ActorPhase'
    BY <1>3 DEF IInv, PhaseInv, ActorPhase, Settled
  <2> QED
    BY <1>1, <1>3, <1>4, <1>5, <1>6, <2>1 DEF IInv, PhaseInv, ClientPhase, Settled
<1>8. reply' = reply
  BY <1>3, <1>4 DEF reply
<1>9. QueueInv' /\ ToActor' = ToActor
  BY <1>3 DEF IInv, QueueInv, ToActor
<1>10. HoldInv'
  BY <1>3, <1>8, <1>9 DEF IInv, HoldInv
<1>11. TypeOK'
  <2>1. /\ at' \in [Client -> {"idle", "signal", "signalsync", "wait", "late", "release",
                               "reply"}]
    BY <1>1, <1>2
  <2> QED
    BY <1>2, <1>3, <2>1 DEF IInv, TypeOK
<1> QED
  BY <1>7, <1>9, <1>10, <1>11 DEF IInv

\* It takes the reply with it, also one that came between the time-out and the lock.
LEMMA StepAnswered ==
  ASSUME IInv, NEW c \in Client, Answered(c) \/ LookAgain(c)
  PROVE  IInv'
<1> DEFINE m == mine[c]
<1>1. /\ at \in [Client -> {"idle", "signal", "signalsync", "wait", "late", "release", "reply"}]
      /\ fields \in [Message -> Fields] /\ retMsg \in [Client -> Message \cup {None}]
      /\ mine \in [Client -> Message \cup {None}]
  BY TypesOf DEF IInv, TypeOK
<1>2. /\ Waits(c) /\ at' = [at EXCEPT ![c] = "release"]
      /\ retMsg' = [retMsg EXCEPT ![c] = fields[m].replyMessage]
      /\ made' = made /\ freeMessageQueue' = freeMessageQueue
      /\ outMessages' = outMessages /\ inMessages' = inMessages /\ calls' = calls
      /\ mine' = mine /\ actor' = actor /\ msg' = msg /\ m_bStop' = m_bStop
      /\ ticks' = ticks /\ lost' = lost /\ containerOutEvent' = containerOutEvent
  BY DEF Answered, LookAgain, Go, portVars, actorVars, Waits
<1>3. m \in Message /\ fields[m] \in Fields /\ ~fields[m].isSyncTimeout
      /\ fields[m].isSyncTimeout \in BOOLEAN
      /\ fields[m].replyMessage \in Message \cup {None}
  BY <1>1, <1>2, Numbers DEF IInv, PhaseInv, ClientPhase, Fields
<1>4. \/ Answered(c) /\ fields' = fields /\ fields[m].event = "set"
      \/ /\ LookAgain(c)
         /\ fields' = [fields EXCEPT ![m] =
              [fields[m] EXCEPT !.isSyncTimeout = (fields[m].replyMessage = None)]]
  BY <1>1, <1>3 DEF Answered, LookAgain, portVars
<1> DEFINE q == [fields[m] EXCEPT !.isSyncTimeout = (fields[m].replyMessage = None)]
<1>5. /\ q \in Fields /\ q.signal = fields[m].signal /\ q.isSync = fields[m].isSync
      /\ q.isSyncFini = fields[m].isSyncFini /\ q.event = fields[m].event
      /\ q.replyMessage = fields[m].replyMessage
      /\ q.isSyncTimeout = (fields[m].replyMessage = None)
  BY <1>3 DEF Fields
<1> HIDE DEF q, m
<1>6. /\ fields' \in [Message -> Fields] /\ \A l \in Message : l # m => fields'[l] = fields[l]
      /\ \A l \in Message :
           /\ fields'[l].signal = fields[l].signal /\ fields'[l].isSync = fields[l].isSync
           /\ fields'[l].isSyncFini = fields[l].isSyncFini
           /\ fields'[l].event = fields[l].event
           /\ fields'[l].replyMessage = fields[l].replyMessage
  BY <1>1, <1>3, <1>4, <1>5 DEF q
<1>7. Settled(m, fields')
  <2>1. CASE Answered(c) /\ fields' = fields /\ fields[m].event = "set"
    BY <1>3, <2>1, Numbers DEF IInv, PhaseInv, ClientPhase, m
  <2>2. CASE fields' = [fields EXCEPT ![m] = q]
    BY <1>1, <1>3, <1>5, <2>2 DEF Settled
  <2> QED
    BY <1>4, <2>1, <2>2 DEF q
<1>8. \A l \in Message : Settled(l, fields) => Settled(l, fields')
  BY <1>6, <1>7 DEF Settled
<1>9. /\ at'[c] = "release" /\ retMsg'[c] = fields[m].replyMessage
      /\ \A d \in Client : d # c => at'[d] = at[d] /\ retMsg'[d] = retMsg[d]
      /\ at' \in [Client -> {"idle", "signal", "signalsync", "wait", "late", "release",
                             "reply"}]
      /\ retMsg' \in [Client -> Message \cup {None}]
  BY <1>1, <1>2, <1>3
<1>10. ActorPhase'
  <2>1. msg # None => msg \in Message
    BY TypesOf DEF IInv
  <2>2. msg # None <=> actor \in {"handle", "set", "handled"}
    BY DEF IInv, PhaseInv, ActorPhase
  <2>3. actor = "set" => fields'[msg].isSync /\ Settled(msg, fields')
    BY <1>6, <1>8, <2>1, <2>2 DEF IInv, PhaseInv, ActorPhase
  <2> QED
    BY <1>2, <2>2, <2>3 DEF ActorPhase
<1>11. ASSUME NEW d \in Client PROVE ClientPhase(d)'
  <2>1. CASE d = c
    BY <1>2, <1>3, <1>7, <1>9, <2>1, Numbers DEF ClientPhase, Waits, m
  <2>2. CASE d # c
    <3>1. mine[d] # None => mine[d] \in Message /\ mine[d] # m
      BY <1>1, <1>2, <1>3, <2>2, Numbers DEF IInv, HoldInv, Apart, m
    <3>2. ClientPhase(d)
      BY DEF IInv, PhaseInv
    <3>3. mine[d] # None => fields'[mine[d]] = fields[mine[d]]
      BY <1>6, <3>1
    <3> QED
      BY <1>2, <1>9, <2>2, <3>2, <3>3 DEF ClientPhase, Waits, Settled
  <2> QED
    BY <2>1, <2>2
<1>12. reply' = reply
  <2> SUFFICES ASSUME NEW d \in Client PROVE reply'[d] = reply[d]
    BY DEF reply
  <2>1. /\ reply[d] = IF Waits(d) THEN fields[mine[d]].replyMessage ELSE retMsg[d]
        /\ reply'[d] = IF Waits(d)' THEN fields'[mine[d]].replyMessage ELSE retMsg'[d]
    BY <1>2 DEF reply
  <2>2. CASE d = c
    BY <1>2, <1>9, <2>1, <2>2 DEF Waits, m
  <2>3. CASE d # c
    <3>1. Waits(d) => mine[d] \in Message
      BY <1>1 DEF IInv, PhaseInv, ClientPhase
    <3> QED
      BY <1>6, <1>9, <2>1, <2>3, <3>1 DEF Waits
  <2> QED
    BY <2>2, <2>3
<1>13. QueueInv' /\ ToActor' = ToActor
  BY <1>2 DEF IInv, QueueInv, ToActor
<1>14. HoldInv'
  BY <1>2, <1>6, <1>8, <1>12, <1>13, HoldMoves
<1>15. TypeOK'
  BY <1>2, <1>6, <1>9 DEF IInv, TypeOK, Fields
<1> QED
  BY <1>10, <1>11, <1>13, <1>14, <1>15 DEF IInv, PhaseInv
-----------------------------------------------------------------------------
(* Steps that give a message back.                                         *)

\* The actor releases a message: its client has the other half of it, or nobody.
LEMMA ActorLets ==
  ASSUME IInv, NEW m \in ToActor, Release(m), ToActor' = ToActor \ {m},
         UNCHANGED <<at, mine, retMsg, calls, made, inMessages, lost>>
  PROVE  /\ HoldInv' /\ \A c \in Client : ClientPhase(c)'
         /\ fields' \in [Message -> Fields]
         /\ freeMessageQueue' \in Seq(Message) /\ IsInjective(freeMessageQueue')
<1> DEFINE F == ToSet(freeMessageQueue)
           N == ToSet(inMessages)
           G == ToSet(freeMessageQueue')
<1>1. /\ Apart(F, ToActor, N, mine, reply) /\ ClientOwns(ToActor, mine, fields, calls, lost)
      /\ ActorOwns(ToActor, mine, fields) /\ ReplyOwns(N, reply, fields, calls)
      /\ Everywhere(F, ToActor, N, mine, reply, lost) = 1 .. made \cup {None}
  BY DEF IInv, HoldInv
<1>2. /\ mine \in [Client -> Message \cup {None}] /\ reply \in [Client -> Message \cup {None}]
      /\ ToActor \subseteq Message /\ N \subseteq Message /\ m \in Message /\ m # None
      /\ \A c \in Client : mine[c] # None => mine[c] \in Message
      /\ \A c \in Client : reply[c] # None => reply[c] \in Message
  BY TypesOf, Numbers DEF IInv
<1>3. /\ fields' \in [Message -> Fields]
      /\ \A l \in Message : l # m => fields'[l] = fields[l]
      /\ fields'[m].signal = fields[m].signal /\ fields'[m].isSync = fields[m].isSync
      /\ fields'[m].isSyncFini
      /\ fields'[m].isSyncTimeout = fields[m].isSyncTimeout
      /\ fields'[m].replyMessage = fields[m].replyMessage
      /\ fields'[m].event = "set" => fields[m].event = "set"
      /\ freeMessageQueue' \in Seq(Message) /\ IsInjective(freeMessageQueue')
      /\ G = IF Leaves(m) THEN F ELSE F \cup {m}
  BY <1>1, <1>2, ReleaseEffect DEF IInv, QueueInv, Apart
<1> HIDE DEF F, N, G
<1>4. \A c \in Client : ClientPhase(c)'
  <2>1. \A l \in Message :
           /\ fields'[l].isSyncTimeout = fields[l].isSyncTimeout
           /\ Settled(l, fields) => Settled(l, fields')
           /\ fields'[l].event = "set" => fields[l].event = "set" \/ Settled(l, fields')
    BY <1>3 DEF Settled
  <2> QED
    BY <2>1, KeepsClients
<1>5. reply' = reply
  BY <1>2, <1>3, KeepsReply
\* Who leaves first, and who second.
<1>6. \A c \in Client : mine[c] = m => Leaves(m)
  BY <1>1, <1>2 DEF ClientOwns, Leaves
<1>7. Leaves(m) => \E c \in Client : mine[c] = m
  BY <1>1 DEF ActorOwns, Leaves
<1>8. Apart(G, ToActor \ {m}, N, mine, reply)
  BY <1>1, <1>2, <1>3, <1>6 DEF Apart
<1>9. ClientOwns(ToActor \ {m}, mine, fields', calls, lost)
  BY <1>1, <1>2, <1>3, <1>6 DEF ClientOwns
<1>10. ActorOwns(ToActor \ {m}, mine, fields')
  BY <1>1, <1>2, <1>3 DEF ActorOwns, Settled
<1>11. ReplyOwns(N, reply, fields', calls)
  <2>1. m \notin N /\ \A c \in Client : reply[c] # m
    BY <1>1, <1>2 DEF Apart
  <2> QED
    BY <1>1, <1>2, <1>3, <2>1 DEF ReplyOwns
<1>12. Everywhere(G, ToActor \ {m}, N, mine, reply, lost) = 1 .. made \cup {None}
  <2>1. Everywhere(G, ToActor \ {m}, N, mine, reply, lost)
          = Everywhere(F, ToActor, N, mine, reply, lost)
    BY <1>3, <1>7 DEF Everywhere
  <2> QED
    BY <1>1, <2>1
<1>13. HoldInv'
  BY <1>5, <1>8, <1>9, <1>10, <1>11, <1>12 DEF HoldInv, N, G
<1> QED
  BY <1>3, <1>4, <1>13

\* A client, or Purge in its place, gives back a message of inMessages.
LEMMA InLets ==
  ASSUME IInv, inMessages # <<>>, inMessages' = Tail(inMessages), Release(Head(inMessages)),
         UNCHANGED <<outMessages, msg, at, mine, retMsg, calls, made, lost>>
  PROVE  /\ HoldInv' /\ QueueInv' /\ \A c \in Client : ClientPhase(c)'
         /\ fields' \in [Message -> Fields]
         /\ freeMessageQueue' \in Seq(Message) /\ inMessages' \in Seq(Message)
         /\ \A l \in ToActor : fields'[l] = fields[l]
<1> DEFINE F == ToSet(freeMessageQueue)
           N == ToSet(inMessages)
           G == ToSet(freeMessageQueue')
           m == Head(inMessages)
<1>1. /\ Apart(F, ToActor, N, mine, reply) /\ ClientOwns(ToActor, mine, fields, calls, lost)
      /\ ActorOwns(ToActor, mine, fields) /\ ReplyOwns(N, reply, fields, calls)
      /\ Everywhere(F, ToActor, N, mine, reply, lost) = 1 .. made \cup {None}
  BY DEF IInv, HoldInv
<1>2. /\ inMessages \in Seq(Message) /\ inMessages' \in Seq(Message) /\ IsInjective(inMessages')
      /\ m \in N /\ m \in Message /\ ToSet(inMessages') = N \ {m}
  BY TypesOf, InjectiveTail DEF IInv, QueueInv
<1>3. /\ mine \in [Client -> Message \cup {None}] /\ reply \in [Client -> Message \cup {None}]
      /\ ToActor \subseteq Message /\ N \subseteq Message /\ m # None
      /\ \A c \in Client : mine[c] # None => mine[c] \in Message
      /\ \A c \in Client : reply[c] # None => reply[c] \in Message
  BY <1>2, TypesOf, Numbers DEF IInv
<1>4. m \notin F /\ m \notin ToActor /\ \A c \in Client : mine[c] # m /\ reply[c] # m
  BY <1>1, <1>2, <1>3 DEF Apart
<1>5. ~Leaves(m)
  BY <1>1, <1>2 DEF ReplyOwns, Leaves
<1> HIDE DEF F, N, G, m
<1>6. /\ fields' \in [Message -> Fields]
      /\ \A l \in Message : l # m => fields'[l] = fields[l]
      /\ fields'[m].isSyncTimeout = fields[m].isSyncTimeout
      /\ fields'[m].replyMessage = fields[m].replyMessage
      /\ fields'[m].event = "set" => fields[m].event = "set"
      /\ freeMessageQueue' \in Seq(Message) /\ IsInjective(freeMessageQueue')
      /\ G = F \cup {m}
  <2>1. Release(m)
    BY DEF m
  <2> QED
    BY <1>2, <1>4, <1>5, <2>1, ReleaseEffect DEF IInv, QueueInv, F, G
<1>7. \A c \in Client : ClientPhase(c)'
  <2>1. \A l \in Message :
           /\ fields'[l].isSyncTimeout = fields[l].isSyncTimeout
           /\ Settled(l, fields) => Settled(l, fields')
           /\ fields'[l].event = "set" => fields[l].event = "set" \/ Settled(l, fields')
    BY <1>6 DEF Settled
  <2> QED
    BY <2>1, KeepsClients
<1>8. reply' = reply
  BY <1>3, <1>6, KeepsReply
<1>9. Apart(G, ToActor, N \ {m}, mine, reply)
  BY <1>1, <1>4, <1>6 DEF Apart
<1>10. /\ ClientOwns(ToActor, mine, fields', calls, lost)
       /\ ActorOwns(ToActor, mine, fields')
       /\ ReplyOwns(N \ {m}, reply, fields', calls)
  <2>1. \A l \in ToActor \cup N : l # m => fields'[l] = fields[l]
    BY <1>3, <1>6
  <2>2. \A c \in Client : /\ mine[c] # None => fields'[mine[c]] = fields[mine[c]]
                          /\ reply[c] # None => fields'[reply[c]] = fields[reply[c]]
    BY <1>3, <1>4, <1>6
  <2>3. ClientOwns(ToActor, mine, fields', calls, lost)
    BY <1>1, <2>2 DEF ClientOwns
  <2>4. ActorOwns(ToActor, mine, fields')
    BY <1>1, <1>4, <2>1 DEF ActorOwns, Settled
  <2>5. ReplyOwns(N \ {m}, reply, fields', calls)
    BY <1>1, <2>1, <2>2 DEF ReplyOwns
  <2> QED
    BY <2>3, <2>4, <2>5
<1>11. Everywhere(G, ToActor, N \ {m}, mine, reply, lost) = 1 .. made \cup {None}
  <2>1. m \in N
    BY <1>2
  <2>2. Everywhere(G, ToActor, N \ {m}, mine, reply, lost)
          = Everywhere(F, ToActor, N, mine, reply, lost)
    BY <1>6, <2>1 DEF Everywhere
  <2> QED
    BY <1>1, <2>2
<1>12. ToActor' = ToActor
  BY DEF ToActor
<1>13. HoldInv'
  BY <1>2, <1>8, <1>9, <1>10, <1>11, <1>12 DEF HoldInv, G
<1>14. QueueInv'
  BY <1>2, <1>6 DEF IInv, QueueInv
<1> QED
  BY <1>2, <1>3, <1>4, <1>6, <1>7, <1>13, <1>14
\* A client releases the message it waited for: the actor has the other half, or
\* released it before.
LEMMA StepClientRelease ==
  ASSUME IInv, NEW c \in Client, ClientRelease(c)
  PROVE  IInv'
<1> DEFINE F == ToSet(freeMessageQueue)
           N == ToSet(inMessages)
           G == ToSet(freeMessageQueue')
           m == mine[c]
<1>1. /\ Apart(F, ToActor, N, mine, reply) /\ ClientOwns(ToActor, mine, fields, calls, lost)
      /\ ActorOwns(ToActor, mine, fields) /\ ReplyOwns(N, reply, fields, calls)
      /\ Everywhere(F, ToActor, N, mine, reply, lost) = 1 .. made \cup {None}
  BY DEF IInv, HoldInv
<1>2. /\ at \in [Client -> {"idle", "signal", "signalsync", "wait", "late", "release", "reply"}]
      /\ mine \in [Client -> Message \cup {None}]
      /\ reply \in [Client -> Message \cup {None}]
      /\ ToActor \subseteq Message /\ N \subseteq Message
      /\ \A d \in Client : mine[d] # None => mine[d] \in Message
      /\ \A d \in Client : reply[d] # None => reply[d] \in Message
  BY TypesOf DEF IInv, TypeOK
<1>3. /\ at[c] = "release" /\ at' = [at EXCEPT ![c] = IF retMsg[c] = None THEN "idle" ELSE "reply"]
      /\ Release(m) /\ mine' = [mine EXCEPT ![c] = None]
      /\ made' = made /\ outMessages' = outMessages /\ inMessages' = inMessages
      /\ containerOutEvent' = containerOutEvent /\ calls' = calls /\ retMsg' = retMsg
      /\ actor' = actor /\ msg' = msg /\ m_bStop' = m_bStop /\ ticks' = ticks /\ lost' = lost
  BY DEF ClientRelease, Go, actorVars
<1>4. m \in Message /\ m # None /\ Settled(m, fields)
  BY <1>2, <1>3, Numbers DEF IInv, PhaseInv, ClientPhase
<1>5. /\ m \notin F /\ m \notin N /\ fields[m].isSync
      /\ \A d \in Client : reply[d] # m /\ (d # c => mine[d] # m)
      /\ IF Leaves(m) THEN m \in ToActor \cup lost ELSE m \notin ToActor
  BY <1>1, <1>4 DEF Apart, ClientOwns, Leaves
<1>6. /\ at'[c] = IF retMsg[c] = None THEN "idle" ELSE "reply"
      /\ mine'[c] = None
      /\ \A d \in Client : d # c => at'[d] = at[d] /\ mine'[d] = mine[d]
      /\ at' \in [Client -> {"idle", "signal", "signalsync", "wait", "late", "release",
                             "reply"}]
      /\ mine' \in [Client -> Message \cup {None}]
  BY <1>2, <1>3
<1> HIDE DEF F, N, G, m
<1>7. /\ fields' \in [Message -> Fields]
      /\ \A l \in Message : l # m => fields'[l] = fields[l]
      /\ fields'[m].isSync = fields[m].isSync /\ fields'[m].isSyncFini
      /\ fields'[m].isSyncTimeout = fields[m].isSyncTimeout
      /\ fields'[m].replyMessage = fields[m].replyMessage
      /\ Leaves(m) => fields'[m].event = fields[m].event
      /\ freeMessageQueue' \in Seq(Message) /\ IsInjective(freeMessageQueue')
      /\ G = IF Leaves(m) THEN F ELSE F \cup {m}
  BY <1>3, <1>4, <1>5, ReleaseEffect DEF IInv, QueueInv, F, G
<1>8. \A d \in Client : d # c /\ mine[d] # None
                          => mine[d] # m /\ fields'[mine[d]] = fields[mine[d]]
  BY <1>2, <1>5, <1>7
<1>9. ASSUME NEW d \in Client PROVE ClientPhase(d)'
  <2>1. ClientPhase(d)
    BY DEF IInv, PhaseInv
  <2>2. CASE d = c
    BY <1>3, <1>6, <2>1, <2>2 DEF ClientPhase, Waits
  <2>3. CASE d # c
    BY <1>3, <1>6, <1>8, <2>1, <2>3 DEF ClientPhase, Waits, Settled
  <2> QED
    BY <2>2, <2>3
<1>10. ActorPhase'
  <2>1. msg # None => msg \in Message
    BY TypesOf DEF IInv
  <2>2. ActorPhase
    BY DEF IInv, PhaseInv
  <2> QED
    BY <1>3, <1>4, <1>7, <2>1, <2>2 DEF ActorPhase, Settled
<1>11. reply' = reply
  <2> SUFFICES ASSUME NEW d \in Client PROVE reply'[d] = reply[d]
    BY DEF reply
  <2>1. /\ reply[d] = IF Waits(d) THEN fields[mine[d]].replyMessage ELSE retMsg[d]
        /\ reply'[d] = IF Waits(d)' THEN fields'[mine'[d]].replyMessage ELSE retMsg[d]
    BY <1>3 DEF reply
  <2>2. CASE d = c
    BY <1>3, <1>6, <2>1, <2>2 DEF Waits
  <2>3. CASE d # c
    <3>1. Waits(d) => mine[d] # None
      BY DEF IInv, PhaseInv, ClientPhase
    <3> QED
      BY <1>6, <1>8, <2>1, <2>3, <3>1 DEF Waits
  <2> QED
    BY <2>2, <2>3
<1>12. Apart(G, ToActor, N, mine', reply)
  BY <1>1, <1>4, <1>5, <1>6, <1>7 DEF Apart
<1>13. ClientOwns(ToActor, mine', fields', calls, lost)
  <2> SUFFICES ASSUME NEW d \in Client, mine'[d] # None
               PROVE  /\ fields'[mine'[d]].isSync /\ fields'[mine'[d]].signal = <<d, calls[d]>>
                      /\ IF fields'[mine'[d]].isSyncFini THEN mine'[d] \notin ToActor
                         ELSE mine'[d] \in ToActor \cup lost
    BY DEF ClientOwns
  <2>1. d # c /\ mine'[d] = mine[d] /\ fields'[mine[d]] = fields[mine[d]] /\ mine[d] # None
    BY <1>6, <1>8
  <2> QED
    BY <1>1, <2>1 DEF ClientOwns
<1>14. ActorOwns(ToActor, mine', fields')
  <2> SUFFICES ASSUME NEW l \in ToActor
               PROVE  /\ fields'[l].event # "deleted"
                      /\ fields'[l].isSync =>
                           IF fields'[l].isSyncFini THEN Settled(l, fields')
                           ELSE \E d \in Client : mine'[d] = l
    BY DEF ActorOwns
  <2>1. /\ fields[l].event # "deleted"
        /\ fields[l].isSync => IF fields[l].isSyncFini THEN Settled(l, fields)
                               ELSE \E d \in Client : mine[d] = l
    BY <1>1 DEF ActorOwns
  <2>2. CASE l = m
    BY <1>4, <1>5, <1>7, <2>1, <2>2 DEF Settled
  <2>3. CASE l # m
    <3>1. fields'[l] = fields[l]
      BY <1>2, <1>7, <2>3
    <3>2. \A d \in Client : mine[d] = l => mine'[d] = l
      BY <1>6, <2>3 DEF m
    <3> QED
      BY <2>1, <3>1, <3>2 DEF Settled
  <2> QED
    BY <2>2, <2>3
<1>15. ReplyOwns(N, reply, fields', calls)
  BY <1>1, <1>2, <1>5, <1>7 DEF ReplyOwns
<1>16. Everywhere(G, ToActor, N, mine', reply, lost) = 1 .. made \cup {None}
  <2>1. {mine'[d] : d \in Client} \cup {m, None} = {mine[d] : d \in Client} \cup {m, None}
    BY <1>6 DEF m
  <2>2. m \in {mine[d] : d \in Client}
    BY DEF m
  <2>3. m \in G \cup ToActor \cup lost /\ G \subseteq F \cup {m} /\ F \subseteq G
    BY <1>5, <1>7
  <2>4. Everywhere(G, ToActor, N, mine', reply, lost)
          = Everywhere(F, ToActor, N, mine, reply, lost)
    BY <2>1, <2>2, <2>3 DEF Everywhere
  <2> QED
    BY <1>1, <2>4
<1>17. ToActor' = ToActor
  BY <1>3 DEF ToActor
<1>18. HoldInv'
  BY <1>3, <1>11, <1>12, <1>13, <1>14, <1>15, <1>16, <1>17 DEF HoldInv, N, G
<1>19. QueueInv'
  BY <1>3, <1>7 DEF IInv, QueueInv
<1>20. TypeOK'
  BY <1>3, <1>6, <1>7 DEF IInv, TypeOK, Fields
<1> QED
  BY <1>9, <1>10, <1>18, <1>19, <1>20 DEF IInv, PhaseInv

\* A client gives back the reply it has read.
LEMMA StepReleaseReply ==
  ASSUME IInv, NEW c \in Client, ReleaseReply(c)
  PROVE  IInv'
<1> DEFINE F == ToSet(freeMessageQueue)
           N == ToSet(inMessages)
           G == ToSet(freeMessageQueue')
           m == retMsg[c]
<1>1. /\ Apart(F, ToActor, N, mine, reply) /\ ClientOwns(ToActor, mine, fields, calls, lost)
      /\ ActorOwns(ToActor, mine, fields) /\ ReplyOwns(N, reply, fields, calls)
      /\ Everywhere(F, ToActor, N, mine, reply, lost) = 1 .. made \cup {None}
  BY DEF IInv, HoldInv
<1>2. /\ at \in [Client -> {"idle", "signal", "signalsync", "wait", "late", "release", "reply"}]
      /\ mine \in [Client -> Message \cup {None}]
      /\ reply \in [Client -> Message \cup {None}]
      /\ retMsg \in [Client -> Message \cup {None}]
      /\ ToActor \subseteq Message /\ N \subseteq Message
      /\ \A d \in Client : mine[d] # None => mine[d] \in Message
      /\ \A d \in Client : reply[d] # None => reply[d] \in Message
  BY TypesOf DEF IInv, TypeOK
<1>3. /\ at[c] = "reply" /\ at' = [at EXCEPT ![c] = "idle"]
      /\ Release(m) /\ retMsg' = [retMsg EXCEPT ![c] = None]
      /\ made' = made /\ outMessages' = outMessages /\ inMessages' = inMessages
      /\ containerOutEvent' = containerOutEvent /\ calls' = calls /\ mine' = mine
      /\ actor' = actor /\ msg' = msg /\ m_bStop' = m_bStop /\ ticks' = ticks /\ lost' = lost
  BY DEF ReleaseReply, Go, actorVars
<1>4. m \in Message /\ m # None /\ m = reply[c]
  BY <1>2, <1>3, Numbers DEF IInv, PhaseInv, ClientPhase, reply, Waits
<1>5. /\ m \notin F /\ m \notin N /\ m \notin ToActor /\ ~Leaves(m)
      /\ \A d \in Client : mine[d] # m /\ (d # c => reply[d] # m)
  BY <1>1, <1>4 DEF Apart, ReplyOwns, Leaves
<1>6. /\ at'[c] = "idle" /\ retMsg'[c] = None
      /\ \A d \in Client : d # c => at'[d] = at[d] /\ retMsg'[d] = retMsg[d]
      /\ at' \in [Client -> {"idle", "signal", "signalsync", "wait", "late", "release",
                             "reply"}]
      /\ retMsg' \in [Client -> Message \cup {None}]
  BY <1>2, <1>3
<1> HIDE DEF F, N, G, m
<1>7. /\ fields' \in [Message -> Fields]
      /\ \A l \in Message : l # m => fields'[l] = fields[l]
      /\ freeMessageQueue' \in Seq(Message) /\ IsInjective(freeMessageQueue')
      /\ G = F \cup {m}
  BY <1>3, <1>4, <1>5, ReleaseEffect DEF IInv, QueueInv, F, G
<1>8. \A d \in Client : mine[d] # None => fields'[mine[d]] = fields[mine[d]]
  BY <1>2, <1>5, <1>7
<1>9. ASSUME NEW d \in Client PROVE ClientPhase(d)'
  <2>1. ClientPhase(d)
    BY DEF IInv, PhaseInv
  <2>2. CASE d = c
    BY <1>3, <1>6, <1>8, <2>1, <2>2 DEF ClientPhase, Waits
  <2>3. CASE d # c
    BY <1>3, <1>6, <1>8, <2>1, <2>3 DEF ClientPhase, Waits, Settled
  <2> QED
    BY <2>2, <2>3
<1>10. ActorPhase'
  <2>1. ActorPhase /\ (msg # None => msg \in Message /\ msg # m)
    BY <1>5, TypesOf DEF IInv, PhaseInv, ToActor
  <2> QED
    BY <1>3, <1>7, <2>1 DEF ActorPhase, Settled
<1>11. reply'[c] = None /\ \A d \in Client : d # c => reply'[d] = reply[d]
  <2> SUFFICES ASSUME NEW d \in Client
               PROVE  reply'[d] = IF d = c THEN None ELSE reply[d]
    OBVIOUS
  <2>1. /\ reply[d] = IF Waits(d) THEN fields[mine[d]].replyMessage ELSE retMsg[d]
        /\ reply'[d] = IF Waits(d)' THEN fields'[mine'[d]].replyMessage ELSE retMsg'[d]
    BY DEF reply
  <2>2. CASE d = c
    BY <1>6, <2>1, <2>2 DEF Waits
  <2>3. CASE d # c
    <3>1. Waits(d) => mine[d] # None
      BY DEF IInv, PhaseInv, ClientPhase
    <3> QED
      BY <1>3, <1>6, <1>8, <2>1, <2>3, <3>1 DEF Waits
  <2> QED
    BY <2>2, <2>3
<1>12. Apart(G, ToActor, N, mine, reply')
  BY <1>1, <1>4, <1>5, <1>7, <1>11 DEF Apart
<1>13. ClientOwns(ToActor, mine, fields', calls, lost)
  BY <1>1, <1>8 DEF ClientOwns
<1>14. ActorOwns(ToActor, mine, fields')
  <2>1. \A l \in ToActor : fields'[l] = fields[l]
    BY <1>2, <1>5, <1>7
  <2> QED
    BY <1>1, <2>1 DEF ActorOwns, Settled
<1>15. ReplyOwns(N, reply', fields', calls)
  <2>1. \A l \in N : fields'[l] = fields[l]
    BY <1>2, <1>5, <1>7
  <2>2. \A d \in Client : reply'[d] # None => reply'[d] = reply[d]
                            /\ fields'[reply[d]] = fields[reply[d]]
    BY <1>2, <1>5, <1>7, <1>11
  <2> QED
    BY <1>1, <2>1, <2>2 DEF ReplyOwns
<1>16. Everywhere(G, ToActor, N, mine, reply', lost) = 1 .. made \cup {None}
  <2>1. {reply'[d] : d \in Client} \cup {m, None} = {reply[d] : d \in Client} \cup {m, None}
    BY <1>4, <1>11
  <2>2. m \in {reply[d] : d \in Client}
    BY <1>4
  <2>3. Everywhere(G, ToActor, N, mine, reply', lost)
          = Everywhere(F, ToActor, N, mine, reply, lost)
    BY <1>7, <2>1, <2>2 DEF Everywhere
  <2> QED
    BY <1>1, <2>3
<1>17. ToActor' = ToActor
  BY <1>3 DEF ToActor
<1>18. HoldInv'
  BY <1>3, <1>12, <1>13, <1>14, <1>15, <1>16, <1>17 DEF HoldInv, N, G
<1>19. QueueInv'
  BY <1>3, <1>7 DEF IInv, QueueInv
<1>20. TypeOK'
  BY <1>3, <1>6, <1>7 DEF IInv, TypeOK, Fields
<1> QED
  BY <1>9, <1>10, <1>18, <1>19, <1>20 DEF IInv, PhaseInv

\* The answers to asynchronous messages, read or purged; what is left of the out
\* queue is purged; the actor is done with its message.
LEMMA StepGiveBack ==
  ASSUME IInv,
         (\E c \in Client : ReceiveInMessage(c)) \/ Purge \/ ActorRelease
  PROVE  IInv'
<1>0. /\ msg \in Message \cup {None} /\ outMessages \in Seq(Message)
      /\ ToActor = ToSet(outMessages) \cup ({msg} \ {None})
      /\ IsInjective(outMessages) /\ msg \notin ToSet(outMessages)
      /\ None \notin ToSet(outMessages) /\ ToActor \subseteq Message
  BY TypesOf, ToSetProperties, Numbers DEF IInv, ToActor, QueueInv
<1>1. ASSUME inMessages # <<>>, inMessages' = Tail(inMessages), Release(Head(inMessages)),
             UNCHANGED <<outMessages, made, containerOutEvent, clientVars, actorVars>>
      PROVE  IInv'
  <2>1. /\ HoldInv' /\ QueueInv' /\ \A c \in Client : ClientPhase(c)'
        /\ fields' \in [Message -> Fields]
        /\ freeMessageQueue' \in Seq(Message) /\ inMessages' \in Seq(Message)
        /\ \A l \in ToActor : fields'[l] = fields[l]
    BY <1>1, InLets DEF clientVars, actorVars
  <2>2. ActorPhase'
    <3>1. msg # None => fields'[msg] = fields[msg]
      BY <1>0, <2>1
    <3> QED
      BY <1>1, <3>1 DEF actorVars, IInv, PhaseInv, ActorPhase, Settled
  <2>3. TypeOK'
    BY <1>1, <2>1 DEF IInv, TypeOK, clientVars, actorVars, Fields
  <2> QED
    BY <2>1, <2>2, <2>3 DEF IInv, PhaseInv
<1>2. ASSUME outMessages # <<>>, outMessages' = Tail(outMessages), Release(Head(outMessages)),
             actor = "purge",
             UNCHANGED <<inMessages, made, containerOutEvent, clientVars, actorVars>>
      PROVE  IInv'
  <2> DEFINE m == Head(outMessages)
  <2>1. /\ outMessages' \in Seq(Message) /\ IsInjective(outMessages')
        /\ m \in ToSet(outMessages) /\ ToSet(outMessages') = ToSet(outMessages) \ {m}
    BY <1>0, <1>2, InjectiveTail
  <2>2. msg' = msg /\ actor' = actor
    BY <1>2 DEF actorVars
  <2> HIDE DEF m
  <2>3. m \in ToActor /\ ToActor' = ToActor \ {m} /\ msg # m
    BY <1>0, <2>1, <2>2 DEF ToActor
  <2>4. /\ HoldInv' /\ \A c \in Client : ClientPhase(c)'
        /\ fields' \in [Message -> Fields]
        /\ freeMessageQueue' \in Seq(Message) /\ IsInjective(freeMessageQueue')
    BY <1>2, <2>3, ActorLets DEF m, clientVars, actorVars
  <2>5. ActorPhase'
    BY <1>2, <2>2 DEF IInv, PhaseInv, ActorPhase
  <2>6. QueueInv'
    BY <1>0, <1>2, <2>1, <2>2, <2>4 DEF IInv, QueueInv
  <2>7. TypeOK'
    BY <1>2, <2>1, <2>4 DEF IInv, TypeOK, clientVars, actorVars, Fields
  <2> QED
    BY <2>4, <2>5, <2>6, <2>7 DEF IInv, PhaseInv
<1>3. CASE ActorRelease
  <2>1. /\ msg # None /\ msg' = None /\ actor' = "check" /\ Release(msg)
        /\ outMessages' = outMessages /\ inMessages' = inMessages /\ made' = made
        /\ at' = at /\ calls' = calls /\ mine' = mine /\ retMsg' = retMsg
        /\ containerOutEvent' = containerOutEvent /\ m_bStop' = m_bStop /\ ticks' = ticks
        /\ lost' = lost
    BY <1>3 DEF ActorRelease, clientVars, IInv, PhaseInv, ActorPhase
  <2>2. msg \in ToActor /\ ToActor' = ToActor \ {msg}
    BY <1>0, <2>1 DEF ToActor
  <2>3. /\ HoldInv' /\ \A c \in Client : ClientPhase(c)'
        /\ fields' \in [Message -> Fields]
        /\ freeMessageQueue' \in Seq(Message) /\ IsInjective(freeMessageQueue')
    BY <2>1, <2>2, ActorLets
  <2>4. ActorPhase'
    BY <2>1 DEF ActorPhase
  <2>5. QueueInv'
    BY <1>0, <2>1, <2>3 DEF IInv, QueueInv
  <2>6. TypeOK'
    BY <2>1, <2>3 DEF IInv, TypeOK, Fields
  <2> QED
    BY <2>3, <2>4, <2>5, <2>6 DEF IInv, PhaseInv
<1>4. CASE \E c \in Client : ReceiveInMessage(c)
  BY <1>1, <1>4 DEF ReceiveInMessage
<1>5. CASE Purge
  <2>1. CASE inMessages # <<>>
    BY <1>1, <1>5, <2>1 DEF Purge, actorVars
  <2>2. CASE inMessages = <<>> /\ outMessages # <<>>
    BY <1>2, <1>5, <2>2 DEF Purge, actorVars
  <2>3. CASE inMessages = <<>> /\ outMessages = <<>>
    <3>1. /\ actor = "purge" /\ actor' = "ended"
          /\ UNCHANGED <<fields, freeMessageQueue, outMessages, inMessages, made,
                         containerOutEvent, clientVars, msg, m_bStop, ticks, lost>>
      BY <1>5, <2>3 DEF Purge
    <3>2. TypeOK' /\ QueueInv'
      BY <3>1 DEF IInv, TypeOK, QueueInv, clientVars
    <3>3. reply' = reply
      BY <3>1, KeepsReply DEF clientVars
    <3>4. HoldInv'
      BY <3>1, <3>3 DEF IInv, HoldInv, ToActor, clientVars
    <3>5. PhaseInv'
      BY <3>1 DEF IInv, PhaseInv, ClientPhase, ActorPhase, Waits, Settled, clientVars
    <3> QED
      BY <3>2, <3>4, <3>5 DEF IInv
  <2> QED
    BY <2>1, <2>2, <2>3
<1> QED
  BY <1>3, <1>4, <1>5
-----------------------------------------------------------------------------
(* The actor's other steps.                                                *)

\* The actor takes a message, waits, sets the event of a client, or is told to stop.
LEMMA StepActorMoves ==
  ASSUME IInv, ReceiveOutMessage \/ EventWait \/ SetEvent \/ Stop
  PROVE  IInv'
<1>0. /\ fields \in [Message -> Fields] /\ msg \in Message \cup {None}
      /\ outMessages \in Seq(Message)
      /\ ToActor = ToSet(outMessages) \cup ({msg} \ {None})
      /\ IsInjective(outMessages) /\ msg \notin ToSet(outMessages)
      /\ None \notin ToSet(outMessages)
      /\ mine \in [Client -> Message \cup {None}]
  BY TypesOf, ToSetProperties, Numbers DEF IInv, ToActor, QueueInv
<1>1. ASSUME fields' = fields, ToActor' = ToActor, outMessages' \in Seq(Message),
             IsInjective(outMessages'), msg' \in Message \cup {None},
             msg' \notin ToSet(outMessages'), ActorPhase',
             actor' \in {"check", "wait", "handle", "set", "handled", "purge", "ended"},
             containerOutEvent' \in BOOLEAN, m_bStop' \in BOOLEAN,
             UNCHANGED <<made, freeMessageQueue, inMessages, clientVars, ticks, lost>>
      PROVE  IInv'
  <2>1. reply' = reply
    BY <1>1, KeepsReply DEF clientVars
  <2>2. HoldInv'
    BY <1>1, <2>1 DEF IInv, HoldInv, clientVars
  <2>3. PhaseInv'
    BY <1>1 DEF IInv, PhaseInv, ClientPhase, Waits, Settled, clientVars
  <2>4. QueueInv'
    BY <1>1 DEF IInv, QueueInv
  <2>5. TypeOK'
    BY <1>1 DEF IInv, TypeOK, clientVars
  <2> QED
    BY <2>2, <2>3, <2>4, <2>5 DEF IInv
<1>2. CASE ReceiveOutMessage
  <2>1. /\ actor = "check" /\ msg = None
        /\ UNCHANGED <<fields, made, freeMessageQueue, inMessages, containerOutEvent,
                       clientVars, m_bStop, ticks, lost>>
    BY <1>2 DEF ReceiveOutMessage, IInv, PhaseInv, ActorPhase
  <2>2. CASE outMessages = <<>>
    <3>1. actor' = "wait" /\ msg' = msg /\ outMessages' = outMessages
      BY <1>2, <2>2 DEF ReceiveOutMessage
    <3>2. ActorPhase' /\ ToActor' = ToActor
      BY <2>1, <3>1 DEF ActorPhase, ToActor
    <3> QED
      BY <1>0, <1>1, <2>1, <3>1, <3>2 DEF IInv, TypeOK
  <2>3. CASE outMessages # <<>>
    <3>1. /\ actor' = "handle" /\ msg' = Head(outMessages)
          /\ outMessages' = Tail(outMessages)
      BY <1>2, <2>3 DEF ReceiveOutMessage
    <3>2. /\ outMessages' \in Seq(Message) /\ IsInjective(outMessages')
          /\ msg' \in ToSet(outMessages) /\ msg' \in Message
          /\ ToSet(outMessages') = ToSet(outMessages) \ {msg'}
      BY <1>0, <2>3, <3>1, InjectiveTail
    <3>3. ToActor' = ToActor /\ msg' # None
      BY <1>0, <2>1, <3>2, Numbers DEF ToActor
    <3>4. ActorPhase'
      BY <3>1, <3>3 DEF ActorPhase
    <3> QED
      BY <1>0, <1>1, <2>1, <3>1, <3>2, <3>3, <3>4 DEF IInv, TypeOK
  <2> QED
    BY <2>2, <2>3
<1>3. CASE EventWait
  <2>1. /\ actor = "wait" /\ actor' = "check" /\ containerOutEvent' = FALSE
        /\ fields' = fields /\ msg' = msg /\ outMessages' = outMessages
        /\ m_bStop' = m_bStop
        /\ UNCHANGED <<made, freeMessageQueue, inMessages, clientVars, ticks, lost>>
    BY <1>3 DEF EventWait, portVars
  <2>2. ActorPhase' /\ ToActor' = ToActor
    BY <2>1 DEF IInv, PhaseInv, ActorPhase, ToActor
  <2> QED
    BY <1>0, <1>1, <2>1, <2>2 DEF IInv, TypeOK
<1>4. CASE Stop
  <2>1. /\ actor' = actor /\ containerOutEvent' = TRUE /\ m_bStop' = TRUE
        /\ fields' = fields /\ msg' = msg /\ outMessages' = outMessages
        /\ UNCHANGED <<made, freeMessageQueue, inMessages, clientVars, ticks, lost>>
    BY <1>4 DEF Stop, portVars
  <2>2. ActorPhase' /\ ToActor' = ToActor
    BY <2>1 DEF IInv, PhaseInv, ActorPhase, ToActor, Settled
  <2>3. actor \in {"check", "wait", "handle", "set", "handled", "purge", "ended"}
    BY DEF IInv, TypeOK
  <2> QED
    BY <1>0, <1>1, <2>1, <2>2, <2>3
<1>5. CASE SetEvent
  <2>1. /\ actor = "set" /\ actor' = "handled" /\ msg' = msg /\ outMessages' = outMessages
        /\ made' = made /\ freeMessageQueue' = freeMessageQueue /\ inMessages' = inMessages
        /\ containerOutEvent' = containerOutEvent /\ m_bStop' = m_bStop /\ ticks' = ticks
        /\ at' = at /\ calls' = calls /\ mine' = mine /\ retMsg' = retMsg /\ lost' = lost
    BY <1>5 DEF SetEvent, clientVars
  <2>2. msg \in Message /\ Settled(msg, fields) /\ fields[msg] \in Fields
    BY <1>0, <2>1 DEF IInv, PhaseInv, ActorPhase
  <2> DEFINE q == [fields[msg] EXCEPT !.event = "set"]
  <2>3. fields' = [fields EXCEPT ![msg] = q]
    BY <1>0, <1>5, <2>2 DEF SetEvent
  <2>4. /\ q \in Fields /\ q.signal = fields[msg].signal /\ q.isSync = fields[msg].isSync
        /\ q.isSyncFini = fields[msg].isSyncFini /\ q.event = "set"
        /\ q.isSyncTimeout = fields[msg].isSyncTimeout
        /\ q.replyMessage = fields[msg].replyMessage
    BY <2>2 DEF Fields
  <2> HIDE DEF q
  <2>5. /\ fields' \in [Message -> Fields]
        /\ \A l \in Message : l # msg => fields'[l] = fields[l]
        /\ fields'[msg] = q
    BY <1>0, <2>2, <2>3, <2>4
  <2>6. \A l \in Message :
          /\ fields'[l].signal = fields[l].signal /\ fields'[l].isSync = fields[l].isSync
          /\ fields'[l].isSyncFini = fields[l].isSyncFini
          /\ fields'[l].isSyncTimeout = fields[l].isSyncTimeout
          /\ fields'[l].replyMessage = fields[l].replyMessage
          /\ fields'[l].event = "deleted" => fields[l].event = "deleted"
          /\ Settled(l, fields) => Settled(l, fields')
          /\ fields'[l].event = "set" => fields[l].event = "set" \/ Settled(l, fields')
    BY <2>2, <2>4, <2>5 DEF Settled
  <2>7. reply' = reply
    BY <1>0, <2>1, <2>6, KeepsReply
  <2>8. ToActor' = ToActor
    BY <2>1 DEF ToActor
  <2>9. HoldInv'
    BY <2>1, <2>6, <2>7, <2>8, HoldMoves
  <2>10. PhaseInv'
    <3>1. \A c \in Client : ClientPhase(c)'
      BY <2>1, <2>6, KeepsClients
    <3>2. ActorPhase'
      BY <2>1, <2>2, Numbers DEF ActorPhase
    <3> QED
      BY <3>1, <3>2 DEF PhaseInv
  <2>11. QueueInv'
    BY <2>1 DEF IInv, QueueInv
  <2>12. TypeOK'
    BY <2>1, <2>5 DEF IInv, TypeOK, Fields
  <2> QED
    BY <2>9, <2>10, <2>11, <2>12 DEF IInv
<1> QED
  BY <1>2, <1>3, <1>4, <1>5

\* Messages that are purged, and the one that is forgotten at the end of the thread,
\* go from the actor to the lost ones.
LEMMA StepLoses ==
  ASSUME IInv, PurgeOut \/ ThreadEnds
  PROVE  IInv'
<1>0. /\ fields \in [Message -> Fields] /\ msg \in Message \cup {None}
      /\ outMessages \in Seq(Message)
      /\ ToActor = ToSet(outMessages) \cup ({msg} \ {None})
      /\ IsInjective(outMessages) /\ msg \notin ToSet(outMessages)
      /\ ToSet(outMessages) \subseteq Message /\ lost \subseteq Message
      /\ ToSet(outMessages) = {outMessages[i] : i \in DOMAIN outMessages}
  BY TypesOf, ToSetProperties DEF IInv, ToActor, QueueInv, TypeOK
<1>1. /\ fields' = fields /\ made' = made /\ freeMessageQueue' = freeMessageQueue
      /\ inMessages' = inMessages /\ containerOutEvent' = containerOutEvent
      /\ at' = at /\ calls' = calls /\ mine' = mine /\ retMsg' = retMsg
      /\ m_bStop' = m_bStop /\ ticks' = ticks
  BY DEF PurgeOut, ThreadEnds, portVars, clientVars
<1>2. /\ outMessages' \in Seq(Message) /\ IsInjective(outMessages')
      /\ msg' \in Message \cup {None} /\ msg' \notin ToSet(outMessages')
      /\ ToActor' \subseteq ToActor /\ lost \subseteq lost' /\ lost' \subseteq lost \cup ToActor
      /\ ToActor \subseteq ToActor' \cup lost' /\ lost' \subseteq Message
      /\ actor' \in {"purge", "handled"} /\ (msg' # None <=> actor' = "handled")
  <2>1. CASE PurgeOut
    <3> DEFINE I == {i \in DOMAIN outMessages : fields[outMessages[i]].isSync}
               D == {m \in ToSet(outMessages) : ~fields[m].isSync}
    <3>1. /\ outMessages' = SubSeqAt(outMessages, I) /\ lost' = lost \cup D
          /\ msg' = msg /\ actor = "handle" /\ actor' = "handled"
      BY <2>1 DEF PurgeOut
    <3>2. I \in SUBSET DOMAIN outMessages
      OBVIOUS
    <3> HIDE DEF I
    <3>3. /\ outMessages' \in Seq(Message) /\ IsInjective(outMessages')
          /\ ToSet(outMessages') = {outMessages[i] : i \in I}
      BY <1>0, <3>1, <3>2, InjectiveSubSeqAt
    <3>4. ToSet(outMessages') \subseteq ToSet(outMessages)
          /\ ToSet(outMessages) \subseteq ToSet(outMessages') \cup D
      BY <1>0, <3>3 DEF I
    <3>5. ToActor' = ToSet(outMessages') \cup ({msg} \ {None})
      BY <3>1 DEF ToActor
    <3>6. msg # None
      BY <3>1 DEF IInv, PhaseInv, ActorPhase
    <3>7. D \subseteq ToSet(outMessages)
      OBVIOUS
    <3> HIDE DEF D
    <3> QED
      BY <1>0, <3>1, <3>3, <3>4, <3>5, <3>6, <3>7
  <2>2. CASE ThreadEnds
    <3>1. /\ actor \in {"check", "handled"} /\ actor' = "purge" /\ msg' = None
          /\ lost' = IF actor = "handled" THEN lost \cup {msg} ELSE lost
          /\ outMessages' = outMessages
      BY <2>2 DEF ThreadEnds, portVars
    <3>2. ToActor' = ToSet(outMessages)
      BY <3>1 DEF ToActor
    <3>3. msg # None <=> actor = "handled"
      BY <3>1 DEF IInv, PhaseInv, ActorPhase
    <3>4. None \notin ToSet(outMessages)
      BY <1>0, Numbers
    <3> QED
      BY <1>0, <3>1, <3>2, <3>3, <3>4
  <2> QED
    BY <2>1, <2>2
<1>3. reply' = reply
  BY <1>1, KeepsReply
<1>4. HoldInv'
  BY <1>1, <1>2, <1>3, HoldMoves DEF Settled
<1>5. PhaseInv'
  <2>1. ActorPhase'
    BY <1>2 DEF ActorPhase
  <2> QED
    BY <1>1, <2>1 DEF IInv, PhaseInv, ClientPhase, Waits, Settled
<1>6. QueueInv'
  BY <1>1, <1>2 DEF IInv, QueueInv
<1>7. TypeOK'
  BY <1>1, <1>2 DEF IInv, TypeOK
<1> QED
  BY <1>4, <1>5, <1>6, <1>7 DEF IInv
-----------------------------------------------------------------------------
(* The actor gets a message.                                               *)

\* A fresh message x that is set to r and given to the actor, or to the clients.
LEMMA TakesOne ==
  ASSUME IInv, GetMessage, NEW r \in Fields, ~r.isSync, r.event = "none",
         fields' = [fields EXCEPT ![NewMessage] = r],
         \/ ToActor' = ToActor \cup {NewMessage} /\ ToSet(inMessages') = ToSet(inMessages)
         \/ ToActor' = ToActor /\ ToSet(inMessages') = ToSet(inMessages) \cup {NewMessage},
         UNCHANGED <<at, mine, retMsg, calls, lost>>
  PROVE  /\ HoldInv' /\ \A c \in Client : ClientPhase(c)'
         /\ fields' \in [Message -> Fields] /\ made' \in 0 .. Made
         /\ freeMessageQueue' \in Seq(Message) /\ IsInjective(freeMessageQueue')
<1> DEFINE F == ToSet(freeMessageQueue)
           N == ToSet(inMessages)
           x == NewMessage
           A == ToActor'
           M == ToSet(inMessages')
<1>1. /\ Apart(F, ToActor, N, mine, reply) /\ ClientOwns(ToActor, mine, fields, calls, lost)
      /\ ActorOwns(ToActor, mine, fields) /\ ReplyOwns(N, reply, fields, calls)
      /\ Everywhere(F, ToActor, N, mine, reply, lost) = 1 .. made \cup {None}
  BY DEF IInv, HoldInv
<1>2. /\ fields \in [Message -> Fields] /\ ToActor \subseteq Message /\ N \subseteq Message
      /\ \A c \in Client : mine[c] # None => mine[c] \in Message
      /\ \A c \in Client : reply[c] # None => reply[c] \in Message
  BY TypesOf DEF IInv
<1>3. /\ x \in Message /\ x # None /\ x \notin ToActor /\ x \notin N
      /\ \A c \in Client : mine[c] # x /\ reply[c] # x
      /\ freeMessageQueue' \in Seq(Message) /\ IsInjective(freeMessageQueue')
      /\ ToSet(freeMessageQueue') = F \ {x}
      /\ made' \in 0 .. Made /\ 1 .. made' \cup {None} = 1 .. made \cup {None, x}
  BY TakesFresh
<1>4. \/ A = ToActor \cup {x} /\ M = N
      \/ A = ToActor /\ M = N \cup {x}
  OBVIOUS
<1>5. fields' = [fields EXCEPT ![x] = r]
  OBVIOUS
<1> HIDE DEF F, N, x, A, M
<1>6. /\ fields'[x] = r /\ \A m \in Message : m # x => fields'[m] = fields[m]
      /\ fields' \in [Message -> Fields]
  <2>1. fields \in [Message -> Fields] /\ x \in Message /\ r \in Fields
    BY <1>2, <1>3
  <2> QED
    BY ONLY <1>5, <2>1
<1>7. /\ \A c \in Client : mine[c] # None => fields'[mine[c]] = fields[mine[c]]
      /\ \A c \in Client : reply[c] # None => fields'[reply[c]] = fields[reply[c]]
      /\ \A m \in ToActor \cup N : fields'[m] = fields[m]
  BY <1>2, <1>3, <1>6
<1>8. ASSUME NEW c \in Client PROVE ClientPhase(c)'
  <2>1. ClientPhase(c)
    BY DEF IInv, PhaseInv
  <2> QED
    BY <1>7, <2>1 DEF ClientPhase, Waits, Settled
<1>9. reply' = reply
  BY <1>7, KeepsReply
<1>10. Apart(F \ {x}, A, M, mine, reply)
  <2>1. CASE A = ToActor \cup {x} /\ M = N
    BY <1>1, <1>3, <2>1 DEF Apart
  <2>2. CASE A = ToActor /\ M = N \cup {x}
    BY <1>1, <1>3, <2>2 DEF Apart
  <2> QED
    BY <1>4, <2>1, <2>2
<1>11. ClientOwns(A, mine, fields', calls, lost)
  <2>1. \A c \in Client : mine[c] \in A <=> mine[c] \in ToActor
    BY <1>3, <1>4
  <2> QED
    BY <1>1, <1>7, <2>1 DEF ClientOwns
<1>12. ActorOwns(A, mine, fields')
  <2> SUFFICES ASSUME NEW m \in A
               PROVE  /\ fields'[m].event # "deleted"
                      /\ fields'[m].isSync =>
                           IF fields'[m].isSyncFini THEN Settled(m, fields')
                           ELSE \E d \in Client : mine[d] = m
    BY DEF ActorOwns
  <2>1. CASE m = x
    BY <1>6, <2>1
  <2>2. CASE m # x
    <3>1. m \in ToActor /\ fields'[m] = fields[m]
      BY <1>4, <1>7, <2>2
    <3> QED
      BY <1>1, <3>1 DEF ActorOwns, Settled
  <2> QED
    BY <2>1, <2>2
<1>13. ReplyOwns(M, reply, fields', calls)
  <2>1. \A m \in M : ~fields'[m].isSync
    BY <1>1, <1>4, <1>6, <1>7 DEF ReplyOwns
  <2> QED
    BY <1>1, <1>7, <2>1 DEF ReplyOwns
<1>14. Everywhere(F \ {x}, A, M, mine, reply, lost) = 1 .. made' \cup {None}
  <2>1. (F \ {x}) \cup A \cup M = F \cup ToActor \cup N \cup {x}
    BY <1>4
  <2>2. Everywhere(F \ {x}, A, M, mine, reply, lost)
          = Everywhere(F, ToActor, N, mine, reply, lost) \cup {x}
    BY <2>1 DEF Everywhere
  <2> QED
    BY <1>1, <1>3, <2>2
<1>15. HoldInv'
  BY <1>3, <1>9, <1>10, <1>11, <1>12, <1>13, <1>14 DEF HoldInv, A, M
<1> QED
  BY <1>3, <1>6, <1>8, <1>15

\* The time-out of the actor's wait is a message to itself; the answer to an
\* asynchronous message goes to the clients' queue.
LEMMA StepTakes ==
  ASSUME IInv, TimeOut \/ ReplyAsync
  PROVE  IInv'
<1> DEFINE x == NewMessage
           tag == IF actor = "wait" THEN NoTag ELSE fields[msg].signal
           out == (actor = "wait")
           r == Fresh(tag, out)
<1>1. /\ fields \in [Message -> Fields] /\ msg \in Message \cup {None}
      /\ outMessages \in Seq(Message) /\ inMessages \in Seq(Message)
      /\ ToActor = ToSet(outMessages) \cup ({msg} \ {None})
      /\ IsInjective(outMessages) /\ IsInjective(inMessages) /\ msg \notin ToSet(outMessages)
  BY TypesOf DEF IInv, ToActor, QueueInv
<1>2. /\ msg = None <=> actor \notin {"handle", "set", "handled"}
  BY DEF IInv, PhaseInv, ActorPhase
<1>3. /\ GetMessage /\ fields' = [fields EXCEPT ![x] = r]
      /\ outMessages' = outMessages /\ containerOutEvent' = containerOutEvent
      /\ at' = at /\ calls' = calls /\ mine' = mine /\ retMsg' = retMsg
      /\ m_bStop' = m_bStop /\ lost' = lost
  BY DEF TimeOut, ReplyAsync, Reset, clientVars
<1>4. tag \in Tags
  BY <1>1, <1>2, Numbers DEF TimeOut, ReplyAsync, Fields
<1>5. r \in Fields /\ ~r.isSync /\ r.event = "none"
  BY <1>4, FreshFields
<1> HIDE DEF tag, out, r
<1>6. /\ x \in Message /\ x # None /\ x \notin ToActor /\ x \notin ToSet(inMessages)
  BY <1>3, TakesFresh
<1> HIDE DEF x
<1>7. \/ /\ msg = None /\ msg' = x /\ actor' = "handle" /\ ToActor' = ToActor \cup {x}
         /\ inMessages' = inMessages /\ ticks' \in 0 .. Ticks
      \/ /\ msg # None /\ msg' = msg /\ actor' = "handled" /\ ToActor' = ToActor
         /\ inMessages' = Append(inMessages, x) /\ ticks' = ticks
  <2>1. CASE TimeOut
    <3>1. /\ actor = "wait" /\ msg' = x /\ actor' = "handle" /\ inMessages' = inMessages
          /\ ticks' = ticks + 1 /\ ticks < Ticks
      BY <2>1 DEF TimeOut, x
    <3>2. msg = None /\ ToActor' = ToActor \cup {x}
      BY <1>1, <1>2, <1>3, <1>6, <3>1 DEF ToActor
    <3>3. ticks \in 0 .. Ticks /\ Ticks \in Nat
      BY Numbers DEF IInv, TypeOK
    <3> QED
      BY <3>1, <3>2, <3>3
  <2>2. CASE ReplyAsync
    <3>1. /\ actor = "handle" /\ msg' = msg /\ actor' = "handled" /\ ticks' = ticks
          /\ inMessages' = Append(inMessages, x)
      BY <2>2 DEF ReplyAsync, x
    <3> QED
      BY <1>2, <1>3, <3>1 DEF ToActor
  <2> QED
    BY <2>1, <2>2
<1>8. /\ inMessages' \in Seq(Message) /\ IsInjective(inMessages')
      /\ \/ ToActor' = ToActor \cup {x} /\ ToSet(inMessages') = ToSet(inMessages)
         \/ ToActor' = ToActor /\ ToSet(inMessages') = ToSet(inMessages) \cup {x}
  <2>1. CASE inMessages' = inMessages /\ ToActor' = ToActor \cup {x}
    BY <1>1, <2>1
  <2>2. CASE inMessages' = Append(inMessages, x) /\ ToActor' = ToActor
    BY <1>1, <1>6, <2>2, InjectiveAppend
  <2> QED
    BY <1>7, <2>1, <2>2
<1>9. /\ HoldInv' /\ \A c \in Client : ClientPhase(c)'
      /\ fields' \in [Message -> Fields] /\ made' \in 0 .. Made
      /\ freeMessageQueue' \in Seq(Message) /\ IsInjective(freeMessageQueue')
  BY <1>3, <1>5, <1>8, TakesOne DEF x
<1>10. PhaseInv'
  BY <1>6, <1>7, <1>9 DEF PhaseInv, ActorPhase
<1>11. QueueInv'
  BY <1>1, <1>3, <1>6, <1>7, <1>8, <1>9 DEF QueueInv
<1>12. TypeOK'
  <2>1. ticks' \in 0 .. Ticks
    BY <1>7 DEF IInv, TypeOK
  <2>2. msg' \in Message \cup {None} /\ actor' \in {"handle", "handled"}
    BY <1>1, <1>6, <1>7
  <2> QED
    BY <1>3, <1>8, <1>9, <2>1, <2>2 DEF IInv, TypeOK, Fields
<1> QED
  BY <1>9, <1>10, <1>11, <1>12 DEF IInv

\* A reply becomes what the client waits for, or is not made when the client has
\* given up.
LEMMA StepReplySync ==
  ASSUME IInv, ReplySync
  PROVE  IInv'
<1> DEFINE F == ToSet(freeMessageQueue)
           N == ToSet(inMessages)
           x == NewMessage
           r == Fresh(fields[msg].signal, FALSE)
           q == [fields[msg] EXCEPT !.replyMessage = x]
<1>1. /\ Apart(F, ToActor, N, mine, reply) /\ ClientOwns(ToActor, mine, fields, calls, lost)
      /\ ActorOwns(ToActor, mine, fields) /\ ReplyOwns(N, reply, fields, calls)
      /\ Everywhere(F, ToActor, N, mine, reply, lost) = 1 .. made \cup {None}
  BY DEF IInv, HoldInv
<1>2. /\ fields \in [Message -> Fields] /\ ToActor \subseteq Message /\ N \subseteq Message
      /\ mine \in [Client -> Message \cup {None}]
      /\ reply \in [Client -> Message \cup {None}]
      /\ \A c \in Client : mine[c] # None => mine[c] \in Message
      /\ \A c \in Client : reply[c] # None => reply[c] \in Message
  BY TypesOf DEF IInv
<1>3. /\ actor = "handle" /\ actor' = "set" /\ fields[msg].isSync
      /\ fields[msg].replyMessage = None
      /\ outMessages' = outMessages /\ inMessages' = inMessages
      /\ containerOutEvent' = containerOutEvent /\ at' = at /\ calls' = calls
      /\ mine' = mine /\ retMsg' = retMsg /\ msg' = msg /\ m_bStop' = m_bStop
      /\ ticks' = ticks /\ lost' = lost
  BY DEF ReplySync, clientVars
<1>4. msg # None /\ msg \in Message /\ msg \in ToActor /\ fields[msg] \in Fields
  BY <1>2, <1>3, TypesOf DEF IInv, PhaseInv, ActorPhase, ToActor
<1>5. ToActor' = ToActor
  BY <1>3 DEF ToActor
<1>6. CASE fields[msg].isSyncTimeout
  <2>1. fields' = fields /\ made' = made /\ freeMessageQueue' = freeMessageQueue
    BY <1>6 DEF ReplySync
  <2>2. reply' = reply
    BY <1>3, <2>1, KeepsReply
  <2>3. HoldInv'
    BY <1>3, <1>5, <2>1, <2>2 DEF IInv, HoldInv
  <2>4. PhaseInv'
    <3>1. ActorPhase'
      BY <1>3, <1>4, <1>6, <2>1 DEF ActorPhase, Settled
    <3> QED
      BY <1>3, <2>1, <3>1 DEF IInv, PhaseInv, ClientPhase, Waits, Settled
  <2>5. QueueInv'
    BY <1>3, <2>1 DEF IInv, QueueInv
  <2>6. TypeOK'
    BY <1>3, <2>1 DEF IInv, TypeOK
  <2> QED
    BY <2>3, <2>4, <2>5, <2>6 DEF IInv
<1>7. CASE ~fields[msg].isSyncTimeout
  <2>1. GetMessage /\ fields' = [fields EXCEPT ![x] = r, ![msg].replyMessage = x]
    BY <1>7 DEF ReplySync, Reset
  <2>2. /\ x \in Message /\ x # None /\ x \notin ToActor /\ x \notin N
        /\ \A c \in Client : mine[c] # x /\ reply[c] # x
        /\ freeMessageQueue' \in Seq(Message) /\ IsInjective(freeMessageQueue')
        /\ ToSet(freeMessageQueue') = F \ {x}
        /\ made' \in 0 .. Made /\ 1 .. made' \cup {None} = 1 .. made \cup {None, x}
    BY <2>1, TakesFresh
  <2>3. /\ r \in Fields /\ ~r.isSync /\ r.signal = fields[msg].signal
    <3>1. fields[msg].signal \in Tags
      BY <1>4 DEF Fields
    <3> QED
      BY <3>1, FreshFields
  \* The client is still there, and waits.
  <2>4. ~Settled(msg, fields)
    BY <1>3, <1>7 DEF Settled
  <2>5. PICK c \in Client : mine[c] = msg
    BY <1>1, <1>3, <1>4, <2>4 DEF ActorOwns
  <2>6. /\ Waits(c) /\ fields[msg].signal = <<c, calls[c]>>
        /\ reply[c] = None
        /\ \A d \in Client : d # c => mine[d] # msg
    <3>1. Waits(c)
      BY <1>4, <2>4, <2>5 DEF IInv, PhaseInv, ClientPhase
    <3> QED
      BY <1>1, <1>3, <1>4, <2>5, <3>1 DEF reply, ClientOwns, Apart
  <2> HIDE DEF F, N, x, r
  <2>7. /\ q \in Fields /\ q.signal = fields[msg].signal /\ q.isSync = fields[msg].isSync
        /\ q.isSyncFini = fields[msg].isSyncFini /\ q.event = fields[msg].event
        /\ q.isSyncTimeout = fields[msg].isSyncTimeout /\ q.replyMessage = x
    BY <1>4, <2>2 DEF Fields
  <2>8. x # msg
    BY <1>4, <2>2
  <2>9. fields' = [fields EXCEPT ![x] = r, ![msg] = q]
    BY <1>2, <1>4, <2>1, <2>2, <2>8
  <2> HIDE DEF q
  <2>10. /\ fields' \in [Message -> Fields] /\ fields'[x] = r /\ fields'[msg] = q
         /\ \A m \in Message : m # x /\ m # msg => fields'[m] = fields[m]
    BY <1>2, <1>4, <2>2, <2>3, <2>7, <2>8, <2>9
  <2>11. \A m \in Message : m # x =>
           /\ fields'[m].signal = fields[m].signal /\ fields'[m].isSync = fields[m].isSync
           /\ fields'[m].isSyncFini = fields[m].isSyncFini
           /\ fields'[m].isSyncTimeout = fields[m].isSyncTimeout
           /\ fields'[m].event = fields[m].event
           /\ Settled(m, fields) => Settled(m, fields')
    BY <1>4, <2>4, <2>7, <2>10 DEF Settled
  <2>12. \A d \in Client : d # c /\ mine[d] # None => fields'[mine[d]] = fields[mine[d]]
    BY <1>2, <2>2, <2>6, <2>10
  <2>13. Settled(msg, fields')
    BY <2>2, <2>7, <2>10 DEF Settled
  <2>14. ASSUME NEW d \in Client PROVE ClientPhase(d)'
    <3>1. ClientPhase(d)
      BY DEF IInv, PhaseInv
    <3>2. CASE d = c
      BY <1>3, <1>4, <1>7, <2>5, <2>7, <2>10, <2>13, <3>1, <3>2 DEF ClientPhase, Waits
    <3>3. CASE d # c
      BY <1>3, <2>12, <3>1, <3>3 DEF ClientPhase, Waits, Settled
    <3> QED
      BY <3>2, <3>3
  <2>15. ActorPhase'
    BY <1>3, <1>4, <2>7, <2>10, <2>13 DEF ActorPhase
  <2>16. reply'[c] = x /\ \A d \in Client : d # c => reply'[d] = reply[d]
    <3> SUFFICES ASSUME NEW d \in Client
                 PROVE  reply'[d] = IF d = c THEN x ELSE reply[d]
      OBVIOUS
    <3>1. /\ reply[d] = IF Waits(d) THEN fields[mine[d]].replyMessage ELSE retMsg[d]
          /\ reply'[d] = IF Waits(d) THEN fields'[mine[d]].replyMessage ELSE retMsg[d]
      BY <1>3 DEF reply, Waits
    <3>2. CASE d = c
      BY <2>5, <2>6, <2>7, <2>10, <3>1, <3>2
    <3>3. CASE d # c
      <4>1. Waits(d) => mine[d] # None
        BY DEF IInv, PhaseInv, ClientPhase
      <4> QED
        BY <2>12, <3>1, <3>3, <4>1
    <3> QED
      BY <3>2, <3>3
  <2>17. Apart(F \ {x}, ToActor, N, mine, reply')
    BY <1>1, <2>2, <2>16 DEF Apart
  <2>18. ClientOwns(ToActor, mine, fields', calls, lost)
    <3>1. \A d \in Client : mine[d] # None => mine[d] \in Message /\ mine[d] # x
      BY <1>2, <2>2
    <3> QED
      BY <1>1, <2>11, <3>1 DEF ClientOwns
  <2>19. ActorOwns(ToActor, mine, fields')
    <3>1. \A m \in ToActor : m \in Message /\ m # x
      BY <1>2, <2>2
    <3> QED
      BY <1>1, <2>11, <3>1 DEF ActorOwns
  <2>20. ReplyOwns(N, reply', fields', calls)
    <3>1. \A m \in N : ~fields'[m].isSync
      <4>1. \A m \in N : m \in Message /\ m # x
        BY <1>2, <2>2
      <4> QED
        BY <1>1, <2>11, <4>1 DEF ReplyOwns
    <3>2. ASSUME NEW d \in Client, reply'[d] # None
          PROVE  ~fields'[reply'[d]].isSync /\ fields'[reply'[d]].signal = <<d, calls[d]>>
      <4>1. CASE d = c
        BY <2>3, <2>6, <2>10, <2>16, <4>1
      <4>2. CASE d # c
        <5>1. /\ reply'[d] = reply[d] /\ reply[d] # None /\ reply[d] \in Message
              /\ reply[d] # x
          BY <1>2, <2>2, <2>16, <3>2, <4>2
        <5>2. ~fields[reply[d]].isSync /\ fields[reply[d]].signal = <<d, calls[d]>>
          BY <1>1, <5>1 DEF ReplyOwns
        <5> QED
          BY <2>11, <5>1, <5>2
      <4> QED
        BY <4>1, <4>2
    <3> QED
      BY <3>1, <3>2 DEF ReplyOwns
  <2>21. Everywhere(F \ {x}, ToActor, N, mine, reply', lost) = 1 .. made' \cup {None}
    <3>1. {reply'[d] : d \in Client} \cup {None} = {reply[d] : d \in Client} \cup {None, x}
      BY <2>6, <2>16
    <3>2. Everywhere(F \ {x}, ToActor, N, mine, reply', lost)
            = Everywhere(F, ToActor, N, mine, reply, lost) \cup {x}
      BY <3>1 DEF Everywhere
    <3> QED
      BY <1>1, <2>2, <3>2
  <2>22. HoldInv'
    BY <1>3, <1>5, <2>2, <2>17, <2>18, <2>19, <2>20, <2>21 DEF HoldInv, N
  <2>23. QueueInv'
    BY <1>3, <2>2 DEF IInv, QueueInv
  <2>24. TypeOK'
    BY <1>3, <2>2, <2>10 DEF IInv, TypeOK, Fields
  <2> QED
    BY <2>14, <2>15, <2>22, <2>23, <2>24 DEF IInv, PhaseInv
<1> QED
  BY <1>6, <1>7
-----------------------------------------------------------------------------
(* The invariant.                                                          *)

\* The invariant holds at the beginning.
LEMMA IInvInit ==
  ASSUME Init
  PROVE  IInv
<1>1. /\ ToSet(<<>>) = {} /\ IsInjective(<<>>) /\ <<>> \in Seq(Message)
  BY DEF ToSet, IsInjective
<1>2. ToActor = {} /\ reply = [c \in Client |-> None]
  BY <1>1 DEF Init, ToActor, reply, Waits
<1>3. TypeOK
  <2>1. \A m \in Message : fields[m] \in Fields
    BY Numbers, FreshFields DEF Init
  <2>2. fields \in [Message -> Fields]
    BY <2>1 DEF Init
  <2>3. \A c \in Client : calls[c] <= Calls[c]
    BY Numbers DEF Init
  <2>4. made \in 0 .. Made /\ ticks \in 0 .. Ticks
    BY Numbers DEF Init
  <2>5. /\ at \in [Client -> {"idle", "signal", "signalsync", "wait", "late", "release",
                             "reply"}]
        /\ calls \in [Client -> Nat] /\ mine \in [Client -> Message \cup {None}]
        /\ retMsg \in [Client -> Message \cup {None}]
    BY DEF Init
  <2>6. /\ actor = "check" /\ msg = None /\ m_bStop = FALSE /\ containerOutEvent = FALSE
        /\ lost = {}
    BY DEF Init
  <2> QED
    BY <1>1, <2>2, <2>3, <2>4, <2>5, <2>6 DEF Init, TypeOK, Fields
<1>4. PhaseInv
  BY DEF Init, PhaseInv, ClientPhase, ActorPhase, Waits
<1>5. QueueInv
  BY <1>1 DEF Init, QueueInv
<1>6. HoldInv
  <2>1. Everywhere({}, {}, {}, mine, reply, lost) = 1 .. made \cup {None}
    <3>1. 1 .. made = {} /\ lost = {}
      BY DEF Init
    <3> QED
      BY <1>2, <3>1 DEF Init, Everywhere
  <2>2. /\ Apart({}, {}, {}, mine, reply) /\ ClientOwns({}, mine, fields, calls, lost)
        /\ ActorOwns({}, mine, fields) /\ ReplyOwns({}, reply, fields, calls)
    BY <1>2 DEF Init, Apart, ClientOwns, ActorOwns, ReplyOwns
  <2> QED
    BY <1>1, <1>2, <2>1, <2>2 DEF Init, HoldInv
<1> QED
  BY <1>3, <1>4, <1>5, <1>6 DEF IInv

\* Every step of an actor keeps the invariant.
LEMMA IInvStep ==
  ASSUME IInv, [Next]_vars
  PROVE  IInv'
<1>1. CASE \E c \in Client : ClientStep(c) \/ WaitTimeout(c)
  <2> PICK c \in Client : ClientStep(c) \/ WaitTimeout(c)
    BY <1>1
  <2>1. CASE \E sync \in BOOLEAN : Send(c, sync)
    BY <2>1, StepSend
  <2>2. CASE Signal(c) \/ WaitTimeout(c)
    BY <2>2, StepSignal
  <2>3. CASE Answered(c) \/ LookAgain(c)
    BY <2>3, StepAnswered
  <2>4. CASE ClientRelease(c)
    BY <2>4, StepClientRelease
  <2>5. CASE ReleaseReply(c)
    BY <2>5, StepReleaseReply
  <2>6. CASE ReceiveInMessage(c)
    BY <2>6, StepGiveBack
  <2> QED
    BY <2>1, <2>2, <2>3, <2>4, <2>5, <2>6 DEF ClientStep
<1>2. CASE ReceiveOutMessage \/ EventWait \/ SetEvent \/ Stop
  BY <1>2, StepActorMoves
<1>3. CASE TimeOut \/ ReplyAsync
  BY <1>3, StepTakes
<1>4. CASE ReplySync
  BY <1>4, StepReplySync
<1>5. CASE PurgeOut \/ ThreadEnds
  BY <1>5, StepLoses
<1>6. CASE ActorRelease \/ Purge
  BY <1>6, StepGiveBack
<1>7. CASE UNCHANGED vars
  <2>1. /\ UNCHANGED <<fields, made, freeMessageQueue, outMessages, inMessages>>
        /\ UNCHANGED <<at, calls, mine, retMsg>>
        /\ UNCHANGED <<containerOutEvent, actor, msg, m_bStop, ticks, lost>>
    BY <1>7 DEF vars, portVars, clientVars, actorVars
  <2>2. TypeOK'
    BY <2>1 DEF IInv, TypeOK
  <2>3. PhaseInv'
    BY <2>1 DEF IInv, PhaseInv, ClientPhase, ActorPhase, Waits, Settled
  <2>4. QueueInv'
    BY <2>1 DEF IInv, QueueInv
  <2>5. ToActor' = ToActor /\ reply' = reply
    BY <2>1, KeepsReply DEF ToActor
  <2>6. HoldInv'
    BY <2>1, <2>5 DEF IInv, HoldInv
  <2> QED
    BY <2>2, <2>3, <2>4, <2>6 DEF IInv
<1> QED
  BY <1>1, <1>2, <1>3, <1>4, <1>5, <1>6, <1>7 DEF Next, ActorStep

\* The invariant of every reachable state.
LEMMA Invariance == Spec => []IInv
<1>1. Init => IInv
  BY IInvInit
<1>2. IInv /\ [Next]_vars => IInv'
  BY IInvStep
<1> QED
  BY <1>1, <1>2, PTL DEF Spec
-----------------------------------------------------------------------------
(* The properties.                                                         *)

\* OneHolder: each message is at one place, but for a synchronous one that nobody
\* has released yet, for any clients and number of messages; with the types of the
\* state, and the event of a call alive when Reply sets it.
THEOREM OneOwnerOfAMessage == Spec => []OneHolder
<1>1. ASSUME IInv PROVE OneHolder
  <2> DEFINE F == ToSet(freeMessageQueue)
             O == ToSet(outMessages)
             N == ToSet(inMessages)
             replies == {reply[c] : c \in Client}
             mines == {mine[c] : c \in Client}
  <2>1. /\ Apart(F, ToActor, N, mine, reply) /\ ClientOwns(ToActor, mine, fields, calls, lost)
        /\ ActorOwns(ToActor, mine, fields) /\ ReplyOwns(N, reply, fields, calls)
    BY <1>1 DEF IInv, HoldInv
  <2>2. /\ freeMessageQueue \in Seq(Message) /\ outMessages \in Seq(Message)
        /\ inMessages \in Seq(Message) /\ None \notin Message
        /\ F \subseteq Message /\ ToActor \subseteq Message /\ N \subseteq Message
    BY <1>1, TypesOf, Numbers DEF IInv
  <2>3. O \subseteq ToActor
    BY DEF ToActor
  <2>4. IsInjective(freeMessageQueue) /\ IsInjective(outMessages) /\ IsInjective(inMessages)
    BY <1>1 DEF IInv, QueueInv
  <2>5. \A c \in Client : retMsg[c] # None => retMsg[c] = reply[c]
    BY <1>1 DEF IInv, PhaseInv, ClientPhase, reply, Waits
  <2>6. Pending \subseteq replies
    BY DEF Pending, reply, Waits
  <2>7. ToClient \subseteq N \cup ((replies \cup mines) \ {None})
    <3>1. {retMsg[c] : c \in Client} \ {None} \subseteq replies
      BY <2>5
    <3>2. None \notin Pending /\ None \notin N
      BY <2>2 DEF Pending
    <3> QED
      BY <2>6, <3>1, <3>2 DEF ToClient
  <2> HIDE DEF F, O, N
  <2>8. F \cap O = {} /\ F \cap N = {} /\ O \cap N = {}
    BY <2>1, <2>3 DEF Apart
  <2>9. IsInjective(freeMessageQueue \o outMessages \o inMessages)
    <3>1. /\ freeMessageQueue \o outMessages \in Seq(Message)
          /\ IsInjective(freeMessageQueue \o outMessages)
          /\ ToSet(freeMessageQueue \o outMessages) = F \cup O
      BY <2>2, <2>4, <2>8, InjectiveConcat DEF F, O
    <3>2. ToSet(freeMessageQueue \o outMessages) \cap ToSet(inMessages) = {}
      BY <2>8, <3>1 DEF N
    <3> QED
      BY <2>2, <2>4, <3>1, <3>2, InjectiveConcat
  <2>10. (ToActor \cup ToClient) \cap F = {}
    <3>1. \A m \in (replies \cup mines) \ {None} : m \notin F
      BY <2>1 DEF Apart
    <3> QED
      BY <2>1, <2>7, <3>1 DEF Apart
  <2>11. ASSUME NEW m \in ToActor \cap ToClient
         PROVE  fields[m].isSync /\ ~fields[m].isSyncFini
    <3>1. m \notin N
      BY <2>1 DEF Apart
    <3>2. m \notin replies
      BY <2>1, <2>2 DEF Apart
    <3>3. PICK c \in Client : m = mine[c] /\ mine[c] # None
      BY <2>2, <2>7, <3>1, <3>2
    <3> QED
      BY <2>1, <3>3 DEF ClientOwns
  <2>12. ASSUME NEW c \in Client, NEW d \in Client, c # d
         PROVE  {mine[c], retMsg[c]} \cap {mine[d], retMsg[d]} \subseteq {None}
    BY <2>1, <2>5, <2>12 DEF Apart
  <2>13. EventAlive
    <3>1. actor = "set" => msg \in ToActor
      BY <1>1 DEF IInv, PhaseInv, ActorPhase, ToActor
    <3> QED
      BY <2>1, <3>1 DEF EventAlive, ActorOwns
  <2>14. TypeOK
    BY <1>1 DEF IInv
  <2> QED
    BY <2>9, <2>10, <2>11, <2>12, <2>13, <2>14 DEF OneHolder, F
<1> QED
  BY <1>1, Invariance, PTL

\* NothingLeaks: what was allocated is free, on its way, or was lost by PurgeOut or
\* a stop, at the end of every call, for any clients and number of messages.
THEOREM NoMessageLeaks == Spec => []NothingLeaks
<1>1. ASSUME IInv PROVE NothingLeaks
  <2> DEFINE F == ToSet(freeMessageQueue)
             N == ToSet(inMessages)
             replies == {reply[c] : c \in Client} \ {None}
             mines == {mine[c] : c \in Client} \ {None}
  <2>1. Everywhere(F, ToActor, N, mine, reply, lost) = 1 .. made \cup {None}
    BY <1>1 DEF IInv, HoldInv
  <2>2. /\ F \subseteq Message /\ ToActor \subseteq Message /\ N \subseteq Message
        /\ lost \subseteq Message /\ None \notin Message /\ None \notin 1 .. made
    BY <1>1, TypesOf, Numbers DEF IInv, TypeOK, None
  <2>3. {retMsg[c] : c \in Client} \ {None} \subseteq replies
    BY <1>1 DEF IInv, PhaseInv, ClientPhase, reply, Waits
  <2>4. Pending \subseteq replies
    BY DEF Pending, reply, Waits
  <2>5. replies \subseteq Pending \cup ({retMsg[c] : c \in Client} \ {None})
    BY DEF Pending, reply, Waits
  <2> HIDE DEF F, N
  <2>6. ToClient = N \cup replies \cup mines
    BY <2>3, <2>4, <2>5 DEF ToClient, N
  <2>7. F \cup ToActor \cup N \cup replies \cup mines \cup lost \cup {None}
          = Everywhere(F, ToActor, N, mine, reply, lost)
    BY DEF Everywhere
  <2> HIDE DEF replies, mines
  <2>8. None \notin replies /\ None \notin mines
    BY DEF replies, mines
  <2>9. 1 .. made = F \cup ToActor \cup N \cup replies \cup mines \cup lost
    BY <2>1, <2>2, <2>7, <2>8
  <2> QED
    BY <2>6, <2>9 DEF NothingLeaks, F
<1> QED
  BY <1>1, Invariance, PTL

\* OwnAnswer: the reply a client gets is the one to its present call, for any
\* clients and calls.
THEOREM AnswerToOwnCall == Spec => []OwnAnswer
<1>1. ASSUME IInv PROVE OwnAnswer
  <2> SUFFICES ASSUME NEW c \in Client, retMsg[c] # None
               PROVE  fields[retMsg[c]].signal = Tag(c)
    BY DEF OwnAnswer
  <2>1. retMsg[c] = reply[c]
    BY <1>1 DEF IInv, PhaseInv, ClientPhase, reply, Waits
  <2> QED
    BY <1>1, <2>1 DEF IInv, HoldInv, ReplyOwns, Tag
<1> QED
  BY <1>1, Invariance, PTL
=============================================================================
