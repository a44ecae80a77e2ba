------------------------- MODULE AppMessengerProofs -------------------------
(***************************************************************************)
(* Proofs about AppMessenger: the inductive invariant behind PayloadAlive  *)
(* and HandledOnce, for any threads, calls and depth of the handlers.      *)
(***************************************************************************)
EXTENDS AppMessenger, SequenceProofs

Frames == [phase : {"window", "messages", "direct"}, msg : Messages]

\* What is true of every message that is queued or on the stack, n being the calls
\* made, a where the senders are, sd what they send, w their events: it is of a
\* call that was made, not of the one that is about to be queued, and the caller
\* of a synchronous one is still in the call.  Frames without a call have number 0.
\* The application's thread queues what it posts at once and waits for none of it.
Sound(m, n, a, sd, w) ==
  /\ m.call # 0 => /\ m.from \in Caller /\ m.call <= n[m.from]
                   /\ m.from \in Sender /\ a[m.from] = "push" => m.call < n[m.from]
  /\ m.sync => /\ m.call # 0 /\ m.from \in Sender
               /\ sd[m.from] = m /\ n[m.from] = m.call
               /\ a[m.from] \in {"leave", "wait"} /\ ~w[m.from]

QueueSound(q) ==
  \A i \in DOMAIN q : q[i].call # 0 /\ Sound(q[i], calls, at, sending, waitEvent)

MsgInv ==
  /\ QueueSound(m_vecMessages) /\ QueueSound(m_vecWindowMessages)
  /\ \A i \in DOMAIN stack :
       /\ Sound(stack[i].msg, calls, at, sending, waitEvent)
       /\ stack[i].msg.call = 0 => stack[i].msg \in {NoMsg, DirectMsg}

\* Before its push a message is in its caller's hands alone.
PushInv ==
  \A s \in Sender : at[s] = "push" =>
    /\ sending[s].from = s /\ sending[s].call = calls[s] /\ calls[s] # 0
    /\ ~waitEvent[s]

\* No message is twice in the queues and on the stack.
Distinct(q) == \A i, j \in DOMAIN q : q[i] = q[j] => i = j
Apart(q, st) == \A i \in DOMAIN q, j \in DOMAIN st : q[i] # st[j].msg
FramesDistinct(st) ==
  \A i, j \in DOMAIN st : st[i].msg.call # 0 /\ st[i].msg = st[j].msg => i = j

OnceInv ==
  /\ Distinct(m_vecMessages) /\ Distinct(m_vecWindowMessages)
  /\ \A i \in DOMAIN m_vecMessages, j \in DOMAIN m_vecWindowMessages :
       m_vecMessages[i] # m_vecWindowMessages[j]
  /\ Apart(m_vecMessages, stack) /\ Apart(m_vecWindowMessages, stack)
  /\ FramesDistinct(stack)

IInv == TypeOK /\ MsgInv /\ PushInv /\ OnceInv

-----------------------------------------------------------------------------
(* The values that messages and frames take.                               *)

\* The messages that stand for no call are messages, with the number 0.
LEMMA NoCalls ==
  /\ NoMsg \in Messages /\ NoMsg.call = 0 /\ ~NoMsg.sync
  /\ DirectMsg \in Messages /\ DirectMsg.call = 0 /\ ~DirectMsg.sync
  BY DEF NoMsg, DirectMsg, Messages, Caller

\* A frame is the record of its two parts.
LEMMA FrameFields ==
  ASSUME NEW phase \in {"window", "messages", "direct"}, NEW m \in Messages
  PROVE  /\ Frame(phase, m) \in Frames /\ Frame(phase, m).phase = phase
         /\ Frame(phase, m).msg = m
  BY DEF Frame, Frames

\* What TypeOK says of the top of the stack.
LEMMA TopFields ==
  ASSUME TypeOK, stack # <<>>
  PROVE  /\ stack \in Seq(Frames) /\ Len(stack) \in DOMAIN stack /\ Top = stack[Len(stack)]
         /\ Top.phase \in {"window", "messages", "direct"} /\ Top.msg \in Messages
         /\ Front(stack) \in Seq(Frames) /\ Len(Front(stack)) = Len(stack) - 1
         /\ Len(stack) \in Nat /\ DOMAIN Front(stack) = 1 .. (Len(stack) - 1)
         /\ \A i \in DOMAIN Front(stack) : i \in DOMAIN stack /\ Front(stack)[i] = stack[i]
<1>1. stack \in Seq(Frames)
  BY DEF TypeOK, Frames
<1>2. /\ Len(stack) \in Nat \ {0} /\ DOMAIN stack = 1 .. Len(stack)
      /\ Top \in Frames /\ Top = stack[Len(stack)]
      /\ Front(stack) \in Seq(Frames) /\ Len(Front(stack)) = Len(stack) - 1
      /\ DOMAIN Front(stack) = 1 .. (Len(stack) - 1)
      /\ \A i \in 1 .. (Len(stack) - 1) : Front(stack)[i] = stack[i]
  BY <1>1, FrontLastProperties DEF Top
<1>3. Len(stack) \in DOMAIN stack
  BY <1>2
<1>4. \A i \in 1 .. (Len(stack) - 1) : i \in 1 .. Len(stack)
  BY <1>2
<1> QED
  BY <1>1, <1>2, <1>3, <1>4 DEF Frames

\* The message of a frame and of a queue's slot.
LEMMA MessageTypes ==
  ASSUME TypeOK
  PROVE  /\ \A i \in DOMAIN m_vecMessages : m_vecMessages[i] \in Messages
         /\ \A i \in DOMAIN m_vecWindowMessages : m_vecWindowMessages[i] \in Messages
         /\ \A i \in DOMAIN stack : stack[i].msg \in Messages
<1>1. stack \in Seq(Frames)
  BY DEF TypeOK, Frames
<1>2. \A i \in DOMAIN stack : stack[i].msg \in Messages
  <2>1. \A i \in DOMAIN stack : stack[i] \in Frames
    BY <1>1
  <2> QED
    BY <2>1 DEF Frames
<1>3. /\ \A i \in DOMAIN m_vecMessages : m_vecMessages[i] \in Messages
      /\ \A i \in DOMAIN m_vecWindowMessages : m_vecWindowMessages[i] \in Messages
  <2>1. m_vecMessages \in Seq(Messages) /\ m_vecWindowMessages \in Seq(Messages)
    BY DEF TypeOK
  <2> QED
    BY <2>1
<1> QED
  BY <1>2, <1>3

-----------------------------------------------------------------------------
(* Types.                                                                  *)

\* A step of the senders keeps the types.
LEMMA TypeSender ==
  ASSUME TypeOK, NEW s \in Sender,
         \/ Refused(s)
         \/ \E sync, gui, holds \in BOOLEAN : SendMsg(s, sync, gui, holds)
         \/ SenderStep(s)
  PROVE  TypeOK'
<1> USE DEF Caller
<1>0. ASSUME calls[s] < Calls[s], calls' = [calls EXCEPT ![s] = @ + 1]
      PROVE  calls' \in [Caller -> Nat] /\ \A t \in Caller : calls'[t] <= Calls[t]
  <2>1. \A t \in Caller : calls[t] \in Nat /\ Calls[t] \in Nat /\ calls[t] <= Calls[t]
    BY MessengerAssumption DEF TypeOK
  <2>2. calls \in [Caller -> Nat]
    BY DEF TypeOK
  <2>3. calls' \in [Caller -> Nat]
    BY <1>0, <2>1, <2>2
  <2>4. \A t \in Caller : calls'[t] = IF t = s THEN calls[s] + 1 ELSE calls[t]
    BY <1>0, <2>2
  <2> QED
    BY <1>0, <2>1, <2>3, <2>4
<1>1. CASE Refused(s)
  <2>1. calls' \in [Caller -> Nat] /\ \A t \in Caller : calls'[t] <= Calls[t]
    BY <1>0, <1>1 DEF Refused, MayCall
  <2> QED
    BY <1>1, <2>1 DEF TypeOK, Refused, queues
<1>2. ASSUME NEW sync \in BOOLEAN, NEW gui \in BOOLEAN, NEW holds \in BOOLEAN,
             SendMsg(s, sync, gui, holds)
      PROVE  TypeOK'
  <2>1. [from |-> s, call |-> calls[s] + 1, sync |-> sync, gui |-> gui, holds |-> holds]
          \in Messages
    <3>1. calls[s] + 1 \in Nat
      BY DEF TypeOK
    <3> QED
      BY <3>1 DEF Messages
  <2>2. sending' \in [Sender -> Messages]
    BY <1>2, <2>1 DEF SendMsg, TypeOK
  <2>3. gfx' \in Sender \cup {"none"}
    BY <1>2 DEF SendMsg, Locks, TypeOK
  <2>4. calls' \in [Caller -> Nat] /\ \A t \in Caller : calls'[t] <= Calls[t]
    BY <1>0, <1>2 DEF SendMsg, MayCall
  <2>5. at' \in [Sender -> {"idle", "push", "leave", "wait"}]
        /\ waitEvent' \in [Sender -> BOOLEAN]
    BY <1>2 DEF SendMsg, TypeOK
  <2> QED
    BY <1>2, <2>2, <2>3, <2>4, <2>5 DEF SendMsg, TypeOK, queues
<1>3. CASE Push(s)
  <2>1. sending[s] \in Messages
    BY DEF TypeOK
  <2>2. m_vecMessages' \in Seq(Messages) /\ m_vecWindowMessages' \in Seq(Messages)
    <3>1. m_vecMessages \in Seq(Messages) /\ m_vecWindowMessages \in Seq(Messages)
      BY DEF TypeOK
    <3>2. /\ Append(m_vecMessages, sending[s]) \in Seq(Messages)
          /\ Append(m_vecWindowMessages, sending[s]) \in Seq(Messages)
      BY <2>1, <3>1
    <3> QED
      BY <1>3, <3>1, <3>2 DEF Push, Enqueue
  <2>3. gfx' \in Sender \cup {"none"} /\ late' \subseteq Sender
    BY <1>3 DEF Push, Unlocks, TypeOK
  <2>4. at' \in [Sender -> {"idle", "push", "leave", "wait"}]
    BY <1>3 DEF Push, Go, TypeOK
  <2> QED
    BY <1>3, <2>2, <2>3, <2>4 DEF Push, TypeOK
<1>4. CASE Leave(s)
  BY <1>4 DEF Leave, Go, Unlocks, TypeOK, queues
<1>5. CASE Answered(s)
  BY <1>5 DEF Answered, Go, Unlocks, TypeOK, queues
<1> QED
  BY <1>1, <1>2, <1>3, <1>4, <1>5 DEF SenderStep

\* So does a step of the application's thread that replaces its top frame.
LEMMA TypeReplace ==
  ASSUME TypeOK, stack # <<>>, NEW phase \in {"window", "messages", "direct"},
         NEW m \in Messages, ReplaceTop(Frame(phase, m))
  PROVE  stack' \in Seq(Frames) /\ Len(stack') <= Depth
<1>1. stack \in Seq(Frames) /\ Len(stack) <= Depth
  BY DEF TypeOK, Frames
<1>2. Frame(phase, m) \in Frames
  BY FrameFields
<1> QED
  BY <1>1, <1>2, ReplaceLast DEF ReplaceTop

\* A step of the application's thread keeps the types.
LEMMA TypePump ==
  ASSUME TypeOK, PumpStep \/ Return \/ SendDirect \/ ProcessRenderLoop \/ Stop \/ Destroy
  PROVE  TypeOK'
<1> USE NoCalls
<1>1. CASE ProcessMessages
  <2>1. /\ Head(m_vecMessages) \in Messages /\ m_vecMessages' \in Seq(Messages)
    BY <1>1, HeadTailElements DEF ProcessMessages, TypeOK
  <2>2. stack' \in Seq(Frames) /\ Len(stack') <= Depth
    BY <1>1, <2>1, TypeReplace DEF ProcessMessages, Pumps, Running
  <2> QED
    BY <1>1, <2>1, <2>2 DEF ProcessMessages, TypeOK, senderVars, Frames
<1>2. CASE ProcessWindowMessages
  <2>1. Head(m_vecWindowMessages) \in Messages /\ m_vecWindowMessages' \in Seq(Messages)
    BY <1>2, HeadTailElements DEF ProcessWindowMessages, TypeOK
  <2>2. stack' \in Seq(Frames) /\ Len(stack') <= Depth
    BY <1>2, <2>1, TypeReplace DEF ProcessWindowMessages, Pumps, Running
  <2> QED
    BY <1>2, <2>1, <2>2 DEF ProcessWindowMessages, TypeOK, senderVars, Frames
<1>3. CASE WindowsDone
  <2>1. stack' \in Seq(Frames) /\ Len(stack') <= Depth
    BY <1>3, TypeReplace DEF WindowsDone, Pumps, Running
  <2> QED
    BY <1>3, <2>1 DEF WindowsDone, TypeOK, senderVars, queues, Frames
<1>4. CASE ProcessDone
  <2>1. stack # <<>>
    BY <1>4 DEF ProcessDone, Pumps, Running
  <2>2. CASE stack' = Front(stack)
    <3>1. stack' \in Seq(Frames) /\ Len(stack') <= Depth
      BY <2>1, <2>2, TopFields, MessengerAssumption DEF TypeOK
    <3> QED
      BY <1>4, <3>1 DEF ProcessDone, TypeOK, senderVars, queues, Frames
  <2>3. CASE ReplaceTop(Frame("window", NoMsg))
    <3>1. stack' \in Seq(Frames) /\ Len(stack') <= Depth
      BY <2>1, <2>3, TypeReplace
    <3> QED
      BY <1>4, <3>1 DEF ProcessDone, TypeOK, senderVars, queues, Frames
  <2> QED
    BY <1>4, <2>2, <2>3 DEF ProcessDone
<1>5. CASE Return
  <2>1. stack # <<>>
    BY <1>5 DEF Return, Handles, Running
  <2>2. stack' \in Seq(Frames) /\ Len(stack') <= Depth
    <3>1. CASE stack' = Front(stack)
      BY <2>1, <3>1, TopFields, MessengerAssumption DEF TypeOK
    <3>2. CASE ReplaceTop(Frame(Top.phase, NoMsg))
      BY <2>1, <3>2, TypeReplace, TopFields
    <3> QED
      BY <1>5, <3>1, <3>2 DEF Return
  <2>3. waitEvent' \in [Sender -> BOOLEAN]
    BY <1>5 DEF Return, TypeOK
  <2> QED
    BY <1>5, <2>2, <2>3 DEF Return, TypeOK, senderVars, queues, Frames
<1>6. CASE SendDirect \/ ProcessRenderLoop
  <2>1. Frame("direct", DirectMsg) \in Frames /\ Frame("window", NoMsg) \in Frames
    BY FrameFields
  <2>2. stack \in Seq(Frames) /\ Len(stack) \in Nat /\ Len(stack) < Depth /\ Depth \in Nat
    BY <1>6, MessengerAssumption DEF SendDirect, ProcessRenderLoop, TypeOK, Frames
  <2>3. stack' \in Seq(Frames) /\ Len(stack') = Len(stack) + 1
    BY <1>6, <2>1, <2>2 DEF SendDirect, ProcessRenderLoop
  <2>4. Len(stack') <= Depth
    BY <2>2, <2>3
  <2> QED
    BY <1>6, <2>3, <2>4
    DEF SendDirect, ProcessRenderLoop, TypeOK, senderVars, queues, Frames
<1>7. CASE Stop
  BY <1>7 DEF Stop, TypeOK, senderVars, queues
<1>8. CASE CancelJobs
  BY <1>8 DEF CancelJobs, TypeOK, senderVars, queues
<1>9. CASE Cleanup
  <2>1. waitEvent' \in [Sender -> BOOLEAN]
    BY <1>9 DEF Cleanup, TypeOK
  <2>2. <<>> \in Seq(Messages)
    OBVIOUS
  <2> QED
    BY <1>9, <2>1, <2>2 DEF Cleanup, TypeOK, senderVars
<1>10. CASE Destroy
  <2>1. <<>> \in Seq(Messages)
    OBVIOUS
  <2> QED
    BY <1>10, <2>1 DEF Destroy, TypeOK, senderVars
<1> QED
  BY <1>1, <1>2, <1>3, <1>4, <1>5, <1>6, <1>7, <1>8, <1>9, <1>10 DEF PumpStep
-----------------------------------------------------------------------------
(* Steps that leave the queues and the stack alone.                        *)

\* The calls of the senders move, and every message stays sound.
LEMMA QuietStep ==
  ASSUME TypeOK, MsgInv, OnceInv, UNCHANGED <<queues, stack>>,
         \A m \in Messages : Sound(m, calls, at, sending, waitEvent)
                               => Sound(m, calls, at, sending, waitEvent)'
  PROVE  MsgInv' /\ OnceInv'
<1>1. /\ m_vecMessages' = m_vecMessages /\ m_vecWindowMessages' = m_vecWindowMessages
      /\ stack' = stack
  BY DEF queues
<1>2. \A m \in Messages : Sound(m, calls, at, sending, waitEvent)
                            => Sound(m, calls', at', sending', waitEvent')
  BY DEF Sound
<1>3. QueueSound(m_vecMessages)' /\ QueueSound(m_vecWindowMessages)'
  BY <1>1, <1>2, MessageTypes DEF MsgInv, QueueSound
<1>4. \A i \in DOMAIN stack' :
        /\ Sound(stack'[i].msg, calls', at', sending', waitEvent')
        /\ stack'[i].msg.call = 0 => stack'[i].msg \in {NoMsg, DirectMsg}
  BY <1>1, <1>2, MessageTypes DEF MsgInv
<1>5. OnceInv'
  BY <1>1 DEF OnceInv, Distinct, Apart, FramesDistinct
<1> QED
  BY <1>3, <1>4, <1>5 DEF MsgInv

\* SendMsg up to the lock: the message of the call is not queued yet.
LEMMA StepSendMsg ==
  ASSUME IInv, NEW s \in Sender, NEW sync \in BOOLEAN, NEW gui \in BOOLEAN,
         NEW holds \in BOOLEAN, SendMsg(s, sync, gui, holds)
  PROVE  MsgInv' /\ PushInv' /\ OnceInv'
<1>1. /\ at \in [Sender -> {"idle", "push", "leave", "wait"}] /\ calls \in [Caller -> Nat]
      /\ sending \in [Sender -> Messages] /\ waitEvent \in [Sender -> BOOLEAN]
      /\ Sender \subseteq Caller
  BY DEF IInv, TypeOK, Caller
<1>2. /\ at[s] = "idle" /\ at' = [at EXCEPT ![s] = "push"]
      /\ calls' = [calls EXCEPT ![s] = calls[s] + 1]
      /\ sending' = [sending EXCEPT ![s] = [from |-> s, call |-> calls[s] + 1,
                                     sync |-> sync, gui |-> gui, holds |-> holds]]
      /\ waitEvent' = [waitEvent EXCEPT ![s] = FALSE]
      /\ UNCHANGED <<queues, stack>>
  BY DEF SendMsg, MayCall
<1>3. ASSUME NEW m \in Messages, Sound(m, calls, at, sending, waitEvent)
      PROVE  Sound(m, calls', at', sending', waitEvent')
  <2>1. m.call \in Nat
    BY DEF Messages
  <2>2. CASE m.call # 0 /\ m.from = s
    <3>1. ~m.sync
      BY <1>2, <1>3, <2>2 DEF Sound
    <3>2. m.call <= calls[s] /\ calls'[s] = calls[s] + 1 /\ calls[s] \in Nat
      BY <1>1, <1>2, <1>3, <2>2 DEF Sound
    <3>3. m.from \in Caller /\ m.call <= calls'[m.from] /\ m.call < calls'[m.from]
      BY <1>1, <2>1, <2>2, <3>2
    <3> QED
      BY <3>1, <3>3 DEF Sound
  <2>3. CASE m.call # 0 /\ m.from # s
    <3>1. m.from \in Caller /\ calls'[m.from] = calls[m.from]
      BY <1>1, <1>2, <1>3, <2>3 DEF Sound
    <3>2. m.from \in Sender
            => /\ at'[m.from] = at[m.from] /\ sending'[m.from] = sending[m.from]
               /\ waitEvent'[m.from] = waitEvent[m.from]
      BY <1>1, <1>2, <2>3
    <3> QED
      BY <1>3, <2>3, <3>1, <3>2 DEF Sound
  <2>4. CASE m.call = 0
    BY <1>3, <2>4 DEF Sound
  <2> QED
    BY <2>2, <2>3, <2>4
<1>4. \A m \in Messages : Sound(m, calls, at, sending, waitEvent)
                            => Sound(m, calls, at, sending, waitEvent)'
  BY <1>3 DEF Sound
<1>5. MsgInv' /\ OnceInv'
  BY <1>2, <1>4, QuietStep DEF IInv
<1>6. PushInv'
  <2> SUFFICES ASSUME NEW t \in Sender, at'[t] = "push"
               PROVE  /\ sending'[t].from = t /\ sending'[t].call = calls'[t]
                      /\ calls'[t] # 0 /\ ~waitEvent'[t]
    BY DEF PushInv
  <2>1. CASE t = s
    BY <1>1, <1>2, <2>1
  <2>2. CASE t # s
    <3>1. /\ at'[t] = at[t] /\ calls'[t] = calls[t]
          /\ sending'[t] = sending[t] /\ waitEvent'[t] = waitEvent[t]
      BY <1>1, <1>2, <2>2
    <3> QED
      BY <3>1 DEF IInv, PushInv
  <2> QED
    BY <2>1, <2>2
<1> QED
  BY <1>5, <1>6

\* A call that is refused, a sender that begins to wait and one that goes on.
LEMMA StepQuietSender ==
  ASSUME IInv, NEW s \in Sender, Refused(s) \/ Leave(s) \/ Answered(s)
  PROVE  MsgInv' /\ PushInv' /\ OnceInv'
<1>1. /\ at \in [Sender -> {"idle", "push", "leave", "wait"}] /\ calls \in [Caller -> Nat]
      /\ sending \in [Sender -> Messages] /\ waitEvent \in [Sender -> BOOLEAN]
      /\ Sender \subseteq Caller
  BY DEF IInv, TypeOK, Caller
<1>2. UNCHANGED <<queues, stack, sending, waitEvent>> /\ at[s] # "push" /\ at'[s] # "push"
  BY <1>1 DEF Refused, MayCall, Leave, Answered, Go
<1>3. /\ \A t \in Sender : t # s => at'[t] = at[t]
      /\ \A t \in Caller : t # s => calls'[t] = calls[t]
  BY <1>1 DEF Refused, Leave, Answered, Go
<1>4. calls'[s] >= calls[s] /\ calls[s] \in Nat /\ calls'[s] \in Nat
  BY <1>1 DEF Refused, Leave, Answered
<1>5. at[s] \in {"leave", "wait"} /\ ~waitEvent[s]
        => at'[s] \in {"leave", "wait"} /\ calls'[s] = calls[s]
  BY <1>1 DEF Refused, MayCall, Leave, Answered, Go
<1>6. ASSUME NEW m \in Messages, Sound(m, calls, at, sending, waitEvent)
      PROVE  Sound(m, calls', at', sending', waitEvent')
  <2>1. m.call \in Nat
    BY DEF Messages
  <2>2. CASE m.call # 0 /\ m.from = s
    <3>1. m.call <= calls[s] /\ m.call <= calls'[s]
      BY <1>4, <1>6, <2>1, <2>2 DEF Sound
    <3> QED
      BY <1>2, <1>5, <1>6, <2>2, <3>1 DEF Sound
  <2>3. CASE m.call # 0 /\ m.from # s
    <3>1. m.from \in Caller
      BY <1>6, <2>3 DEF Sound
    <3> QED
      BY <1>2, <1>3, <1>6, <2>3, <3>1 DEF Sound
  <2>4. CASE m.call = 0
    BY <1>6, <2>4 DEF Sound
  <2> QED
    BY <2>2, <2>3, <2>4
<1>7. \A m \in Messages : Sound(m, calls, at, sending, waitEvent)
                            => Sound(m, calls, at, sending, waitEvent)'
  BY <1>6 DEF Sound
<1>8. MsgInv' /\ OnceInv'
  BY <1>2, <1>7, QuietStep DEF IInv
<1>9. PushInv'
  BY <1>1, <1>2, <1>3 DEF IInv, PushInv
<1> QED
  BY <1>8, <1>9

-----------------------------------------------------------------------------
(* The push.                                                               *)

\* The message of the call that is made is in no queue and on no frame.
LEMMA Fresh ==
  ASSUME IInv, NEW s \in Sender, at[s] = "push"
  PROVE  /\ \A m \in Messages : Sound(m, calls, at, sending, waitEvent) => m # sending[s]
         /\ sending[s] \in Messages
<1>1. /\ sending[s].from = s /\ sending[s].call = calls[s] /\ calls[s] # 0
      /\ calls[s] \in Nat /\ sending[s] \in Messages
  BY DEF IInv, PushInv, TypeOK, Caller
<1> SUFFICES ASSUME NEW m \in Messages, Sound(m, calls, at, sending, waitEvent),
                    m = sending[s]
             PROVE  FALSE
  BY <1>1
<1>2. m.from = s /\ m.call = calls[s] /\ m.call # 0
  BY <1>1
<1>3. m.call < calls[s]
  BY <1>2 DEF Sound
<1> QED
  BY <1>1, <1>2, <1>3

\* Appending a message that is nowhere keeps a queue sound and without repetition.
LEMMA PushQueue ==
  ASSUME NEW q \in Seq(Messages), NEW e \in Messages, Distinct(q),
         \A i \in DOMAIN q : q[i] # e
  PROVE  /\ Append(q, e) \in Seq(Messages) /\ Distinct(Append(q, e))
         /\ \A i \in DOMAIN Append(q, e) :
              Append(q, e)[i] = e \/ (i \in DOMAIN q /\ Append(q, e)[i] = q[i])
<1>1. /\ Append(q, e) \in Seq(Messages) /\ Len(q) \in Nat /\ DOMAIN q = 1 .. Len(q)
      /\ DOMAIN Append(q, e) = 1 .. (Len(q) + 1) /\ Append(q, e)[Len(q) + 1] = e
      /\ \A i \in DOMAIN Append(q, e) :
           i = Len(q) + 1 \/ (i \in DOMAIN q /\ Append(q, e)[i] = q[i])
  BY AppendElements
<1>2. ASSUME NEW i \in DOMAIN Append(q, e), NEW j \in DOMAIN Append(q, e),
             Append(q, e)[i] = Append(q, e)[j]
      PROVE  i = j
  <2>1. CASE i = Len(q) + 1 /\ j # Len(q) + 1
    BY <1>1, <1>2, <2>1
  <2>2. CASE j = Len(q) + 1 /\ i # Len(q) + 1
    BY <1>1, <1>2, <2>2
  <2>3. CASE i # Len(q) + 1 /\ j # Len(q) + 1
    BY <1>1, <1>2, <2>3 DEF Distinct
  <2> QED
    BY <2>1, <2>2, <2>3
<1> QED
  BY <1>1, <1>2 DEF Distinct

\* A message that is nowhere is queued, and the others stay as sound as they were.
LEMMA StepEnqueue ==
  ASSUME IInv, NEW e \in Messages, Enqueue(e), stack' = stack, e.call # 0,
         Sound(e, calls', at', sending', waitEvent'),
         \A m \in Messages :
           Sound(m, calls, at, sending, waitEvent)
             => m # e /\ Sound(m, calls', at', sending', waitEvent')
  PROVE  MsgInv' /\ OnceInv'
<1>1. m_vecMessages \in Seq(Messages) /\ m_vecWindowMessages \in Seq(Messages)
  BY DEF IInv, TypeOK
<1>2. \A i \in DOMAIN stack :
        /\ stack[i].msg # e /\ Sound(stack[i].msg, calls', at', sending', waitEvent')
        /\ stack[i].msg.call = 0 => stack[i].msg \in {NoMsg, DirectMsg}
  BY MessageTypes DEF IInv, MsgInv
<1>3. /\ \A i \in DOMAIN m_vecMessages :
           /\ m_vecMessages[i] # e /\ m_vecMessages[i].call # 0
           /\ Sound(m_vecMessages[i], calls', at', sending', waitEvent')
      /\ \A i \in DOMAIN m_vecWindowMessages :
           /\ m_vecWindowMessages[i] # e /\ m_vecWindowMessages[i].call # 0
           /\ Sound(m_vecWindowMessages[i], calls', at', sending', waitEvent')
  BY MessageTypes DEF IInv, MsgInv, QueueSound
<1>4. /\ Distinct(m_vecMessages) /\ Distinct(m_vecWindowMessages)
      /\ FramesDistinct(stack)
  BY DEF IInv, OnceInv
<1>5. CASE e.gui
  <2>1. m_vecMessages' = m_vecMessages /\ m_vecWindowMessages' = Append(m_vecWindowMessages, e)
    BY <1>5 DEF Enqueue
  <2>2. /\ Distinct(m_vecWindowMessages')
        /\ \A i \in DOMAIN m_vecWindowMessages' :
             \/ m_vecWindowMessages'[i] = e
             \/ /\ i \in DOMAIN m_vecWindowMessages
                /\ m_vecWindowMessages'[i] = m_vecWindowMessages[i]
    BY <1>1, <1>3, <1>4, <2>1, PushQueue
  <2>3. MsgInv'
    BY <1>2, <1>3, <2>1, <2>2 DEF MsgInv, QueueSound
  <2>4. OnceInv'
    BY <1>2, <1>3, <1>4, <2>1, <2>2 DEF IInv, OnceInv, Apart
  <2> QED
    BY <2>3, <2>4
<1>6. CASE ~e.gui
  <2>1. m_vecWindowMessages' = m_vecWindowMessages /\ m_vecMessages' = Append(m_vecMessages, e)
    BY <1>6 DEF Enqueue
  <2>2. /\ Distinct(m_vecMessages')
        /\ \A i \in DOMAIN m_vecMessages' :
             \/ m_vecMessages'[i] = e
             \/ /\ i \in DOMAIN m_vecMessages
                /\ m_vecMessages'[i] = m_vecMessages[i]
    BY <1>1, <1>3, <1>4, <2>1, PushQueue
  <2>3. MsgInv'
    BY <1>2, <1>3, <2>1, <2>2 DEF MsgInv, QueueSound
  <2>4. OnceInv'
    BY <1>2, <1>3, <1>4, <2>1, <2>2 DEF IInv, OnceInv, Apart
  <2> QED
    BY <2>3, <2>4
<1> QED
  BY <1>5, <1>6

\* Push: the message is queued, and from now on it is of the call its sender is in.
LEMMA StepPush ==
  ASSUME IInv, NEW s \in Sender, Push(s)
  PROVE  MsgInv' /\ PushInv' /\ OnceInv'
<1> DEFINE e == sending[s]
<1>1. /\ at \in [Sender -> {"idle", "push", "leave", "wait"}] /\ calls \in [Caller -> Nat]
      /\ sending \in [Sender -> Messages] /\ waitEvent \in [Sender -> BOOLEAN]
  BY DEF IInv, TypeOK
<1>2. /\ at[s] = "push" /\ UNCHANGED <<calls, sending, waitEvent, stack>> /\ Enqueue(e)
      /\ at' = [at EXCEPT ![s] = IF e.sync THEN "leave" ELSE "idle"]
  BY DEF Push, Go
<1>3. /\ e \in Messages /\ e.from = s /\ e.call = calls[s] /\ e.call # 0 /\ ~waitEvent[s]
      /\ e.call <= calls[s] /\ s \in Caller
  BY <1>1, <1>2 DEF IInv, PushInv, Caller
<1>4. \A m \in Messages : Sound(m, calls, at, sending, waitEvent) => m # e
  BY <1>2, Fresh
<1>5. ASSUME NEW m \in Messages, Sound(m, calls, at, sending, waitEvent)
      PROVE  Sound(m, calls', at', sending', waitEvent')
  <2>1. \A t \in Sender : t # s => at'[t] = at[t]
    BY <1>1, <1>2
  <2>2. at'[s] # "push"
    BY <1>1, <1>2
  <2> QED
    BY <1>2, <1>5, <2>1, <2>2 DEF Sound
<1>6. Sound(e, calls', at', sending', waitEvent')
  <2>1. at'[s] = IF e.sync THEN "leave" ELSE "idle"
    BY <1>1, <1>2
  <2> QED
    BY <1>2, <1>3, <2>1 DEF Sound
<1>7. PushInv'
  BY <1>1, <1>2 DEF IInv, PushInv
<1> HIDE DEF e
<1>8. MsgInv' /\ OnceInv'
  BY <1>2, <1>3, <1>4, <1>5, <1>6, StepEnqueue
<1> QED
  BY <1>7, <1>8

\* PostMsg of the application's thread: its message is the first of a new call.
LEMMA StepPostMsg ==
  ASSUME IInv, NEW gui \in BOOLEAN, PostMsg(gui)
  PROVE  IInv'
<1> DEFINE e == [from |-> App, call |-> calls[App] + 1, sync |-> FALSE, gui |-> gui,
                 holds |-> FALSE]
<1>1. /\ calls \in [Caller -> Nat] /\ App \in Caller /\ App \notin Sender
      /\ Calls \in [Caller -> Nat] /\ Sender \subseteq Caller
  BY MessengerAssumption DEF IInv, TypeOK, Caller
<1>2. /\ calls[App] < Calls[App] /\ calls' = [calls EXCEPT ![App] = calls[App] + 1]
      /\ Enqueue(e)
      /\ UNCHANGED <<m_bStop, stack, shutdown, at, sending, waitEvent, gfx, late>>
  BY DEF PostMsg
<1>3. /\ calls[App] \in Nat /\ calls' \in [Caller -> Nat] /\ calls'[App] = calls[App] + 1
      /\ \A c \in Caller : c # App => calls'[c] = calls[c]
  BY <1>1, <1>2
<1>4. /\ e \in Messages /\ e.call # 0 /\ e.call = calls[App] + 1 /\ e.from = App
      /\ ~e.sync
  BY <1>1, <1>3 DEF Messages
<1> HIDE DEF e
<1>5. ASSUME NEW m \in Messages, Sound(m, calls, at, sending, waitEvent)
      PROVE  m # e /\ Sound(m, calls', at', sending', waitEvent')
  <2>1. m.call \in Nat
    BY DEF Messages
  <2>2. CASE m.call # 0 /\ m.from = App
    <3>1. m.call <= calls[App] /\ ~m.sync
      BY <1>1, <1>5, <2>2 DEF Sound
    <3>2. m.call <= calls'[App] /\ m.call # calls[App] + 1
      BY <1>3, <2>1, <3>1
    <3> QED
      BY <1>1, <1>4, <2>2, <3>1, <3>2 DEF Sound
  <2>3. CASE m.call # 0 /\ m.from # App
    BY <1>2, <1>3, <1>4, <1>5, <2>3 DEF Sound
  <2>4. CASE m.call = 0
    BY <1>4, <1>5, <2>4 DEF Sound
  <2> QED
    BY <2>2, <2>3, <2>4
<1>6. Sound(e, calls', at', sending', waitEvent')
  <2>1. e.call <= calls'[App]
    BY <1>3, <1>4
  <2> QED
    BY <1>1, <1>4, <2>1 DEF Sound
<1>7. MsgInv' /\ OnceInv'
  BY <1>2, <1>4, <1>5, <1>6, StepEnqueue
<1>8. PushInv'
  BY <1>1, <1>2, <1>3 DEF IInv, PushInv
<1>9. TypeOK'
  <2>1. \A c \in Caller : calls'[c] <= Calls[c]
    <3>1. \A c \in Caller : calls[c] <= Calls[c] /\ Calls[c] \in Nat
      BY <1>1 DEF IInv, TypeOK
    <3> QED
      BY <1>1, <1>2, <1>3, <3>1
  <2>2. m_vecMessages' \in Seq(Messages) /\ m_vecWindowMessages' \in Seq(Messages)
    <3>1. m_vecMessages \in Seq(Messages) /\ m_vecWindowMessages \in Seq(Messages)
      BY DEF IInv, TypeOK
    <3>2. /\ Append(m_vecMessages, e) \in Seq(Messages)
          /\ Append(m_vecWindowMessages, e) \in Seq(Messages)
      BY <1>4, <3>1
    <3> QED
      BY <1>2, <3>1, <3>2 DEF Enqueue
  <2> QED
    BY <1>2, <1>3, <2>1, <2>2 DEF IInv, TypeOK
<1> QED
  BY <1>7, <1>8, <1>9 DEF IInv
-----------------------------------------------------------------------------
(* The frames of the application's thread.                                 *)

\* What the frames of a step hold: their old message, or none of a call.
KeepsFrames ==
  \A i \in DOMAIN stack' :
    \/ i \in DOMAIN stack /\ stack'[i].msg = stack[i].msg
    \/ stack'[i].msg \in {NoMsg, DirectMsg}

\* Such a step with the queues as they are repeats no message.
LEMMA FramesOnce ==
  ASSUME MsgInv, OnceInv, UNCHANGED queues, KeepsFrames
  PROVE  OnceInv'
<1>1. m_vecMessages' = m_vecMessages /\ m_vecWindowMessages' = m_vecWindowMessages
  BY DEF queues
<1>2. \A m \in {NoMsg, DirectMsg} : m.call = 0
  BY NoCalls
<1>3. ASSUME NEW q, QueueSound(q), Apart(q, stack)
      PROVE  \A i \in DOMAIN q, j \in DOMAIN stack' : q[i] # stack'[j].msg
  BY <1>2, <1>3 DEF QueueSound, Apart, KeepsFrames
<1>4. ASSUME NEW i \in DOMAIN stack', NEW j \in DOMAIN stack',
             stack'[i].msg.call # 0, stack'[i].msg = stack'[j].msg
      PROVE  i = j
  <2>1. /\ i \in DOMAIN stack /\ stack'[i].msg = stack[i].msg
        /\ j \in DOMAIN stack /\ stack'[j].msg = stack[j].msg
    BY <1>2, <1>4 DEF KeepsFrames
  <2> QED
    BY <1>4, <2>1 DEF OnceInv, FramesDistinct
<1>5. Apart(m_vecMessages', stack') /\ Apart(m_vecWindowMessages', stack')
  BY <1>1, <1>3 DEF MsgInv, OnceInv, Apart
<1>6. FramesDistinct(stack')
  BY <1>4 DEF FramesDistinct
<1> QED
  BY <1>1, <1>5, <1>6 DEF OnceInv, Distinct

\* And when the senders are left alone, too, the messages stay sound.
LEMMA FramesStep ==
  ASSUME IInv, UNCHANGED <<queues, senderVars, waitEvent>>, KeepsFrames
  PROVE  MsgInv' /\ PushInv' /\ OnceInv'
<1>1. /\ m_vecMessages' = m_vecMessages /\ m_vecWindowMessages' = m_vecWindowMessages
      /\ at' = at /\ calls' = calls /\ sending' = sending /\ waitEvent' = waitEvent
  BY DEF queues, senderVars
<1>2. \A m \in {NoMsg, DirectMsg} : Sound(m, calls, at, sending, waitEvent)
  BY NoCalls DEF Sound
<1>3. \A i \in DOMAIN stack' :
        /\ Sound(stack'[i].msg, calls, at, sending, waitEvent)
        /\ stack'[i].msg.call = 0 => stack'[i].msg \in {NoMsg, DirectMsg}
  BY <1>2 DEF IInv, MsgInv, KeepsFrames
<1>4. MsgInv'
  BY <1>1, <1>3 DEF IInv, MsgInv, QueueSound
<1>5. PushInv'
  BY <1>1 DEF IInv, PushInv
<1>6. OnceInv'
  BY FramesOnce DEF IInv
<1> QED
  BY <1>4, <1>5, <1>6

\* Replacing the top frame keeps the others.
LEMMA ReplaceKeeps ==
  ASSUME TypeOK, stack # <<>>, NEW phase \in {"window", "messages", "direct"},
         NEW m \in Messages, ReplaceTop(Frame(phase, m))
  PROVE  /\ DOMAIN stack' = DOMAIN stack /\ Len(stack) \in DOMAIN stack
         /\ stack'[Len(stack)].msg = m /\ Top = stack[Len(stack)]
         /\ \A i \in DOMAIN stack : i # Len(stack) => stack'[i] = stack[i]
<1>1. stack \in Seq(Frames)
  BY DEF TypeOK, Frames
<1>2. Frame(phase, m) \in Frames /\ Frame(phase, m).msg = m
  BY FrameFields
<1> DEFINE f == Frame(phase, m)
<1> HIDE DEF f
<1>3. stack' = Append(Front(stack), f) /\ f \in Frames /\ f.msg = m
  BY <1>2 DEF ReplaceTop, f
<1>4. /\ DOMAIN Append(Front(stack), f) = DOMAIN stack
      /\ Len(stack) \in DOMAIN stack /\ Last(stack) = stack[Len(stack)]
      /\ Append(Front(stack), f)[Len(stack)] = f
      /\ \A i \in DOMAIN stack : i # Len(stack) => Append(Front(stack), f)[i] = stack[i]
  BY <1>1, <1>3, ReplaceLast
<1> QED
  BY <1>3, <1>4 DEF Top

\* Pushing a frame without a call keeps the others.
LEMMA PushKeeps ==
  ASSUME TypeOK, NEW f \in Frames, f.msg \in {NoMsg, DirectMsg}, stack' = Append(stack, f)
  PROVE  KeepsFrames
<1>1. stack \in Seq(Frames)
  BY DEF TypeOK, Frames
<1> QED
  BY <1>1, AppendElements DEF KeepsFrames

\* The loops of the pump between the messages, and the handlers that open a dialog
\* or send to their own thread.
LEMMA StepFrames ==
  ASSUME IInv, WindowsDone \/ ProcessDone \/ SendDirect \/ ProcessRenderLoop
  PROVE  MsgInv' /\ PushInv' /\ OnceInv'
<1>1. TypeOK
  BY DEF IInv
<1>2. UNCHANGED <<queues, senderVars, waitEvent>>
  BY DEF WindowsDone, ProcessDone, SendDirect, ProcessRenderLoop
<1>3. ASSUME NEW phase \in {"window", "messages"}, stack # <<>>,
             ReplaceTop(Frame(phase, NoMsg))
      PROVE  KeepsFrames
  BY <1>1, <1>3, NoCalls, ReplaceKeeps DEF KeepsFrames
<1>4. WindowsDone => KeepsFrames
  BY <1>3 DEF WindowsDone, Pumps, Running
<1>5. ProcessDone => KeepsFrames
  <2>1. ASSUME stack # <<>>, stack' = Front(stack)
        PROVE  KeepsFrames
    BY <1>1, <2>1, TopFields DEF KeepsFrames
  <2> QED
    BY <1>3, <2>1 DEF ProcessDone, Pumps, Running
<1>6. SendDirect \/ ProcessRenderLoop => KeepsFrames
  <2>1. /\ Frame("direct", DirectMsg) \in Frames /\ Frame("direct", DirectMsg).msg = DirectMsg
        /\ Frame("window", NoMsg) \in Frames /\ Frame("window", NoMsg).msg = NoMsg
    BY FrameFields, NoCalls
  <2> QED
    BY <1>1, <2>1, PushKeeps DEF SendDirect, ProcessRenderLoop
<1> QED
  BY <1>2, <1>4, <1>5, <1>6, FramesStep

\* A handler returns: the message it handled is nowhere else, and no other one is
\* of the call whose event is set.
LEMMA StepReturn ==
  ASSUME IInv, Return
  PROVE  MsgInv' /\ PushInv' /\ OnceInv'
<1> DEFINE n == Len(stack)
           top == stack[n].msg
<1>1. TypeOK /\ stack # <<>> /\ UNCHANGED <<queues, senderVars>>
  BY DEF IInv, Return, Handles, Running
<1>2. /\ n \in DOMAIN stack /\ Top.msg = top /\ top \in Messages
      /\ Sound(top, calls, at, sending, waitEvent)
  BY <1>1, TopFields DEF IInv, MsgInv
<1>3. /\ DOMAIN stack' \subseteq DOMAIN stack
      /\ \A i \in DOMAIN stack' : i # n => stack'[i] = stack[i]
      /\ n \in DOMAIN stack' => stack'[n].msg = NoMsg
  <2>1. CASE stack' = Front(stack)
    <3>1. /\ DOMAIN stack' = 1 .. (n - 1) /\ n \in Nat
          /\ \A i \in DOMAIN stack' : i \in DOMAIN stack /\ stack'[i] = stack[i]
      BY <1>1, <2>1, TopFields
    <3>2. n \notin DOMAIN stack'
      BY <3>1
    <3> QED
      BY <3>1, <3>2
  <2>2. CASE ReplaceTop(Frame(Top.phase, NoMsg))
    BY <1>1, <2>2, ReplaceKeeps, TopFields, NoCalls
  <2> QED
    BY <2>1, <2>2 DEF Return
<1>4. KeepsFrames
  BY <1>3 DEF KeepsFrames
<1>5. OnceInv'
  BY <1>1, <1>4, FramesOnce DEF IInv
<1>6. waitEvent' = IF top.sync THEN [waitEvent EXCEPT ![top.from] = TRUE] ELSE waitEvent
  BY <1>2 DEF Return
<1>7. waitEvent \in [Sender -> BOOLEAN]
  BY <1>1 DEF TypeOK
<1> HIDE DEF n, top
<1>8. ASSUME NEW m \in Messages, Sound(m, calls, at, sending, waitEvent), m # top
      PROVE  Sound(m, calls', at', sending', waitEvent')
  <2>1. at' = at /\ calls' = calls /\ sending' = sending
    BY <1>1 DEF senderVars
  <2>2. CASE m.sync
    <3>1. m.from \in Sender /\ sending[m.from] = m
      BY <1>8, <2>2 DEF Sound
    <3>2. top.sync => sending[top.from] = top
      BY <1>2 DEF Sound
    <3>3. top.sync => m.from # top.from
      BY <1>8, <3>1, <3>2
    <3>4. waitEvent'[m.from] = waitEvent[m.from]
      BY <1>6, <1>7, <3>1, <3>3
    <3> QED
      BY <1>8, <2>1, <3>4 DEF Sound
  <2>3. CASE ~m.sync
    BY <1>8, <2>1, <2>3 DEF Sound
  <2> QED
    BY <2>2, <2>3
<1>9. ASSUME NEW q, QueueSound(q), Apart(q, stack), \A i \in DOMAIN q : q[i] \in Messages
      PROVE  \A i \in DOMAIN q : /\ q[i].call # 0
                                 /\ Sound(q[i], calls', at', sending', waitEvent')
  <2>1. \A i \in DOMAIN q : q[i] # top
    BY <1>2, <1>9 DEF Apart, top
  <2> QED
    BY <1>8, <1>9, <2>1 DEF QueueSound
<1>10. /\ \A i \in DOMAIN m_vecMessages :
            /\ m_vecMessages[i].call # 0
            /\ Sound(m_vecMessages[i], calls', at', sending', waitEvent')
       /\ \A i \in DOMAIN m_vecWindowMessages :
            /\ m_vecWindowMessages[i].call # 0
            /\ Sound(m_vecWindowMessages[i], calls', at', sending', waitEvent')
  BY <1>1, <1>9, MessageTypes DEF IInv, MsgInv, OnceInv
<1>11. \A i \in DOMAIN stack' :
         /\ Sound(stack'[i].msg, calls', at', sending', waitEvent')
         /\ stack'[i].msg.call = 0 => stack'[i].msg \in {NoMsg, DirectMsg}
  <2> SUFFICES ASSUME NEW i \in DOMAIN stack'
               PROVE  /\ Sound(stack'[i].msg, calls', at', sending', waitEvent')
                      /\ stack'[i].msg.call = 0 => stack'[i].msg \in {NoMsg, DirectMsg}
    OBVIOUS
  <2>1. CASE i = n
    BY <1>3, <2>1, NoCalls DEF Sound
  <2>2. CASE i # n
    <3>1. stack'[i].msg = stack[i].msg /\ i \in DOMAIN stack /\ stack[i].msg \in Messages
      BY <1>1, <1>3, <2>2, MessageTypes
    <3>2. /\ Sound(stack[i].msg, calls, at, sending, waitEvent)
          /\ stack[i].msg.call = 0 => stack[i].msg \in {NoMsg, DirectMsg}
      BY <3>1 DEF IInv, MsgInv
    <3>3. CASE stack[i].msg = top
      <4>1. stack[i].msg.call = 0
        BY <1>2, <2>2, <3>1, <3>3 DEF IInv, OnceInv, FramesDistinct, top
      <4>2. stack[i].msg \in {NoMsg, DirectMsg}
        BY <3>2, <4>1
      <4> QED
        BY <3>1, <4>2, NoCalls DEF Sound
    <3>4. CASE stack[i].msg # top
      BY <1>8, <3>1, <3>2, <3>4
    <3> QED
      BY <3>3, <3>4
  <2> QED
    BY <2>1, <2>2
<1>12. MsgInv'
  BY <1>1, <1>10, <1>11 DEF MsgInv, QueueSound, queues
<1>13. PushInv'
  <2> SUFFICES ASSUME NEW s \in Sender, at[s] = "push"
               PROVE  waitEvent'[s] = waitEvent[s]
    BY <1>1 DEF IInv, PushInv, senderVars
  <2>1. top.sync => at[top.from] \in {"leave", "wait"}
    BY <1>2 DEF Sound
  <2> QED
    BY <1>6, <1>7, <2>1
<1> QED
  BY <1>5, <1>12, <1>13
-----------------------------------------------------------------------------
(* The pump takes a message.                                               *)

\* Without its first element a queue stays sound and without repetition, and that
\* element is in it no more.
LEMMA TailQueue ==
  ASSUME NEW q \in Seq(Messages), q # <<>>, Distinct(q)
  PROVE  /\ Tail(q) \in Seq(Messages) /\ Distinct(Tail(q)) /\ 1 \in DOMAIN q
         /\ Head(q) = q[1] /\ Head(q) \in Messages
         /\ \A i \in DOMAIN Tail(q) :
              /\ Tail(q)[i] # Head(q)
              /\ \E j \in DOMAIN q : Tail(q)[i] = q[j]
<1>1. /\ Len(q) \in Nat /\ DOMAIN q = 1 .. Len(q) /\ 1 \in DOMAIN q
      /\ Head(q) \in Messages /\ Head(q) = q[1]
      /\ Tail(q) \in Seq(Messages) /\ DOMAIN Tail(q) = 1 .. (Len(q) - 1)
      /\ \A i \in DOMAIN Tail(q) : i + 1 \in DOMAIN q /\ i + 1 # 1 /\ Tail(q)[i] = q[i + 1]
  BY HeadTailElements
<1>2. \A i \in DOMAIN Tail(q) : Tail(q)[i] # Head(q)
  BY <1>1 DEF Distinct
<1>3. ASSUME NEW i \in DOMAIN Tail(q), NEW j \in DOMAIN Tail(q), Tail(q)[i] = Tail(q)[j]
      PROVE  i = j
  <2>1. i + 1 = j + 1
    BY <1>1, <1>3 DEF Distinct
  <2>2. i \in Nat /\ j \in Nat
    BY <1>1
  <2> QED
    BY <2>1, <2>2
<1> QED
  BY <1>1, <1>2, <1>3 DEF Distinct

\* The message goes from the head of its queue to the top frame.
LEMMA StepTake ==
  ASSUME IInv, NEW q \in Seq(Messages), q # <<>>, NEW other \in Seq(Messages),
         QueueSound(q), Distinct(q), Apart(q, stack),
         QueueSound(other), Distinct(other), Apart(other, stack),
         \A i \in DOMAIN q, j \in DOMAIN other : q[i] # other[j],
         NEW phase \in {"messages", "window"}, stack # <<>>,
         ReplaceTop(Frame(phase, Head(q))), UNCHANGED <<senderVars, waitEvent>>
  PROVE  /\ \A r \in {Tail(q), other} :
              QueueSound(r)' /\ Distinct(r) /\ Apart(r, stack')
         /\ \A i \in DOMAIN Tail(q), j \in DOMAIN other : Tail(q)[i] # other[j]
         /\ FramesDistinct(stack') /\ PushInv'
         /\ \A i \in DOMAIN stack' :
              /\ Sound(stack'[i].msg, calls', at', sending', waitEvent')
              /\ stack'[i].msg.call = 0 => stack'[i].msg \in {NoMsg, DirectMsg}
<1> DEFINE n == Len(stack)
           m == Head(q)
           t == Tail(q)
<1>1. /\ t \in Seq(Messages) /\ Distinct(t) /\ 1 \in DOMAIN q /\ m = q[1] /\ m \in Messages
      /\ \A i \in DOMAIN t : t[i] # m /\ \E j \in DOMAIN q : t[i] = q[j]
  BY TailQueue
<1>2. m.call # 0 /\ Sound(m, calls, at, sending, waitEvent)
  BY <1>1 DEF QueueSound
<1>3. /\ DOMAIN stack' = DOMAIN stack /\ n \in DOMAIN stack /\ stack'[n].msg = m
      /\ \A i \in DOMAIN stack : i # n => stack'[i] = stack[i]
  BY <1>1, ReplaceKeeps DEF IInv
<1>4. \A i \in DOMAIN stack : stack[i].msg # m
  BY <1>1 DEF Apart
<1>5. \A i \in DOMAIN other : other[i] # m
  BY <1>1
<1>6. calls' = calls /\ at' = at /\ sending' = sending /\ waitEvent' = waitEvent
  BY DEF senderVars
<1> HIDE DEF n, m, t
<1>7. \A i \in DOMAIN t : t[i].call # 0 /\ Sound(t[i], calls, at, sending, waitEvent)
  BY <1>1 DEF QueueSound
<1>8. QueueSound(t)' /\ QueueSound(other)'
  <2>1. \A i \in DOMAIN t : t[i].call # 0 /\ Sound(t[i], calls', at', sending', waitEvent')
    BY <1>6, <1>7
  <2>2. \A i \in DOMAIN other :
          other[i].call # 0 /\ Sound(other[i], calls', at', sending', waitEvent')
    BY <1>6 DEF QueueSound
  <2>3. t' = t
    BY DEF t
  <2> QED
    BY <2>1, <2>2, <2>3 DEF QueueSound
<1>9. Apart(t, stack') /\ Apart(other, stack')
  <2>1. \A i \in DOMAIN t, j \in DOMAIN stack : t[i] # stack[j].msg
    BY <1>1 DEF Apart
  <2>2. ASSUME NEW i \in DOMAIN t, NEW j \in DOMAIN stack' PROVE t[i] # stack'[j].msg
    <3>1. CASE j = n
      BY <1>1, <1>3, <3>1
    <3>2. CASE j # n
      BY <1>3, <2>1, <3>2
    <3> QED
      BY <3>1, <3>2
  <2>3. \A i \in DOMAIN other, j \in DOMAIN stack' : other[i] # stack'[j].msg
    BY <1>3, <1>5 DEF Apart
  <2> QED
    BY <2>2, <2>3 DEF Apart
<1>10. \A i \in DOMAIN t, j \in DOMAIN other : t[i] # other[j]
  BY <1>1
<1>11. FramesDistinct(stack')
  <2> SUFFICES ASSUME NEW i \in DOMAIN stack', NEW j \in DOMAIN stack',
                      stack'[i].msg.call # 0, stack'[i].msg = stack'[j].msg
               PROVE  i = j
    BY DEF FramesDistinct
  <2>1. CASE i = n /\ j # n
    BY <1>3, <1>4, <2>1
  <2>2. CASE j = n /\ i # n
    BY <1>3, <1>4, <2>2
  <2>3. CASE i # n /\ j # n
    BY <1>3, <2>3 DEF IInv, OnceInv, FramesDistinct
  <2> QED
    BY <2>1, <2>2, <2>3
<1>12. \A i \in DOMAIN stack' :
         /\ Sound(stack'[i].msg, calls', at', sending', waitEvent')
         /\ stack'[i].msg.call = 0 => stack'[i].msg \in {NoMsg, DirectMsg}
  BY <1>2, <1>3, <1>6 DEF IInv, MsgInv
<1>13. PushInv'
  BY <1>6 DEF IInv, PushInv
<1> QED
  BY <1>1, <1>8, <1>9, <1>10, <1>11, <1>12, <1>13 DEF t

\* The two loops of the pump.
LEMMA StepProcess ==
  ASSUME IInv, ProcessMessages \/ ProcessWindowMessages
  PROVE  MsgInv' /\ PushInv' /\ OnceInv'
<1> DEFINE a == m_vecMessages
           b == m_vecWindowMessages
<1>1. /\ a \in Seq(Messages) /\ b \in Seq(Messages) /\ QueueSound(a) /\ QueueSound(b)
      /\ Distinct(a) /\ Distinct(b) /\ Apart(a, stack) /\ Apart(b, stack)
      /\ \A i \in DOMAIN a, j \in DOMAIN b : a[i] # b[j]
      /\ \A i \in DOMAIN b, j \in DOMAIN a : b[i] # a[j]
  BY DEF IInv, TypeOK, MsgInv, OnceInv
<1>2. CASE ProcessMessages
  <2>1. /\ a # <<>> /\ stack # <<>> /\ ReplaceTop(Frame("messages", Head(a)))
        /\ a' = Tail(a) /\ b' = b /\ UNCHANGED <<senderVars, waitEvent>>
    BY <1>2 DEF ProcessMessages, Pumps, Running
  <2>2. /\ \A r \in {Tail(a), b} :
              QueueSound(r)' /\ Distinct(r) /\ Apart(r, stack')
        /\ \A i \in DOMAIN Tail(a), j \in DOMAIN b : Tail(a)[i] # b[j]
        /\ FramesDistinct(stack') /\ PushInv'
        /\ \A i \in DOMAIN stack' :
             /\ Sound(stack'[i].msg, calls', at', sending', waitEvent')
             /\ stack'[i].msg.call = 0 => stack'[i].msg \in {NoMsg, DirectMsg}
    BY <1>1, <2>1, StepTake
  <2> QED
    BY <2>1, <2>2 DEF MsgInv, OnceInv
<1>3. CASE ProcessWindowMessages
  <2>1. /\ b # <<>> /\ stack # <<>> /\ ReplaceTop(Frame("window", Head(b)))
        /\ b' = Tail(b) /\ a' = a /\ UNCHANGED <<senderVars, waitEvent>>
    BY <1>3 DEF ProcessWindowMessages, Pumps, Running
  <2>2. /\ \A r \in {Tail(b), a} :
              QueueSound(r)' /\ Distinct(r) /\ Apart(r, stack')
        /\ \A i \in DOMAIN Tail(b), j \in DOMAIN a : Tail(b)[i] # a[j]
        /\ FramesDistinct(stack') /\ PushInv'
        /\ \A i \in DOMAIN stack' :
             /\ Sound(stack'[i].msg, calls', at', sending', waitEvent')
             /\ stack'[i].msg.call = 0 => stack'[i].msg \in {NoMsg, DirectMsg}
    BY <1>1, <2>1, StepTake
  <2> QED
    BY <2>1, <2>2 DEF MsgInv, OnceInv
<1> QED
  BY <1>2, <1>3
-----------------------------------------------------------------------------
(* The end, and the invariants.                                            *)

\* CApplication::Stop and the wait for the jobs touch no message.
LEMMA StepStop ==
  ASSUME IInv, Stop \/ CancelJobs \/ UNCHANGED vars
  PROVE  MsgInv' /\ PushInv' /\ OnceInv'
<1>1. UNCHANGED <<queues, stack>> /\ at' = at /\ calls' = calls /\ sending' = sending
      /\ waitEvent' = waitEvent
  BY DEF Stop, CancelJobs, senderVars, vars
<1>2. \A m \in Messages : Sound(m, calls, at, sending, waitEvent)
                            => Sound(m, calls, at, sending, waitEvent)'
  BY <1>1 DEF Sound
<1>3. MsgInv' /\ OnceInv'
  BY <1>1, <1>2, QuietStep DEF IInv
<1>4. PushInv'
  BY <1>1 DEF IInv, PushInv
<1> QED
  BY <1>3, <1>4

\* Cleanup wakes the senders of queued messages: none of them has its message in a
\* handler, and none is before its push.
LEMMA StepCleanup ==
  ASSUME IInv, Cleanup \/ Destroy
  PROVE  MsgInv' /\ PushInv' /\ OnceInv'
<1>1. /\ m_vecMessages' = <<>> /\ m_vecWindowMessages' = <<>> /\ stack' = stack
      /\ at' = at /\ calls' = calls /\ sending' = sending
      /\ waitEvent \in [Sender -> BOOLEAN]
  BY DEF IInv, TypeOK, Cleanup, Destroy, senderVars
<1>2. \A s \in Sender :
        waitEvent'[s] => \/ waitEvent[s]
                         \/ \E m \in InQueues : m.sync /\ m.from = s
  BY DEF Cleanup, Destroy
<1>3. \A m \in InQueues : /\ Sound(m, calls, at, sending, waitEvent)
                          /\ \A j \in DOMAIN stack : m # stack[j].msg
  BY DEF IInv, MsgInv, OnceInv, QueueSound, Apart, InQueues, ToSet
<1>4. DOMAIN m_vecMessages' = {} /\ DOMAIN m_vecWindowMessages' = {}
  BY <1>1
<1>5. OnceInv'
  BY <1>1, <1>4 DEF IInv, OnceInv, Distinct, Apart, FramesDistinct
<1>6. PushInv'
  <2> SUFFICES ASSUME NEW s \in Sender, at[s] = "push"
               PROVE  ~waitEvent'[s]
    BY <1>1 DEF IInv, PushInv
  <2>1. ~waitEvent[s]
    BY DEF IInv, PushInv
  <2>2. \A m \in InQueues : m.sync => m.from # s
    BY <1>3 DEF Sound
  <2> QED
    BY <1>2, <2>1, <2>2
<1>7. ASSUME NEW i \in DOMAIN stack
      PROVE  Sound(stack[i].msg, calls', at', sending', waitEvent')
  <2> DEFINE m == stack[i].msg
  <2>1. Sound(m, calls, at, sending, waitEvent)
    BY DEF IInv, MsgInv
  <2>2. \A l \in InQueues : l # m
    BY <1>3
  <2> HIDE DEF m
  <2>3. CASE m.sync
    <3>1. m.from \in Sender /\ sending[m.from] = m /\ ~waitEvent[m.from]
      BY <2>1, <2>3 DEF Sound
    <3>2. \A l \in InQueues : l.sync => l.from # m.from
      BY <1>3, <2>2, <3>1 DEF Sound
    <3>3. ~waitEvent'[m.from]
      BY <1>2, <3>1, <3>2
    <3> QED
      BY <1>1, <2>1, <3>3 DEF Sound, m
  <2>4. CASE ~m.sync
    BY <1>1, <2>1, <2>4 DEF Sound, m
  <2> QED
    BY <2>3, <2>4
<1>8. MsgInv'
  BY <1>1, <1>4, <1>7 DEF IInv, MsgInv, QueueSound
<1> QED
  BY <1>5, <1>6, <1>8

\* The invariant holds of an application that has just started.
LEMMA IInvInit ==
  ASSUME Init
  PROVE  IInv
<1>1. NoMsg \in Messages /\ Frame("window", NoMsg) \in Frames
      /\ Frame("window", NoMsg).msg = NoMsg /\ <<>> \in Seq(Messages)
  BY NoCalls, FrameFields
<1>2. stack \in Seq(Frames) /\ Len(stack) = 1 /\ DOMAIN stack = {1} /\ stack[1].msg = NoMsg
  BY <1>1 DEF Init
<1>3. TypeOK
  <2>1. sending \in [Sender -> Messages]
    BY <1>1 DEF Init
  <2>2. calls \in [Caller -> Nat] /\ \A c \in Caller : calls[c] <= Calls[c]
    BY MessengerAssumption DEF Init
  <2>3. /\ at \in [Sender -> {"idle", "push", "leave", "wait"}]
        /\ waitEvent \in [Sender -> BOOLEAN]
    BY DEF Init
  <2>4. Len(stack) <= Depth
    BY <1>2, MessengerAssumption
  <2> QED
    BY <1>1, <1>2, <2>1, <2>2, <2>3, <2>4 DEF Init, TypeOK, Frames
<1>4. DOMAIN m_vecMessages = {} /\ DOMAIN m_vecWindowMessages = {}
  BY DEF Init
<1>5. MsgInv
  BY <1>2, <1>4, NoCalls DEF MsgInv, QueueSound, Sound
<1>6. OnceInv
  BY <1>2, <1>4 DEF OnceInv, Distinct, Apart, FramesDistinct
<1>7. PushInv
  BY DEF Init, PushInv
<1> QED
  BY <1>3, <1>5, <1>6, <1>7 DEF IInv

\* Every step keeps it.
LEMMA IInvStep ==
  ASSUME IInv, [Next]_vars
  PROVE  IInv'
<1>1. TypeOK'
  <2>1. CASE UNCHANGED vars
    BY <2>1 DEF IInv, TypeOK, vars, queues, senderVars
  <2> QED
    BY <2>1, TypeSender, TypePump, StepPostMsg DEF IInv, Next
<1>2. MsgInv' /\ PushInv' /\ OnceInv'
  <2>1. ASSUME NEW s \in Sender,
               \/ Refused(s)
               \/ \E sync, gui, holds \in BOOLEAN : SendMsg(s, sync, gui, holds)
               \/ SenderStep(s)
        PROVE  MsgInv' /\ PushInv' /\ OnceInv'
    BY <2>1, StepQuietSender, StepSendMsg, StepPush DEF SenderStep
  <2>2. CASE PumpStep
    BY <2>2, StepProcess, StepFrames, StepStop, StepCleanup DEF PumpStep
  <2>3. CASE Return
    BY <2>3, StepReturn
  <2>4. CASE SendDirect \/ ProcessRenderLoop
    BY <2>4, StepFrames
  <2>5. CASE Stop \/ UNCHANGED vars
    BY <2>5, StepStop
  <2>6. CASE Destroy
    BY <2>6, StepCleanup
  <2>7. CASE \E gui \in BOOLEAN : PostMsg(gui)
    BY <2>7, StepPostMsg DEF IInv
  <2> QED
    BY <2>1, <2>2, <2>3, <2>4, <2>5, <2>6, <2>7 DEF Next
<1> QED
  BY <1>1, <1>2 DEF IInv

\* The inductive invariant holds at every time.
LEMMA Invariance == Spec => []IInv
<1> QED
  BY IInvInit, IInvStep, PTL DEF Spec

\* PayloadIsAlive: for any threads, any number of calls and any depth of nested
\* dialogs, a synchronous message that is queued or in a handler points into the
\* stack of a sender that is still in that very call (ApplicationMessenger.cpp:124,
\* 217).
THEOREM PayloadIsAlive == Spec => []PayloadAlive
<1>1. IInv => PayloadAlive
  <2> SUFFICES ASSUME IInv, NEW m \in InQueues \cup OnStack
               PROVE  m.sync => /\ sending[m.from] = m /\ calls[m.from] = m.call
                                /\ at[m.from] \in {"leave", "wait"} /\ ~waitEvent[m.from]
    BY DEF PayloadAlive, IInv
  <2>1. Sound(m, calls, at, sending, waitEvent)
    BY DEF IInv, MsgInv, QueueSound, InQueues, OnStack, ToSet
  <2> QED
    BY <2>1 DEF Sound
<1> QED
  BY <1>1, Invariance, PTL

\* NoMessageIsHandledTwice: no handler that runs the pump again meets its own
\* message, however deep the handlers are (ApplicationMessenger.cpp:208).
THEOREM NoMessageIsHandledTwice == Spec => []HandledOnce
<1>1. IInv => HandledOnce
  BY DEF IInv, MsgInv, OnceInv, FramesDistinct, HandledOnce
<1> QED
  BY <1>1, Invariance, PTL
=============================================================================
