---------------------------- MODULE ActorProtocol ----------------------------
(***************************************************************************)
(* Actor::Protocol and Actor::Message: the port between the clients of an  *)
(* actor (the sink and the engine of ActiveAE, the output threads of the   *)
(* VAAPI and VDPAU decoders) and its thread (xbmc/utils/ActorProtocol.cpp; *)
(* the loop of the actor is CActiveAESink::Process).                       *)
(*                                                                         *)
(* A synchronous message has two owners, the client that waits for the     *)
(* reply and the actor, and is given back by the second one to release it. *)
(* Messages are used again, so that a late owner would find the request of *)
(* somebody else.  Each critical section of the port is one action.        *)
(***************************************************************************)
EXTENDS Integers, Sequences, SequencesExt, Subsequences

CONSTANTS
  Client,       \* the threads that send
  Calls,        \* bound: how many messages each client sends
  Made,         \* bound: how many messages the port allocates
  Ticks         \* bound: how often the actor's wait times out

ASSUME ActorAssumption ==
  {Made, Ticks} \subseteq Nat /\ Calls \in [Client -> Nat]

Message == 1 .. Made
None == 0
NoTag == <<None, 0>>

VARIABLES
  fields,       \* the members of each message; signal tells the call it is for
  made,         \* how many messages were allocated
  freeMessageQueue, outMessages, inMessages,
  containerOutEvent,
  at, calls,    \* where a client is, and its calls
  mine,         \* the message it waits for
  retMsg,       \* the reply it was given
  actor,        \* where the thread of the actor is
  msg,          \* the message it handles
  m_bStop,
  ticks,
  lost          \* messages taken from a queue and not released (history)

portVars   == <<fields, made, freeMessageQueue, outMessages, inMessages>>
clientVars == <<at, calls, mine, retMsg>>
actorVars  == <<actor, msg, m_bStop, ticks, lost>>
vars == <<portVars, containerOutEvent, clientVars, actorVars>>

Fresh(tag, out) ==
  [signal |-> tag, isOut |-> out, isSync |-> FALSE, isSyncFini |-> FALSE,
   isSyncTimeout |-> FALSE, event |-> "none", replyMessage |-> None]

Init ==
  /\ fields = [m \in Message |-> Fresh(NoTag, TRUE)] /\ made = 0
  /\ freeMessageQueue = <<>> /\ outMessages = <<>> /\ inMessages = <<>>
  /\ containerOutEvent = FALSE
  /\ at = [c \in Client |-> "idle"] /\ calls = [c \in Client |-> 0]
  /\ mine = [c \in Client |-> None] /\ retMsg = [c \in Client |-> None]
  /\ actor = "check" /\ msg = None /\ m_bStop = FALSE /\ ticks = 0 /\ lost = {}

\* Mutant of Reset: forgets the reply to the call the message was for before.
ResetAllButReply(m, tag, out) ==
  [Fresh(tag, out) EXCEPT !.replyMessage = fields[m].replyMessage]

\* GetMessage sets the members of a message that was used before.
Reset(m, tag, out) == Fresh(tag, out)

\* GetMessage gives the oldest free message or a new one.
NewMessage == IF freeMessageQueue # <<>> THEN Head(freeMessageQueue) ELSE made + 1

\* Mutant of GetMessage: allocates a message although it takes a free one.
GetMessageTwice ==
  /\ NewMessage \in Message
  /\ made' = made + 1
  /\ freeMessageQueue' = IF freeMessageQueue # <<>> THEN Tail(freeMessageQueue) ELSE <<>>

GetMessage ==
  /\ NewMessage \in Message
  /\ IF freeMessageQueue # <<>>
     THEN freeMessageQueue' = Tail(freeMessageQueue) /\ UNCHANGED made
     ELSE made' = made + 1 /\ UNCHANGED freeMessageQueue

\* Mutant of Leaves: does not ask who was first.
LeavesNever(m) == FALSE

\* Release, the section in which the first of two owners leaves.
Leaves(m) == fields[m].isSync /\ ~fields[m].isSyncFini

\* The rest of Release, when it was not the first: the event is deleted and the
\* message goes back.
Finished(m) == [fields EXCEPT ![m].isSyncFini = TRUE,
                              ![m].event = IF @ = "none" THEN "none" ELSE "deleted"]

Release(m) ==
  IF Leaves(m)
  THEN fields' = [fields EXCEPT ![m].isSyncFini = TRUE] /\ UNCHANGED freeMessageQueue
  ELSE fields' = Finished(m) /\ freeMessageQueue' = Append(freeMessageQueue, m)

(***************************************************************************)
(* Clients                                                                 *)
(***************************************************************************)
Go(c, from, to) == at[c] = from /\ at' = [at EXCEPT ![c] = to]

Tag(c) == <<c, calls[c]>>

\* SendOutMessageSync and SendOutMessage: the message is got, filled and put on
\* the queue.  Nobody sees it before, so that this is one step.
Send(c, sync) ==
  /\ Go(c, "idle", IF sync THEN "signalsync" ELSE "signal") /\ calls[c] < Calls[c]
  /\ calls' = [calls EXCEPT ![c] = @ + 1]
  /\ GetMessage
  /\ mine' = [mine EXCEPT ![c] = IF sync THEN NewMessage ELSE None]
  /\ fields' = [fields EXCEPT ![NewMessage] =
                 [Reset(NewMessage, <<c, calls[c] + 1>>, TRUE) EXCEPT
                    !.isSync = sync, !.event = IF sync THEN "clear" ELSE "none"]]
  /\ outMessages' = Append(outMessages, NewMessage)
  /\ UNCHANGED <<inMessages, containerOutEvent, retMsg, actorVars>>

Signal(c) ==
  /\ \/ Go(c, "signal", "idle")
     \/ Go(c, "signalsync", "wait")
  /\ containerOutEvent' = TRUE
  /\ UNCHANGED <<portVars, calls, mine, retMsg, actorVars>>

Answered(c) ==
  /\ Go(c, "wait", "release") /\ fields[mine[c]].event = "set"
  /\ retMsg' = [retMsg EXCEPT ![c] = fields[mine[c]].replyMessage]
  /\ UNCHANGED <<portVars, containerOutEvent, calls, mine, actorVars>>

WaitTimeout(c) ==
  /\ Go(c, "wait", "late") /\ fields[mine[c]].event # "set"
  /\ UNCHANGED <<portVars, containerOutEvent, calls, mine, retMsg, actorVars>>

\* Mutant of LookAgain: takes the time-out for an answer that will not come.
LookAway(c) ==
  /\ Go(c, "late", "release")
  /\ fields' = [fields EXCEPT ![mine[c]].isSyncTimeout = TRUE]
  /\ UNCHANGED <<made, freeMessageQueue, outMessages, inMessages,
                 containerOutEvent, calls, mine, retMsg, actorVars>>

\* The reply may have come between the time-out and the lock.
LookAgain(c) ==
  /\ Go(c, "late", "release")
  /\ LET m == mine[c] IN
       /\ retMsg' = [retMsg EXCEPT ![c] = fields[m].replyMessage]
       /\ fields' = [fields EXCEPT ![m].isSyncTimeout =
                       fields[m].replyMessage = None]
  /\ UNCHANGED <<made, freeMessageQueue, outMessages, inMessages,
                 containerOutEvent, calls, mine, actorVars>>

ClientRelease(c) ==
  /\ Go(c, "release", IF retMsg[c] = None THEN "idle" ELSE "reply")
  /\ Release(mine[c]) /\ mine' = [mine EXCEPT ![c] = None]
  /\ UNCHANGED <<made, outMessages, inMessages, containerOutEvent, calls, retMsg,
                 actorVars>>

\* The caller reads the reply and gives it back.
ReleaseReply(c) ==
  /\ Go(c, "reply", "idle")
  /\ Release(retMsg[c]) /\ retMsg' = [retMsg EXCEPT ![c] = None]
  /\ UNCHANGED <<made, outMessages, inMessages, containerOutEvent, calls, mine,
                 actorVars>>

\* ReceiveInMessage, for the answers to asynchronous messages; the client reads
\* the message and gives it back.
ReceiveInMessage(c) ==
  /\ at[c] = "idle" /\ inMessages # <<>>
  /\ inMessages' = Tail(inMessages) /\ Release(Head(inMessages))
  /\ UNCHANGED <<made, outMessages, containerOutEvent, clientVars, actorVars>>

(***************************************************************************)
(* The actor                                                               *)
(***************************************************************************)
ReceiveOutMessage ==
  /\ actor = "check" /\ ~m_bStop
  /\ IF outMessages = <<>> THEN actor' = "wait" /\ UNCHANGED <<msg, outMessages>>
     ELSE /\ actor' = "handle" /\ msg' = Head(outMessages)
          /\ outMessages' = Tail(outMessages)
  /\ UNCHANGED <<fields, made, freeMessageQueue, inMessages, containerOutEvent,
                 clientVars, m_bStop, ticks, lost>>

\* Mutant of EventWait: the event is cleared after the queue was looked at.
EventWaitReset ==
  /\ actor = "wait" /\ containerOutEvent' = FALSE
  /\ actor' = IF containerOutEvent /\ outMessages = <<>> THEN "check" ELSE "wait"
  /\ UNCHANGED <<portVars, clientVars, msg, m_bStop, ticks, lost>>

EventWait ==
  /\ actor = "wait" /\ containerOutEvent
  /\ actor' = "check" /\ containerOutEvent' = FALSE
  /\ UNCHANGED <<portVars, clientVars, msg, m_bStop, ticks, lost>>

\* A wait that times out is a message to the state machine.
TimeOut ==
  /\ actor = "wait" /\ ~containerOutEvent /\ ticks < Ticks
  /\ ticks' = ticks + 1
  /\ GetMessage /\ msg' = NewMessage /\ actor' = "handle"
  /\ fields' = [fields EXCEPT ![NewMessage] = Reset(NewMessage, NoTag, TRUE)]
  /\ UNCHANGED <<outMessages, inMessages, containerOutEvent, clientVars, m_bStop,
                 lost>>

\* Reply to a synchronous message, unless its client has given up.  The event is
\* set after the lock.
ReplySync ==
  /\ actor = "handle" /\ fields[msg].isSync /\ fields[msg].replyMessage = None
  /\ actor' = "set"
  /\ IF fields[msg].isSyncTimeout
     THEN UNCHANGED <<fields, made, freeMessageQueue>>
     ELSE /\ GetMessage
          /\ fields' = [fields EXCEPT
               ![NewMessage] = Reset(NewMessage, fields[msg].signal, FALSE),
               ![msg].replyMessage = NewMessage]
  /\ UNCHANGED <<outMessages, inMessages, containerOutEvent, clientVars, msg,
                 m_bStop, ticks, lost>>

SetEvent ==
  /\ actor = "set" /\ actor' = "handled"
  /\ fields' = [fields EXCEPT ![msg].event = "set"]
  /\ UNCHANGED <<made, freeMessageQueue, outMessages, inMessages,
                 containerOutEvent, clientVars, msg, m_bStop, ticks, lost>>

\* Reply to any other message sends a message the other way.
ReplyAsync ==
  /\ actor = "handle" /\ ~fields[msg].isSync /\ fields[msg].signal # NoTag
  /\ actor' = "handled"
  /\ GetMessage
  /\ fields' = [fields EXCEPT
       ![NewMessage] = Reset(NewMessage, fields[msg].signal, FALSE)]
  /\ inMessages' = Append(inMessages, NewMessage)
  /\ UNCHANGED <<outMessages, containerOutEvent, clientVars, msg, m_bStop, ticks,
                 lost>>

\* The state machine takes the messages of one asynchronous signal off the port.
PurgeOut ==
  /\ actor = "handle" /\ actor' = "handled"
  /\ LET purged(m) == ~fields[m].isSync IN
       /\ \E i \in DOMAIN outMessages : purged(outMessages[i])
       /\ outMessages' = SubSeqAt(outMessages,
                           {i \in DOMAIN outMessages : ~purged(outMessages[i])})
       /\ lost' = lost \cup {m \in ToSet(outMessages) : purged(m)}
  /\ UNCHANGED <<fields, made, freeMessageQueue, inMessages, containerOutEvent,
                 clientVars, msg, m_bStop, ticks>>

\* The actor is done with the message, with or without an answer.
ActorRelease ==
  /\ actor \in {"handle", "handled"} /\ actor' = "check"
  /\ Release(msg) /\ msg' = None
  /\ UNCHANGED <<made, outMessages, inMessages, containerOutEvent, clientVars,
                 m_bStop, ticks, lost>>

\* Dispose: the thread is told to stop and joined, then both queues are purged.
\* A message that the state machine wanted to see again is lost.
Stop ==
  /\ ~m_bStop /\ m_bStop' = TRUE /\ containerOutEvent' = TRUE
  /\ UNCHANGED <<portVars, clientVars, actor, msg, ticks, lost>>

ThreadEnds ==
  /\ m_bStop /\ actor \in {"check", "handled"} /\ actor' = "purge"
  /\ lost' = IF actor = "handled" THEN lost \cup {msg} ELSE lost
  /\ msg' = None
  /\ UNCHANGED <<portVars, containerOutEvent, clientVars, m_bStop, ticks>>

Purge ==
  /\ actor = "purge"
  /\ IF inMessages # <<>>
     THEN /\ inMessages' = Tail(inMessages) /\ Release(Head(inMessages))
          /\ UNCHANGED <<actor, outMessages>>
     ELSE IF outMessages # <<>>
     THEN /\ outMessages' = Tail(outMessages) /\ Release(Head(outMessages))
          /\ UNCHANGED <<actor, inMessages>>
     ELSE actor' = "ended" /\ UNCHANGED <<fields, freeMessageQueue, outMessages,
                                          inMessages>>
  /\ UNCHANGED <<made, containerOutEvent, clientVars, msg, m_bStop, ticks, lost>>

(***************************************************************************)
(* The specification                                                       *)
(***************************************************************************)
ClientStep(c) ==
  \/ \E sync \in BOOLEAN : Send(c, sync)
  \/ Signal(c) \/ Answered(c) \/ LookAgain(c) \/ ClientRelease(c)
  \/ ReleaseReply(c) \/ ReceiveInMessage(c)

ActorStep ==
  \/ ReceiveOutMessage \/ EventWait \/ ReplySync \/ SetEvent \/ ReplyAsync
  \/ PurgeOut \/ ActorRelease \/ ThreadEnds \/ Purge

Next ==
  \/ \E c \in Client : ClientStep(c) \/ WaitTimeout(c)
  \/ ActorStep \/ TimeOut \/ Stop

Spec == Init /\ [][Next]_vars

\* The actor's thread is scheduled, and so is a client between its push and the
\* event; nothing is assumed of time-outs or new calls.
FairSpec == Spec /\ WF_vars(ActorStep) /\ WF_vars(\E c \in Client : Signal(c))

(***************************************************************************)
(* Properties                                                              *)
(***************************************************************************)
Tags == (Client \X Nat) \cup {NoTag}

TypeOK ==
  /\ fields \in [Message -> [signal : Tags, isOut : BOOLEAN, isSync : BOOLEAN,
                   isSyncFini : BOOLEAN, isSyncTimeout : BOOLEAN,
                   event : {"none", "clear", "set", "deleted"},
                   replyMessage : Message \cup {None}]]
  /\ made \in 0 .. Made
  /\ freeMessageQueue \in Seq(Message)
  /\ outMessages \in Seq(Message) /\ inMessages \in Seq(Message)
  /\ at \in [Client -> {"idle", "signal", "signalsync", "wait", "late",
                        "release", "reply"}]
  /\ calls \in [Client -> Nat] /\ \A c \in Client : calls[c] <= Calls[c]
  /\ mine \in [Client -> Message \cup {None}]
  /\ retMsg \in [Client -> Message \cup {None}]
  /\ actor \in {"check", "wait", "handle", "set", "handled", "purge", "ended"}
  /\ msg \in Message \cup {None}
  /\ {containerOutEvent, m_bStop} \subseteq BOOLEAN
  /\ ticks \in 0 .. Ticks /\ lost \subseteq Message

ToActor == ToSet(outMessages) \cup ({msg} \ {None})
Pending == {fields[mine[c]].replyMessage : c \in {d \in Client :
              at[d] \in {"signalsync", "wait", "late"}}} \ {None}
ToClient == ToSet(inMessages) \cup Pending
              \cup (({mine[c] : c \in Client} \cup {retMsg[c] : c \in Client})
                      \ {None})

\* EventAlive: Reply sets the event after it has left the lock; the client, which
\* may have given up meanwhile, has not deleted it (ActorProtocol.cpp:75).
EventAlive == actor = "set" => fields[msg].event # "deleted"

\* OneHolder: a message is held at one place; only a synchronous one that nobody
\* has released yet has two owners, the client and the actor.  A message given
\* back is held by nobody, so that whoever gets it next has it alone
\* (ActorProtocol.cpp:21, 249).
OneHolder ==
  /\ TypeOK /\ EventAlive
  /\ IsInjective(freeMessageQueue \o outMessages \o inMessages)
  /\ (ToActor \cup ToClient) \cap ToSet(freeMessageQueue) = {}
  /\ \A m \in ToActor \cap ToClient : fields[m].isSync /\ ~fields[m].isSyncFini
  /\ \A c, d \in Client : c # d => {mine[c], retMsg[c]} \cap {mine[d], retMsg[d]}
                                     \subseteq {None}

\* NothingLeaks: every message that was allocated is free or on its way, whether
\* the reply came, came late or did not come, and when the port is purged; only
\* PurgeOut and a stop in the middle of a message lose one
\* (ActorProtocol.cpp:249, 350).
NothingLeaks ==
  1 .. made = ToSet(freeMessageQueue) \cup ToActor \cup ToClient \cup lost

\* OwnAnswer: the reply a client gets is the one to its own present call, although
\* messages are used again and earlier replies may be late
\* (ActorProtocol.cpp:56, 249).
OwnAnswer ==
  \A c \in Client : retMsg[c] # None => fields[retMsg[c]].signal = Tag(c)

\* MessagesServed: the actor empties its queue unless it is stopped, the clients
\* having a bounded number of calls: no message is put in between its look and its
\* wait without a wake-up (ActorProtocol.cpp:142, ActiveAESink.cpp:629).
MessagesServed == outMessages # <<>> ~> outMessages = <<>> \/ m_bStop
=============================================================================
