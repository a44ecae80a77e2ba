---------------------------- MODULE AppMessenger ----------------------------
(***************************************************************************)
(* CApplicationMessenger: messages from any thread to the application's    *)
(* thread, with the pump of that thread, the handlers that run the pump    *)
(* again (a modal dialog) and the shutdown by a message                    *)
(* (xbmc/messaging/ApplicationMessenger.cpp, application/Application.cpp). *)
(*                                                                         *)
(* A synchronous message points into the stack of its sender, which stays  *)
(* in SendMsg until its event is set.  The stack of the application's      *)
(* thread is a sequence of frames: a frame without a message runs a loop   *)
(* of the pump, one with a message is in the handler of the message.       *)
(***************************************************************************)
EXTENDS Integers, Sequences, SequencesExt

CONSTANTS
  Sender,       \* the other threads that send
  Worker,       \* the ones of them that are workers of the job manager
  Calls,        \* bound: how many messages each thread sends or posts
  Depth         \* bound: how many frames the application's thread has

App == "app"                        \* the application's thread
Caller == Sender \cup {App}

ASSUME MessengerAssumption ==
  /\ App \notin Sender /\ Worker \subseteq Sender
  /\ Calls \in [Caller -> Nat] /\ Depth \in Nat \ {0}

NoMsg == [from |-> "none", call |-> 0, sync |-> FALSE, gui |-> FALSE, holds |-> FALSE]
DirectMsg == [NoMsg EXCEPT !.from = App]

VARIABLES
  m_vecMessages, m_vecWindowMessages,
  m_bStop,
  stack,        \* the frames of the application's thread
  shutdown,     \* where CApplication::Stop is
  at, calls,    \* where a sender is, and the calls of each thread
  sending,      \* the message it sends
  waitEvent,    \* whether the event of its call is set
  gfx,          \* the thread that holds the graphics lock
  late          \* senders whose message was put on a queue after Cleanup (history)

queues == <<m_vecMessages, m_vecWindowMessages>>
senderVars == <<at, calls, sending>>
vars == <<queues, m_bStop, stack, shutdown, senderVars, waitEvent, gfx, late>>

Frame(phase, m) == [phase |-> phase, msg |-> m]

Init ==
  /\ m_vecMessages = <<>> /\ m_vecWindowMessages = <<>> /\ m_bStop = FALSE
  /\ stack = <<Frame("window", NoMsg)>> /\ shutdown = "no"
  /\ at = [s \in Sender |-> "idle"] /\ calls = [c \in Caller |-> 0]
  /\ sending = [s \in Sender |-> NoMsg]
  /\ waitEvent = [s \in Sender |-> FALSE]
  /\ gfx = "none" /\ late = {}

(***************************************************************************)
(* SendMsg and PostMsg on another thread                                   *)
(***************************************************************************)
Go(s, from, to) == at[s] = from /\ at' = [at EXCEPT ![s] = to]

\* A caller may hold the graphics lock.
Locks(s, holds) == IF holds THEN gfx = "none" /\ gfx' = s ELSE UNCHANGED gfx

Unlocks(s) == gfx' = IF gfx = s THEN "none" ELSE gfx

\* A job runs only until the jobs are cancelled.
MayCall(s) ==
  /\ at[s] = "idle" /\ calls[s] < Calls[s]
  /\ s \in Worker => shutdown = "no"

Refused(s) ==
  /\ MayCall(s) /\ m_bStop
  /\ calls' = [calls EXCEPT ![s] = @ + 1]
  /\ UNCHANGED <<queues, m_bStop, stack, shutdown, at, sending, waitEvent, gfx, late>>

\* m_bStop is tested before the lock is taken.
SendMsg(s, sync, gui, holds) ==
  /\ MayCall(s) /\ ~m_bStop
  /\ at' = [at EXCEPT ![s] = "push"]
  /\ calls' = [calls EXCEPT ![s] = @ + 1]
  /\ sending' = [sending EXCEPT ![s] =
       [from |-> s, call |-> calls[s] + 1, sync |-> sync, gui |-> gui, holds |-> holds]]
  /\ waitEvent' = [waitEvent EXCEPT ![s] = FALSE]
  /\ Locks(s, holds)
  /\ UNCHANGED <<queues, m_bStop, stack, shutdown, late>>

\* A message goes to the queue of its kind.
Enqueue(m) ==
  IF m.gui
  THEN /\ m_vecWindowMessages' = Append(m_vecWindowMessages, m)
       /\ UNCHANGED m_vecMessages
  ELSE /\ m_vecMessages' = Append(m_vecMessages, m)
       /\ UNCHANGED m_vecWindowMessages

Push(s) ==
  /\ Go(s, "push", IF sending[s].sync THEN "leave" ELSE "idle")
  /\ Enqueue(sending[s])
  /\ IF sending[s].sync THEN UNCHANGED gfx ELSE Unlocks(s)
  /\ late' = IF shutdown = "done" /\ sending[s].sync THEN late \cup {s} ELSE late
  /\ UNCHANGED <<m_bStop, stack, shutdown, calls, sending, waitEvent>>

\* The sender leaves the graphics lock while it waits ...
Leave(s) ==
  /\ Go(s, "leave", "wait")
  /\ Unlocks(s)
  /\ UNCHANGED <<queues, m_bStop, stack, shutdown, calls, sending, waitEvent, late>>

\* ... and takes it again before it goes on.
Answered(s) ==
  /\ Go(s, "wait", "idle") /\ waitEvent[s]
  /\ sending[s].holds => gfx \in {"none", s}
  /\ Unlocks(s)
  /\ UNCHANGED <<queues, m_bStop, stack, shutdown, calls, sending, waitEvent, late>>

(***************************************************************************)
(* The application's thread                                                *)
(***************************************************************************)
Top == Last(stack)

\* It is not inside CApplication::Stop.
Running == stack # <<>> /\ shutdown \notin {"jobs", "cleanup"}
Pumps(phase) == Running /\ Top.phase = phase /\ Top.msg = NoMsg
Handles == Running /\ Top.msg # NoMsg

ReplaceTop(f) == stack' = Append(Front(stack), f)

\* Mutant of ProcessMessages: the message stays first in the queue until the next
\* one is looked for.
ProcessMessagesKeeping ==
  /\ Pumps("messages") /\ m_vecMessages # <<>>
  /\ ReplaceTop(Frame("messages", Head(m_vecMessages)))
  /\ m_vecMessages' = IF Len(m_vecMessages) > 1 THEN Tail(m_vecMessages) ELSE m_vecMessages
  /\ UNCHANGED <<m_vecWindowMessages, m_bStop, shutdown, senderVars, waitEvent, gfx, late>>

\* The loops of ProcessMessages and ProcessWindowMessages: the message leaves the
\* queue, then the lock is left for the handler.
ProcessMessages ==
  /\ Pumps("messages") /\ m_vecMessages # <<>>
  /\ ReplaceTop(Frame("messages", Head(m_vecMessages)))
  /\ m_vecMessages' = Tail(m_vecMessages)
  /\ UNCHANGED <<m_vecWindowMessages, m_bStop, shutdown, senderVars, waitEvent, gfx, late>>

\* Mutant of ProcessWindowMessages: wakes the sender first.
ProcessWindowMessagesEarly ==
  /\ Pumps("window") /\ m_vecWindowMessages # <<>>
  /\ LET m == Head(m_vecWindowMessages) IN
       /\ ReplaceTop(Frame("window", m))
       /\ waitEvent' = IF m.sync THEN [waitEvent EXCEPT ![m.from] = TRUE] ELSE waitEvent
  /\ m_vecWindowMessages' = Tail(m_vecWindowMessages)
  /\ UNCHANGED <<m_vecMessages, m_bStop, shutdown, senderVars, gfx, late>>

ProcessWindowMessages ==
  /\ Pumps("window") /\ m_vecWindowMessages # <<>>
  /\ ReplaceTop(Frame("window", Head(m_vecWindowMessages)))
  /\ m_vecWindowMessages' = Tail(m_vecWindowMessages)
  /\ UNCHANGED <<m_vecMessages, m_bStop, shutdown, senderVars, waitEvent, gfx, late>>

\* The handler returns: the event is set.  Handlers use the graphics lock.
Return ==
  /\ Handles /\ gfx = "none"
  /\ IF Top.phase = "direct" THEN stack' = Front(stack)
     ELSE ReplaceTop(Frame(Top.phase, NoMsg))
  /\ waitEvent' = IF Top.msg.sync THEN [waitEvent EXCEPT ![Top.msg.from] = TRUE]
                  ELSE waitEvent
  /\ UNCHANGED <<queues, m_bStop, shutdown, senderVars, gfx, late>>

\* SendMsg on the application's thread calls the handler itself.
SendDirect ==
  /\ Handles /\ Len(stack) < Depth
  /\ stack' = Append(stack, Frame("direct", DirectMsg))
  /\ UNCHANGED <<queues, m_bStop, shutdown, senderVars, waitEvent, gfx, late>>

\* PostMsg on the application's thread queues the message as on any other; that
\* thread alone sets m_bStop.
PostMsg(gui) ==
  /\ Running /\ ~m_bStop /\ calls[App] < Calls[App]
  /\ calls' = [calls EXCEPT ![App] = @ + 1]
  /\ Enqueue([from |-> App, call |-> calls[App] + 1, sync |-> FALSE, gui |-> gui,
              holds |-> FALSE])
  /\ UNCHANGED <<m_bStop, stack, shutdown, at, sending, waitEvent, gfx, late>>

\* A handler opens a modal dialog, which runs ProcessRenderLoop.
ProcessRenderLoop ==
  /\ Handles /\ Len(stack) < Depth
  /\ stack' = Append(stack, Frame("window", NoMsg))
  /\ UNCHANGED <<queues, m_bStop, shutdown, senderVars, waitEvent, gfx, late>>

\* CApplication::Process goes from one queue to the other.
WindowsDone ==
  /\ Pumps("window") /\ m_vecWindowMessages = <<>>
  /\ ReplaceTop(Frame("messages", NoMsg))
  /\ UNCHANGED <<queues, m_bStop, shutdown, senderVars, waitEvent, gfx, late>>

\* Process returns; the frame is drawn under the graphics lock.  The loop of Run
\* ends when the application was stopped.
ProcessDone ==
  /\ Pumps("messages") /\ m_vecMessages = <<>>
  /\ m_bStop \/ gfx = "none"
  /\ IF Len(stack) > 1 \/ m_bStop THEN stack' = Front(stack)
     ELSE ReplaceTop(Frame("window", NoMsg))
  /\ UNCHANGED <<queues, m_bStop, shutdown, senderVars, waitEvent, gfx, late>>

\* CApplication::Stop, in the handler of a message: the messenger is stopped,
\* the workers of the job manager are waited for, the queues are emptied.
Stop ==
  /\ Handles /\ Top.phase = "messages" /\ shutdown = "no"
  /\ shutdown' = "jobs" /\ m_bStop' = TRUE
  /\ UNCHANGED <<queues, stack, senderVars, waitEvent, gfx, late>>

CancelJobs ==
  /\ shutdown = "jobs" /\ \A s \in Worker : at[s] = "idle"
  /\ shutdown' = "cleanup"
  /\ UNCHANGED <<queues, m_bStop, stack, senderVars, waitEvent, gfx, late>>

InQueues == ToSet(m_vecMessages) \cup ToSet(m_vecWindowMessages)

\* Mutant of Cleanup: empties the queues without setting the events.
CleanupSilent ==
  /\ shutdown = "cleanup" /\ shutdown' = "done"
  /\ m_vecMessages' = <<>> /\ m_vecWindowMessages' = <<>>
  /\ UNCHANGED <<m_bStop, stack, senderVars, waitEvent, gfx, late>>

Cleanup ==
  /\ shutdown = "cleanup" /\ shutdown' = "done"
  /\ m_vecMessages' = <<>> /\ m_vecWindowMessages' = <<>>
  /\ waitEvent' = [s \in Sender |->
       waitEvent[s] \/ \E m \in InQueues : m.sync /\ m.from = s]
  /\ UNCHANGED <<m_bStop, stack, senderVars, gfx, late>>

\* The messenger is destroyed when nobody is in SendMsg any more: each caller
\* holds a reference.
Destroy ==
  /\ stack = <<>> /\ \A s \in Sender : at[s] = "idle"
  /\ InQueues # {}
  /\ m_vecMessages' = <<>> /\ m_vecWindowMessages' = <<>>
  /\ UNCHANGED <<m_bStop, stack, shutdown, senderVars, waitEvent, gfx, late>>

(***************************************************************************)
(* The specification                                                       *)
(***************************************************************************)
SenderStep(s) == Push(s) \/ Leave(s) \/ Answered(s)

PumpStep ==
  \/ ProcessMessages \/ ProcessWindowMessages \/ WindowsDone \/ ProcessDone
  \/ CancelJobs \/ Cleanup

Next ==
  \/ \E s \in Sender :
       \/ Refused(s)
       \/ \E sync, gui, holds \in BOOLEAN : SendMsg(s, sync, gui, holds)
       \/ SenderStep(s)
  \/ \E gui \in BOOLEAN : PostMsg(gui)
  \/ PumpStep \/ Return \/ SendDirect \/ ProcessRenderLoop \/ Stop \/ Destroy

Spec == Init /\ [][Next]_vars

\* The threads are scheduled and a handler comes to its end, also when it opens
\* dialogs; nothing is assumed of new calls.
FairSpec ==
  /\ Spec
  /\ \A s \in Sender : WF_vars(SenderStep(s))
  /\ WF_vars(PumpStep)
  /\ \A depth \in 1 .. Depth : SF_vars(Return /\ Len(stack) = depth)

(***************************************************************************)
(* Properties                                                              *)
(***************************************************************************)
Messages ==
  [from : Caller \cup {"none"}, call : Nat, sync : BOOLEAN, gui : BOOLEAN,
   holds : BOOLEAN]

TypeOK ==
  /\ m_vecMessages \in Seq(Messages) /\ m_vecWindowMessages \in Seq(Messages)
  /\ m_bStop \in BOOLEAN
  /\ stack \in Seq([phase : {"window", "messages", "direct"}, msg : Messages])
  /\ Len(stack) <= Depth
  /\ shutdown \in {"no", "jobs", "cleanup", "done"}
  /\ at \in [Sender -> {"idle", "push", "leave", "wait"}]
  /\ calls \in [Caller -> Nat] /\ \A c \in Caller : calls[c] <= Calls[c]
  /\ sending \in [Sender -> Messages]
  /\ waitEvent \in [Sender -> BOOLEAN]
  /\ gfx \in Sender \cup {"none"}
  /\ late \subseteq Sender

OnStack == {stack[i].msg : i \in DOMAIN stack}

\* PayloadAlive: as long as a synchronous message is queued or in its handler, its
\* sender is still in that call, whose stack the message points into: the handler
\* of an outer frame included, and when the queues are emptied at shutdown
\* (ApplicationMessenger.cpp:124, 217).
PayloadAlive ==
  /\ TypeOK
  /\ \A m \in InQueues \cup OnStack :
       m.sync => /\ sending[m.from] = m /\ calls[m.from] = m.call
                 /\ at[m.from] \in {"leave", "wait"} /\ ~waitEvent[m.from]

\* HandledOnce: a handler that runs the pump never meets the message it is in the
\* handler of (ApplicationMessenger.cpp:208: "else the message could be processed
\* more then once").
HandledOnce ==
  \A i, j \in DOMAIN stack :
    /\ stack[i].msg # NoMsg /\ stack[i].msg # DirectMsg /\ stack[i].msg = stack[j].msg
    => i = j

\* SendReturns: a synchronous call comes back, also when its thread holds the
\* graphics lock and when the application stops meanwhile; the exceptions are a
\* message queued after Cleanup, and a shutdown that waits for jobs
\* (ApplicationMessenger.cpp:113, 140).
SendReturns ==
  \A s \in Sender :
    at[s] = "wait" ~> at[s] # "wait" \/ s \in late \/ shutdown = "jobs"

\* SenderUnblocked: what ApplicationMessenger.h:188 says of a synchronous message,
\* "the event will be signaled, unblocking the calling thread".  A job that sends
\* one while CApplication::Stop waits for the jobs is not unblocked, and Stop does
\* not end (Application.cpp:2152).
SenderUnblocked == \A s \in Sender : at[s] = "wait" ~> at[s] # "wait"
=============================================================================
