------------------------------- MODULE Timer -------------------------------
(***************************************************************************)
(* CTimer on top of CThread: the life of the thread (Create, StopThread,   *)
(* Join), and the timer it runs, which is started, stopped and started     *)
(* again from other threads and from its own callback                      *)
(* (xbmc/threads/Thread.cpp, xbmc/threads/Timer.cpp).                      *)
(*                                                                         *)
(* Times are kept relative to now: a moment is the number of ticks that    *)
(* are left until then.                                                    *)
(***************************************************************************)
EXTENDS Integers, FiniteSets

CONSTANTS
  Caller,       \* the threads that use the timer
  Owners,       \* the ones of them that start and stop it
  Callback,     \* the callback, a caller that runs on the thread of the timer
  Starts,       \* bound: how often the thread is created
  Restarts,     \* bound: how often RestartAsync is called
  MaxTimeout,   \* bound: the longest time-out, in ticks
  MaxAge        \* bound: how many ticks a thread is held up after it read the clock

Run == 1 .. Starts
Timeout == 1 .. MaxTimeout
None == 0

ASSUME TimerAssumption ==
  /\ Owners \subseteq Caller /\ Callback \in Caller \ Owners /\ None \notin Caller
  /\ {Starts, Restarts} \subseteq Nat /\ {MaxTimeout, MaxAge} \subseteq Nat \ {0}

VARIABLES
  m_thread,     \* the std::thread, by the number of its Create
  made,         \* how often Create made a thread
  joined,       \* the threads that were joined
  m_bStop, m_StartEvent,
  body,         \* where each thread is
  m_timeout, m_interval, m_endTime, m_eventTimeout,
  age,          \* how long ago the thread read currentTime
  sum,          \* currentTime + m_timeout, until the thread stores it
  duration,     \* how long the thread is about to wait
  wake,         \* when its wait times out
  at, then,     \* where a caller is, and where it goes on after StopThread
  lthread,      \* the thread it stops
  arg,          \* the time-out it gives
  due,          \* now + timeout of its RestartAsync, until it stores it
  restarts,
  lastCall,     \* the RestartAsync that wrote m_timeout last (history)
  wanted,       \* the callback is not due before this moment (history)
  pending,      \* whether the last end of the time is still to fire (history)
  stopped,      \* whether a Stop that waits has returned, and no Start since (history)
  misuse        \* join of a std::thread that is not joinable (history)

threadVars == <<m_thread, made, joined, m_bStop, m_StartEvent>>
waitVars   == <<age, sum, duration, wake>>
callVars   == <<at, then, lthread, arg, due, restarts>>
timeVars   == <<m_timeout, m_interval, m_endTime, m_eventTimeout>>
asked      == <<lastCall, wanted>>
vars == <<threadVars, body, timeVars, waitVars, callVars, asked, pending, stopped, misuse>>

Init ==
  /\ m_thread = None /\ made = 0 /\ joined = {} /\ m_bStop = FALSE
  /\ m_StartEvent = TRUE /\ body = [k \in Run |-> "none"]
  /\ m_timeout = 0 /\ m_interval = FALSE /\ m_endTime = 0 /\ m_eventTimeout = FALSE
  /\ age = 0 /\ sum = 0 /\ duration = 0 /\ wake = 0
  /\ at = [c \in Caller |-> "idle"] /\ then = [c \in Caller |-> "idle"]
  /\ lthread = [c \in Caller |-> None]
  /\ arg = [c \in Caller |-> 0] /\ due = [c \in Caller |-> 0] /\ restarts = 0
  /\ lastCall = None /\ wanted = 0 /\ pending = FALSE /\ stopped = FALSE /\ misuse = FALSE

\* The promise of a thread is kept when it ends.
Ready(k) == body[k] = "ended"

IsRunning == m_thread # None /\ ~Ready(m_thread)

\* The threads at one of these places.
In(places) == \E k \in Run : body[k] \in places

\* Where the thread uses the currentTime it read.
Held == In({"arm", "store", "measure", "check", "callback", "after"})

Go(c, from, to) == at[c] = from /\ at' = [at EXCEPT ![c] = to]

(***************************************************************************)
(* What the calls ask for (history)                                        *)
(***************************************************************************)
Lower(x, y) == IF x < y THEN x ELSE y

\* The callers that are in RestartAsync.
Restarting == {c \in Caller : at[c] \in {"clock", "endtime", "event"}}

\* The RestartAsync of c is the last call: nobody wrote m_timeout since and nobody
\* else is about to write m_endTime.
Last(c) == lastCall = c /\ Restarting = {c}

\* The thread will see the end that c stores: it has not left its loop, nor is that
\* end over by the time it is compared with after the callback.
Seen(c) ==
  \E k \in Run :
    /\ body[k] \notin {"none", "leaving", "ended"} /\ ~m_bStop
    /\ body[k] \in {"callback", "after"} => m_interval \/ due[c] > -age

(***************************************************************************)
(* CThread                                                                 *)
(***************************************************************************)
\* A thread that ended by itself is cleaned up first.
CreateCleansUp(c) ==
  /\ m_thread # None /\ Ready(m_thread)
  /\ Go(c, "create", "stop") /\ then' = [then EXCEPT ![c] = "create"]
  /\ UNCHANGED <<threadVars, body, timeVars, waitVars, lthread, arg, due, restarts, asked,
                 pending, stopped, misuse>>

Create(c) ==
  /\ m_thread = None /\ made < Starts
  /\ Go(c, "create", "started")
  /\ m_bStop' = FALSE /\ m_StartEvent' = FALSE
  /\ made' = made + 1 /\ m_thread' = made + 1
  /\ body' = [body EXCEPT ![made + 1] = "start"]
  /\ wanted' = IF Restarting = {} THEN m_timeout ELSE Lower(wanted, m_timeout)
  /\ pending' = TRUE /\ stopped' = FALSE
  /\ UNCHANGED <<joined, timeVars, waitVars, then, lthread, arg, due, restarts, lastCall,
                 misuse>>

Started(c) ==
  /\ Go(c, "started", "idle") /\ m_StartEvent
  /\ UNCHANGED <<threadVars, body, timeVars, waitVars, then, lthread, arg, due, restarts,
                 asked, pending, stopped, misuse>>

\* StopThread, up to Join.
StopThread(c) ==
  /\ m_StartEvent
  /\ Go(c, "stop", IF m_thread = None THEN then[c] ELSE "join")
  /\ m_bStop' = TRUE /\ lthread' = [lthread EXCEPT ![c] = m_thread]
  /\ UNCHANGED <<m_thread, made, joined, m_StartEvent, body, timeVars, waitVars, then,
                 arg, due, restarts, asked, pending, stopped, misuse>>

\* Join without a time-out looks at m_thread and waits without the lock; when it
\* finds no thread, StopThread joins the one it read before.
JoinEnters(c) ==
  /\ at[c] = "join"
  /\ IF m_thread # None
     THEN at' = [at EXCEPT ![c] = "future"] /\ UNCHANGED <<joined, misuse>>
     ELSE /\ Ready(lthread[c]) /\ at' = [at EXCEPT ![c] = "clear"]
          /\ joined' = joined \cup {lthread[c]}
          /\ misuse' = (misuse \/ lthread[c] \in joined)
  /\ UNCHANGED <<m_thread, made, m_bStop, m_StartEvent, body, timeVars, waitVars, then,
                 lthread, arg, due, restarts, asked, pending, stopped>>

\* Mutant of Join: does not wait for the thread.
JoinAtOnce(c) ==
  /\ Go(c, "future", "clear")
  /\ joined' = joined \cup {lthread[c]}
  /\ UNCHANGED <<m_thread, made, m_bStop, m_StartEvent, body, timeVars, waitVars, then,
                 lthread, arg, due, restarts, asked, pending, stopped, misuse>>

\* "it's possible it's already joined since we released the lock".
Join(c) ==
  /\ Go(c, "future", "clear") /\ Ready(lthread[c])
  /\ joined' = joined \cup {lthread[c]}
  /\ UNCHANGED <<m_thread, made, m_bStop, m_StartEvent, body, timeVars, waitVars, then,
                 lthread, arg, due, restarts, asked, pending, stopped, misuse>>

StopThreadEnds(c) ==
  /\ Go(c, "clear", then[c]) /\ m_thread' = None
  /\ then' = [then EXCEPT ![c] = "idle"] /\ lthread' = [lthread EXCEPT ![c] = None]
  /\ stopped' = (then[c] # "create")
  /\ UNCHANGED <<made, joined, m_bStop, m_StartEvent, body, timeVars, waitVars, arg, due,
                 restarts, asked, pending, misuse>>

(***************************************************************************)
(* CTimer, started and stopped                                             *)
(***************************************************************************)
Start(c, t, interval) ==
  /\ c \in Owners /\ ~IsRunning /\ made < Starts
  /\ Go(c, "idle", "create")
  /\ m_timeout' = t /\ m_interval' = interval /\ lastCall' = None
  /\ UNCHANGED <<threadVars, body, m_endTime, m_eventTimeout, waitVars, then, lthread, arg,
                 due, restarts, wanted, pending, stopped, misuse>>

\* Stop, and the Stop of Restart, when the timer runs.
Stop(c, next) ==
  /\ c \in Owners /\ IsRunning
  /\ Go(c, "idle", "signal") /\ then' = [then EXCEPT ![c] = next]
  /\ m_bStop' = TRUE /\ pending' = FALSE
  /\ UNCHANGED <<m_thread, made, joined, m_StartEvent, body, timeVars, waitVars, lthread,
                 arg, due, restarts, asked, stopped, misuse>>

StopSignal(c) ==
  /\ Go(c, "signal", "stop") /\ m_eventTimeout' = TRUE
  /\ UNCHANGED <<threadVars, body, m_timeout, m_interval, m_endTime, waitVars, then,
                 lthread, arg, due, restarts, asked, pending, stopped, misuse>>

\* Stop without waiting only sets the flags of StopThread.
StopOnly(c) ==
  /\ c \in Owners /\ IsRunning /\ at[c] = "idle" /\ m_StartEvent
  /\ m_bStop' = TRUE /\ m_eventTimeout' = TRUE /\ pending' = FALSE
  /\ UNCHANGED <<m_thread, made, joined, m_StartEvent, body, m_timeout, m_interval,
                 m_endTime, waitVars, callVars, asked, stopped, misuse>>

\* Restart starts the timer again with the time-out it reads here, which Start
\* writes back, unless it is 0.
RestartReads(c) ==
  /\ Go(c, "restart", "again") /\ arg' = [arg EXCEPT ![c] = m_timeout]
  /\ UNCHANGED <<threadVars, body, timeVars, waitVars, then, lthread, due, restarts, asked,
                 pending, stopped, misuse>>

RestartStarts(c) ==
  /\ arg' = [arg EXCEPT ![c] = 0]
  /\ IF arg[c] = 0 \/ IsRunning \/ made = Starts
     THEN Go(c, "again", "idle") /\ UNCHANGED <<m_timeout, lastCall>>
     ELSE Go(c, "again", "create") /\ m_timeout' = arg[c] /\ lastCall' = None
  /\ UNCHANGED <<threadVars, body, m_interval, m_endTime, m_eventTimeout, waitVars, then,
                 lthread, due, restarts, wanted, pending, stopped, misuse>>

(***************************************************************************)
(* RestartAsync, three assignments without a lock, from other threads and  *)
(* from the callback; it takes a time-out of 0, which Start refuses.       *)
(***************************************************************************)
RestartTimeout(c, t) ==
  /\ c = Callback => \E k \in Run : body[k] = "callback"
  /\ restarts < Restarts /\ restarts' = restarts + 1
  /\ Go(c, "idle", "clock") /\ m_timeout' = t /\ arg' = [arg EXCEPT ![c] = t]
  /\ lastCall' = c /\ wanted' = Lower(wanted, t)
  /\ UNCHANGED <<threadVars, body, m_interval, m_endTime, m_eventTimeout, waitVars, then,
                 lthread, due, pending, stopped, misuse>>

RestartClock(c) ==
  /\ Go(c, "clock", "endtime") /\ due' = [due EXCEPT ![c] = arg[c]]
  /\ UNCHANGED <<threadVars, body, timeVars, waitVars, then, lthread, arg, restarts, asked,
                 pending, stopped, misuse>>

RestartEndTime(c) ==
  /\ Go(c, "endtime", "event") /\ m_endTime' = due[c]
  /\ wanted' = IF Last(c) /\ ~In({"store"}) THEN due[c] ELSE wanted
  /\ pending' = Seen(c)
  /\ UNCHANGED <<threadVars, body, m_timeout, m_interval, m_eventTimeout, waitVars, then,
                 lthread, arg, due, restarts, lastCall, stopped, misuse>>

RestartEvent(c) ==
  /\ Go(c, "event", "idle") /\ m_eventTimeout' = TRUE
  /\ wanted' = IF Last(c) /\ ~In({"check"}) THEN due[c] ELSE wanted
  /\ arg' = [arg EXCEPT ![c] = 0] /\ due' = [due EXCEPT ![c] = 0]
  /\ UNCHANGED <<threadVars, body, m_timeout, m_interval, m_endTime, waitVars, then,
                 lthread, restarts, lastCall, pending, stopped, misuse>>

(***************************************************************************)
(* The thread of the timer                                                 *)
(***************************************************************************)
Thread(k, from, to) == body[k] = from /\ body' = [body EXCEPT ![k] = to]

Begin(k) ==
  /\ Thread(k, "start", "loop") /\ m_StartEvent' = TRUE
  /\ UNCHANGED <<m_thread, made, joined, m_bStop, timeVars, waitVars, callVars, asked,
                 pending, stopped, misuse>>

Loop(k) ==
  /\ Thread(k, "loop", IF m_bStop THEN "leaving" ELSE "arm")
  /\ UNCHANGED <<threadVars, timeVars, waitVars, callVars, asked, pending, stopped, misuse>>

\* m_endTime = currentTime + m_timeout, a read and a write.
ReadTimeout(k) ==
  /\ Thread(k, "arm", "store") /\ sum' = m_timeout - age
  /\ UNCHANGED <<threadVars, timeVars, age, duration, wake, callVars, asked, pending,
                 stopped, misuse>>

StoreEndTime(k) ==
  /\ Thread(k, "store", "measure") /\ m_endTime' = sum /\ sum' = 0
  /\ UNCHANGED <<threadVars, m_timeout, m_interval, m_eventTimeout, age, duration, wake,
                 callVars, asked, pending, stopped, misuse>>

\* m_endTime is read again; a build that keeps it in a register is as one that reads
\* it at once.
Measure(k) ==
  /\ Thread(k, "measure", "armed") /\ duration' = m_endTime + age /\ age' = 0
  /\ UNCHANGED <<threadVars, timeVars, sum, wake, callVars, asked, pending, stopped,
                 misuse>>

Wait(k) ==
  /\ Thread(k, "armed", "wait") /\ wake' = duration /\ duration' = 0
  /\ UNCHANGED <<threadVars, timeVars, age, sum, callVars, asked, pending, stopped, misuse>>

WaitSignalled(k) ==
  /\ Thread(k, "wait", "loop") /\ m_eventTimeout
  /\ m_eventTimeout' = FALSE /\ wake' = 0
  /\ UNCHANGED <<threadVars, m_timeout, m_interval, m_endTime, age, sum, duration,
                 callVars, asked, pending, stopped, misuse>>

WaitTimedOut(k) ==
  /\ Thread(k, "wait", "check") /\ ~m_eventTimeout /\ wake <= 0
  /\ wake' = 0
  /\ UNCHANGED <<threadVars, timeVars, age, sum, duration, callVars, asked, pending, stopped,
                 misuse>>

\* What the callback, once it runs, does to the history: the next one is not due
\* before the time-out has passed again.
Fires ==
  /\ pending' = FALSE
  /\ wanted' = IF Restarting = {} THEN m_timeout ELSE wanted

\* Mutant of Check: takes the end of the wait for the end of the time.
CheckNot(k) ==
  /\ Thread(k, "check", "callback") /\ Fires
  /\ UNCHANGED <<threadVars, timeVars, waitVars, callVars, lastCall, stopped, misuse>>

Check(k) ==
  /\ IF m_endTime <= -age
     THEN Thread(k, "check", "callback") /\ Fires /\ UNCHANGED age
     ELSE Thread(k, "check", "loop") /\ age' = 0 /\ UNCHANGED <<wanted, pending>>
  /\ UNCHANGED <<threadVars, timeVars, sum, duration, wake, callVars, lastCall, stopped,
                 misuse>>

CallbackReturns(k) ==
  /\ Thread(k, "callback", "after") /\ at[Callback] = "idle"
  /\ UNCHANGED <<threadVars, timeVars, waitVars, callVars, asked, pending, stopped, misuse>>

\* Mutant of After: does not see that the timer was started again.
AfterForgets(k) ==
  /\ Thread(k, "after", IF ~m_interval THEN "leaving" ELSE "loop")
  /\ age' = 0
  /\ UNCHANGED <<threadVars, timeVars, sum, duration, wake, callVars, asked, pending,
                 stopped, misuse>>

\* m_endTime is compared with the time that was read before the callback.
After(k) ==
  /\ Thread(k, "after", IF ~m_interval /\ m_endTime <= -age THEN "leaving" ELSE "loop")
  /\ age' = 0
  /\ UNCHANGED <<threadVars, timeVars, sum, duration, wake, callVars, asked, pending,
                 stopped, misuse>>

ThreadEnds(k) ==
  /\ Thread(k, "leaving", "ended")
  /\ UNCHANGED <<threadVars, timeVars, waitVars, callVars, asked, pending, stopped, misuse>>

\* A tick; the times that are over are not told apart for longer than MaxAge.
Tick ==
  /\ Held => age < MaxAge
  /\ LET less(x) == IF x > -MaxAge THEN x - 1 ELSE x IN
       /\ m_endTime' = less(m_endTime) /\ wanted' = less(wanted)
       /\ sum' = IF In({"store"}) THEN less(sum) ELSE sum
       /\ wake' = IF In({"wait"}) THEN less(wake) ELSE wake
       /\ due' = [c \in Caller |-> IF at[c] \in {"endtime", "event"} THEN less(due[c])
                                   ELSE due[c]]
  /\ age' = IF Held THEN age + 1 ELSE age
  /\ UNCHANGED <<threadVars, body, m_timeout, m_interval, m_eventTimeout, duration, at,
                 then, lthread, arg, restarts, lastCall, pending, stopped, misuse>>

(***************************************************************************)
(* The specification                                                       *)
(***************************************************************************)
CallerStep(c) ==
  \/ CreateCleansUp(c) \/ Create(c) \/ Started(c)
  \/ StopThread(c) \/ JoinEnters(c) \/ Join(c) \/ StopThreadEnds(c)
  \/ StopSignal(c) \/ RestartReads(c) \/ RestartStarts(c)
  \/ RestartClock(c) \/ RestartEndTime(c) \/ RestartEvent(c)

ThreadStep(k) ==
  \/ Begin(k) \/ Loop(k) \/ ReadTimeout(k) \/ StoreEndTime(k) \/ Measure(k) \/ Wait(k)
  \/ WaitSignalled(k) \/ WaitTimedOut(k) \/ Check(k)
  \/ CallbackReturns(k) \/ After(k) \/ ThreadEnds(k)

Next ==
  \/ \E c \in Caller :
       \/ CallerStep(c) \/ StopOnly(c)
       \/ \E t \in Timeout, interval \in BOOLEAN : Start(c, t, interval)
       \/ \E t \in Timeout \cup {0} : RestartTimeout(c, t)
       \/ \E next \in {"idle", "restart"} : Stop(c, next)
  \/ \E k \in Run : ThreadStep(k)
  \/ Tick

Spec == Init /\ [][Next]_vars

\* The threads are scheduled, a callback returns, and time goes on.
FairSpec ==
  /\ Spec /\ WF_vars(Tick)
  /\ \A c \in Caller : WF_vars(CallerStep(c))
  /\ \A k \in Run : WF_vars(ThreadStep(k))

(***************************************************************************)
(* Properties                                                              *)
(***************************************************************************)
Moments == -MaxAge .. MaxTimeout
Spans   == -MaxAge .. (MaxTimeout + MaxAge)

Places     == {"none", "start", "loop", "arm", "store", "measure", "armed", "wait", "check",
               "callback", "after", "leaving", "ended"}
CallPlaces == {"idle", "create", "started", "stop", "join", "future", "clear", "signal",
               "restart", "again", "clock", "endtime", "event"}

TypeOK ==
  /\ m_thread \in Run \cup {None} /\ made \in 0 .. Starts /\ joined \subseteq Run
  /\ body \in [Run -> Places]
  /\ m_timeout \in Timeout \cup {0} /\ {m_endTime, sum, wanted} \subseteq Moments
  /\ age \in 0 .. MaxAge /\ {duration, wake} \subseteq Spans
  /\ {m_bStop, m_StartEvent, m_interval, m_eventTimeout, pending, stopped, misuse}
       \subseteq BOOLEAN
  /\ at \in [Caller -> CallPlaces]
  /\ then \in [Caller -> {"idle", "restart", "create"}]
  /\ lthread \in [Caller -> Run \cup {None}]
  /\ arg \in [Caller -> Timeout \cup {0}] /\ due \in [Caller -> Moments]
  /\ restarts \in 0 .. Restarts /\ lastCall \in Caller \cup {None}

Alive == {k \in Run : body[k] \notin {"none", "ended"}}

\* OneThread: the timer has one thread at most, that thread can be stopped, and
\* no thread is joined twice, as long as one thread at a time starts and stops
\* the timer; once a Stop that waits has returned no callback runs or will run
\* (Thread.cpp:206, 217).
OneThread ==
  /\ TypeOK
  /\ Cardinality(Alive) <= 1 /\ Alive \subseteq {m_thread}
  /\ ~misuse
  /\ stopped => Alive = {}

\* NotEarly: the callback runs only when the time that was asked for last is over:
\* that of Start, of the RestartAsync that was the last call and has stored its end,
\* or, after a callback, the time-out once more. While calls overlap, or a
\* RestartAsync came between the read and the write of Process's own end and has not
\* set the event, the soonest of their times counts. So it is although an end may be
\* overwritten by an older one and a wait be as long as an older time-out
\* (Timer.cpp:54, 90, 93, 98).
NotEarly ==
  [][\A k \in Run : body[k] = "check" /\ body'[k] = "callback" => wanted <= 0]_vars

\* TimerFires: a timer that was started, or started again before its thread had
\* left its loop, fires unless it is stopped, or unless another RestartAsync stores
\* an end during the callback that is over already (Timer.cpp:55, 90, 104).
TimerFires == pending ~> ~pending
=============================================================================
