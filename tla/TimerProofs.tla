----------------------------- MODULE TimerProofs -----------------------------
(***************************************************************************)
(* Proofs about Timer: its inductive invariant, for any threads, time-outs *)
(* and numbers of starts, as long as one thread starts and stops it.       *)
(***************************************************************************)
EXTENDS Timer, FiniteSetTheorems, TLAPS

\* Another thread may call RestartAsync alone.
OneOwner == \A c, d \in Owners : c = d

\* The owner that stops a thread stops m_thread, which nobody takes away meanwhile,
\* and which has ended when its owner is about to clear it.
StopInv ==
  \A c \in Caller :
    /\ at[c] \notin {"idle", "clock", "endtime", "event"} => c \in Owners
    /\ at[c] \in {"join", "future", "clear"} => m_thread # None /\ lthread[c] = m_thread
    /\ at[c] = "clear" => Ready(m_thread)

\* A thread that lives is m_thread, and a Stop that waited leaves none.
AliveInv ==
  /\ Alive \subseteq {m_thread}
  /\ ~misuse
  /\ stopped => Alive = {}

\* A RestartAsync counts until it returns: the callback is due no later than the time
\* it gives, which is that of m_timeout unless another call wrote that since.
CallInv ==
  \A c \in Caller :
    /\ at[c] = "clock" => wanted <= arg[c]
    /\ at[c] \in {"endtime", "event"} => wanted <= due[c] /\ due[c] <= arg[c]
    /\ c \in Restarting /\ lastCall = c => m_timeout = arg[c]

\* The moment the callback is due is never later than the one the thread will find:
\* the time-out until it reads it, what it holds of it until it waits, then the end of
\* its wait or the end of the time, whichever is later. Where it holds an old value,
\* either the new one does not count yet or the event will end the wait.
ClockOf(k) ==
  /\ wanted <= m_timeout
  /\ body[k] = "store"   => 0 <= sum + age /\ (m_eventTimeout \/ wanted <= sum + age)
  /\ body[k] = "measure" => m_eventTimeout \/ wanted <= m_endTime + age
  /\ body[k] = "armed"   => m_eventTimeout \/ wanted <= duration \/ wanted <= m_endTime
  /\ body[k] = "wait"    => m_eventTimeout \/ wanted <= wake \/ wanted <= m_endTime
  /\ body[k] = "check"   => wanted <= 0 \/ wanted <= m_endTime

ClockInv == \A k \in Alive : ClockOf(k)

IInv == TypeOK /\ StopInv /\ AliveInv /\ CallInv /\ ClockInv

\* A step of a thread that uses the timer.
Calls(c) ==
  \/ CallerStep(c) \/ StopOnly(c)
  \/ \E t \in Timeout, interval \in BOOLEAN : Start(c, t, interval)
  \/ \E t \in Timeout \cup {0} : RestartTimeout(c, t)
  \/ \E next \in {"idle", "restart"} : Stop(c, next)
-----------------------------------------------------------------------------
(* Types.                                                                  *)

\* The ends of the ranges are whole numbers, and no thread has the number None.
LEMMA Ranges ==
  /\ Starts \in Nat /\ Restarts \in Nat /\ MaxTimeout \in Nat \ {0} /\ MaxAge \in Nat \ {0}
  /\ \A k \in Run : k # None
  /\ 0 \in Moments /\ Timeout \subseteq Moments /\ 0 \in Spans /\ Moments \subseteq Spans
  /\ Timeout \subseteq Int /\ Moments \subseteq Int /\ Spans \subseteq Int
  BY TimerAssumption DEF Run, None, Moments, Timeout, Spans

\* What a tick makes of a moment: later ones stay later.
Less(x) == IF x > -MaxAge THEN x - 1 ELSE x

\* It keeps their order.
LEMMA LessProperties ==
  ASSUME NEW x \in Spans, NEW y \in Spans
  PROVE  /\ Less(x) \in Spans /\ Less(x) <= x
         /\ x <= y => Less(x) <= Less(y)
         /\ x \in Moments => Less(x) \in Moments
  BY Ranges DEF Less, Moments, Spans

\* The earlier of two moments is one of them.
LEMMA LowerProperties ==
  ASSUME NEW x \in Moments, NEW y \in Moments
  PROVE  Lower(x, y) \in Moments /\ Lower(x, y) <= x /\ Lower(x, y) <= y
  BY Ranges DEF Lower

\* A step of a thread that uses the timer keeps the types.
LEMMA TypeCaller ==
  ASSUME TypeOK, StopInv, CallInv, NEW c \in Caller, Calls(c)
  PROVE  TypeOK'
<1> USE DEF TypeOK
<1>1. CASE CreateCleansUp(c)
  BY <1>1 DEF CreateCleansUp, Go, threadVars, timeVars, waitVars, asked, CallPlaces
<1>2. CASE Create(c)
  <2>1. made + 1 \in Run /\ made' \in 0 .. Starts
    BY <1>2, Ranges DEF Create, Run
  <2>2. m_timeout \in Moments
    BY Ranges
  <2>3. wanted' \in Moments
    BY <1>2, <2>2, LowerProperties DEF Create
  <2>4. m_thread' \in Run \cup {None} /\ body' \in [Run -> Places]
    BY <1>2, <2>1 DEF Create, Places
  <2>5. at' \in [Caller -> CallPlaces]
    BY <1>2 DEF Create, Go, CallPlaces
  <2> QED
    BY <1>2, <2>1, <2>3, <2>4, <2>5 DEF Create, timeVars, waitVars
<1>3. CASE Started(c)
  BY <1>3 DEF Started, Go, threadVars, timeVars, waitVars, asked, CallPlaces
<1>4. CASE StopThread(c)
  BY <1>4 DEF StopThread, Go, timeVars, waitVars, asked, CallPlaces
<1>5. CASE JoinEnters(c)
  <2>1. at' = [at EXCEPT ![c] = "future"] /\ joined' = joined /\ misuse' = misuse
    BY <1>5 DEF JoinEnters, StopInv
  <2>2. at' \in [Caller -> CallPlaces]
    BY <2>1 DEF CallPlaces
  <2> QED
    BY <1>5, <2>1, <2>2 DEF JoinEnters, timeVars, waitVars, asked
<1>6. CASE Join(c)
  <2>1. lthread[c] \in Run
    BY <1>6 DEF Join, Go, StopInv
  <2>2. at' \in [Caller -> CallPlaces]
    BY <1>6 DEF Join, Go, CallPlaces
  <2> QED
    BY <1>6, <2>1, <2>2 DEF Join, timeVars, waitVars, asked
<1>7. CASE StopThreadEnds(c)
  <2>1. at' \in [Caller -> CallPlaces]
    BY <1>7 DEF StopThreadEnds, Go, CallPlaces
  <2> QED
    BY <1>7, <2>1 DEF StopThreadEnds, timeVars, waitVars, asked
<1>8. CASE StopSignal(c)
  BY <1>8 DEF StopSignal, Go, threadVars, waitVars, asked, CallPlaces
<1>9. CASE RestartReads(c)
  BY <1>9 DEF RestartReads, Go, threadVars, timeVars, waitVars, asked, CallPlaces
<1>10. CASE RestartStarts(c)
  <2>1. /\ at' \in [Caller -> CallPlaces] /\ m_timeout' \in Timeout \cup {0}
        /\ lastCall' \in Caller \cup {None}
    BY <1>10 DEF RestartStarts, Go, CallPlaces
  <2> QED
    BY <1>10, <2>1 DEF RestartStarts, threadVars, waitVars
<1>11. CASE RestartClock(c)
  <2>1. due' \in [Caller -> Moments]
    BY <1>11, Ranges DEF RestartClock
  <2> QED
    BY <1>11, <2>1 DEF RestartClock, Go, threadVars, timeVars, waitVars, asked, CallPlaces
<1>12. CASE RestartEndTime(c)
  <2>1. {m_endTime', wanted'} \subseteq Moments /\ pending' \in BOOLEAN
    BY <1>12 DEF RestartEndTime, Seen
  <2> QED
    BY <1>12, <2>1 DEF RestartEndTime, Go, threadVars, waitVars, CallPlaces
<1>13. CASE RestartEvent(c)
  <2>1. wanted' \in Moments /\ due' \in [Caller -> Moments]
    BY <1>13, Ranges DEF RestartEvent
  <2> QED
    BY <1>13, <2>1 DEF RestartEvent, Go, threadVars, waitVars, CallPlaces
<1>14. CASE StopOnly(c)
  BY <1>14 DEF StopOnly, waitVars, callVars, asked
<1>15. ASSUME NEW t \in Timeout, NEW interval \in BOOLEAN, Start(c, t, interval)
       PROVE  TypeOK'
  BY <1>15 DEF Start, Go, threadVars, waitVars, CallPlaces
<1>16. ASSUME NEW t \in Timeout \cup {0}, RestartTimeout(c, t)
       PROVE  TypeOK'
  <2>1. wanted' \in Moments
    BY <1>16, Ranges, LowerProperties DEF RestartTimeout
  <2>2. restarts' \in 0 .. Restarts
    BY <1>16, Ranges DEF RestartTimeout
  <2> QED
    BY <1>16, <2>1, <2>2 DEF RestartTimeout, Go, threadVars, waitVars, CallPlaces
<1>17. ASSUME NEW next \in {"idle", "restart"}, Stop(c, next)
       PROVE  TypeOK'
  BY <1>17 DEF Stop, Go, timeVars, waitVars, asked, CallPlaces
<1> QED
  BY <1>1, <1>2, <1>3, <1>4, <1>5, <1>6, <1>7, <1>8, <1>9, <1>10, <1>11, <1>12, <1>13,
     <1>14, <1>15, <1>16, <1>17 DEF Calls, CallerStep

\* So does a step of a thread of the timer.
LEMMA TypeThread ==
  ASSUME TypeOK, ClockInv, NEW k \in Run, ThreadStep(k)
  PROVE  TypeOK'
<1> USE DEF TypeOK, Thread, Places
<1>1. CASE Begin(k)
  BY <1>1 DEF Begin, timeVars, waitVars, callVars, asked
<1>2. CASE Loop(k)
  BY <1>2 DEF Loop, threadVars, timeVars, waitVars, callVars, asked
<1>3. CASE ReadTimeout(k)
  <2>1. sum' \in Moments
    BY <1>3, Ranges DEF ReadTimeout, Moments, Timeout
  <2> QED
    BY <1>3, <2>1 DEF ReadTimeout, threadVars, timeVars, callVars, asked
<1>4. CASE StoreEndTime(k)
  <2>1. sum' \in Moments /\ m_endTime' \in Moments
    BY <1>4, Ranges DEF StoreEndTime
  <2> QED
    BY <1>4, <2>1 DEF StoreEndTime, threadVars, callVars, asked
<1>5. CASE Measure(k)
  <2>1. duration' \in Spans /\ age' \in 0 .. MaxAge
    BY <1>5, Ranges DEF Measure, Moments, Spans
  <2> QED
    BY <1>5, <2>1 DEF Measure, threadVars, timeVars, callVars, asked
<1>6. CASE Wait(k)
  <2>1. {duration', wake'} \subseteq Spans
    BY <1>6, Ranges DEF Wait
  <2> QED
    BY <1>6, <2>1 DEF Wait, threadVars, timeVars, callVars, asked
<1>7. CASE WaitSignalled(k)
  <2>1. wake' \in Spans
    BY <1>7, Ranges DEF WaitSignalled
  <2> QED
    BY <1>7, <2>1 DEF WaitSignalled, threadVars, callVars, asked
<1>8. CASE WaitTimedOut(k)
  <2>1. wake' \in Spans
    BY <1>8, Ranges DEF WaitTimedOut
  <2> QED
    BY <1>8, <2>1 DEF WaitTimedOut, threadVars, timeVars, callVars, asked
<1>9. CASE Check(k)
  <2>1. m_timeout \in Moments /\ 0 \in 0 .. MaxAge
    BY Ranges
  <2>2. /\ wanted' \in Moments /\ pending' \in BOOLEAN /\ age' \in 0 .. MaxAge
        /\ body' \in [Run -> Places]
    BY <1>9, <2>1 DEF Check, Fires
  <2>3. UNCHANGED <<threadVars, timeVars, sum, duration, wake, callVars, lastCall, stopped,
                    misuse>>
    BY <1>9 DEF Check
  <2> QED
    BY <2>2, <2>3 DEF threadVars, timeVars, callVars
<1>10. CASE CallbackReturns(k)
  BY <1>10 DEF CallbackReturns, threadVars, timeVars, waitVars, callVars, asked
<1>11. CASE After(k)
  <2>1. age' \in 0 .. MaxAge
    BY <1>11, Ranges DEF After
  <2> QED
    BY <1>11, <2>1 DEF After, threadVars, timeVars, callVars, asked
<1>12. CASE ThreadEnds(k)
  BY <1>12 DEF ThreadEnds, threadVars, timeVars, waitVars, callVars, asked
<1> QED
  BY <1>1, <1>2, <1>3, <1>4, <1>5, <1>6, <1>7, <1>8, <1>9, <1>10, <1>11, <1>12
  DEF ThreadStep

\* What a tick does to each moment.
LEMMA TickMoves ==
  ASSUME TypeOK, Tick
  PROVE  /\ m_endTime' = Less(m_endTime) /\ wanted' = Less(wanted)
         /\ sum' = IF In({"store"}) THEN Less(sum) ELSE sum
         /\ wake' = IF In({"wait"}) THEN Less(wake) ELSE wake
         /\ due' = [c \in Caller |-> IF at[c] \in {"endtime", "event"} THEN Less(due[c])
                                     ELSE due[c]]
         /\ age' = IF Held THEN age + 1 ELSE age
         /\ Held => age < MaxAge
         /\ UNCHANGED <<threadVars, body, m_timeout, m_interval, m_eventTimeout, duration,
                        at, then, lthread, arg, restarts, lastCall, pending, stopped,
                        misuse>>
  BY DEF Tick, Less

\* So does a tick.
LEMMA TypeTick ==
  ASSUME TypeOK, Tick
  PROVE  TypeOK'
<1>1. {m_endTime', wanted', sum'} \subseteq Moments
  BY TickMoves, LessProperties, Ranges DEF TypeOK
<1>2. wake' \in Spans
  BY TickMoves, LessProperties DEF TypeOK
<1>3. age' \in 0 .. MaxAge
  BY TickMoves, Ranges DEF TypeOK
<1>4. due' \in [Caller -> Moments]
  <2>1. \A c \in Caller : due[c] \in Moments /\ Less(due[c]) \in Moments
    BY LessProperties, Ranges DEF TypeOK
  <2> QED
    BY <2>1, TickMoves
<1> QED
  BY <1>1, <1>2, <1>3, <1>4, TickMoves DEF TypeOK, threadVars
-----------------------------------------------------------------------------
(* The life of the thread.                                                 *)

\* A step of a thread creates none and leaves m_thread: every thread that lives did
\* so before, and one that ended stays so.
LEMMA ThreadsStay ==
  ASSUME TypeOK, NEW k \in Run, ThreadStep(k)
  PROVE  /\ \E to \in Places \ {"none", "start"} : body' = [body EXCEPT ![k] = to]
         /\ k \in Alive /\ Alive' \subseteq Alive
         /\ UNCHANGED <<m_thread, callVars, misuse, stopped>>
<1>1. /\ \E to \in Places \ {"none", "start"} : body' = [body EXCEPT ![k] = to]
      /\ body[k] \notin {"none", "ended"}
  BY DEF ThreadStep, Begin, Loop, ReadTimeout, StoreEndTime, Measure, Wait, WaitSignalled,
     WaitTimedOut, Check, CallbackReturns, After, ThreadEnds, Thread, Places
<1>2. UNCHANGED <<m_thread, callVars, misuse, stopped>>
  BY DEF ThreadStep, Begin, Loop, ReadTimeout, StoreEndTime, Measure, Wait, WaitSignalled,
     WaitTimedOut, Check, CallbackReturns, After, ThreadEnds, threadVars
<1>3. k \in Alive
  BY <1>1 DEF Alive
<1>4. \A l \in Run : l # k => body'[l] = body[l]
  BY <1>1 DEF TypeOK
<1>5. Alive' \subseteq Alive
  BY <1>3, <1>4 DEF Alive
<1> QED
  BY <1>1, <1>2, <1>3, <1>5

\* A step of a caller leaves the threads, unless it creates one.
LEMMA CallsLeaveThreads ==
  ASSUME NEW c \in Caller, Calls(c), ~Create(c)
  PROVE  body' = body
  BY DEF Calls, CallerStep, CreateCleansUp, Started, StopThread, JoinEnters, Join,
     StopThreadEnds, StopSignal, RestartReads, RestartStarts, RestartClock, RestartEndTime,
     RestartEvent, StopOnly, Start, RestartTimeout, Stop

\* It moves one caller, from one place to another.
LEMMA CallsMove ==
  ASSUME TypeOK, NEW c \in Caller, Calls(c)
  PROVE  \A d \in Caller : d # c => /\ at'[d] = at[d] /\ lthread'[d] = lthread[d]
                                    /\ arg'[d] = arg[d] /\ due'[d] = due[d]
<1>1. \/ UNCHANGED at
      \/ \E to \in CallPlaces : at' = [at EXCEPT ![c] = to]
  BY DEF Calls, CallerStep, CreateCleansUp, Create, Started, StopThread, JoinEnters, Join,
     StopThreadEnds, StopSignal, RestartReads, RestartStarts, RestartClock, RestartEndTime,
     RestartEvent, StopOnly, Start, RestartTimeout, Stop, Go, callVars, CallPlaces, TypeOK
<1>2. UNCHANGED lthread \/ \E v : lthread' = [lthread EXCEPT ![c] = v]
  BY DEF Calls, CallerStep, CreateCleansUp, Create, Started, StopThread, JoinEnters, Join,
     StopThreadEnds, StopSignal, RestartReads, RestartStarts, RestartClock, RestartEndTime,
     RestartEvent, StopOnly, Start, RestartTimeout, Stop, callVars
<1>3. UNCHANGED arg \/ \E v : arg' = [arg EXCEPT ![c] = v]
  BY DEF Calls, CallerStep, CreateCleansUp, Create, Started, StopThread, JoinEnters, Join,
     StopThreadEnds, StopSignal, RestartReads, RestartStarts, RestartClock, RestartEndTime,
     RestartEvent, StopOnly, Start, RestartTimeout, Stop, callVars
<1>4. UNCHANGED due \/ \E v : due' = [due EXCEPT ![c] = v]
  BY DEF Calls, CallerStep, CreateCleansUp, Create, Started, StopThread, JoinEnters, Join,
     StopThreadEnds, StopSignal, RestartReads, RestartStarts, RestartClock, RestartEndTime,
     RestartEvent, StopOnly, Start, RestartTimeout, Stop, callVars
<1> QED
  BY <1>1, <1>2, <1>3, <1>4 DEF TypeOK

\* Only the owner is in a step that starts or stops the timer, and when one caller
\* is, every other one is not.
LEMMA StepStopCaller ==
  ASSUME IInv, OneOwner, NEW c \in Caller, Calls(c)
  PROVE  StopInv'
<1> DEFINE Quiet == {"idle", "clock", "endtime", "event"}
           Joins == {"join", "future", "clear"}
<1>1. /\ at \in [Caller -> CallPlaces]
      /\ lthread \in [Caller -> Run \cup {None}] /\ m_thread \in Run \cup {None}
      /\ then \in [Caller -> {"idle", "restart", "create"}]
  BY DEF IInv, TypeOK
<1>2. /\ at[c] \notin Quiet => c \in Owners
      /\ at[c] \in Joins => m_thread # None /\ lthread[c] = m_thread
      /\ at[c] = "clear" => Ready(m_thread)
  BY DEF IInv, StopInv
<1>3. \A d \in Caller : d # c => at'[d] = at[d] /\ lthread'[d] = lthread[d]
  BY CallsMove DEF IInv
<1>4. CASE Create(c)
  <2>1. at[c] = "create" /\ at'[c] = "started"
    BY <1>1, <1>4 DEF Create, Go
  <2>2. c \in Owners /\ \A d \in Caller : d # c => at[d] \in Quiet
    BY <1>2, <2>1 DEF IInv, StopInv, OneOwner
  <2> QED
    BY <1>3, <2>1, <2>2 DEF StopInv
<1>5. CASE StopThreadEnds(c)
  <2>1. at[c] = "clear" /\ at'[c] \in {"idle", "restart", "create"}
    BY <1>1, <1>5 DEF StopThreadEnds, Go
  <2>2. c \in Owners /\ \A d \in Caller : d # c => at[d] \in Quiet
    BY <1>2, <2>1 DEF IInv, StopInv, OneOwner
  <2> QED
    BY <1>3, <2>1, <2>2 DEF StopInv
<1>6. ASSUME m_thread' = m_thread, ~Create(c),
             at'[c] \notin Quiet => c \in Owners,
             at'[c] \in Joins => m_thread # None /\ lthread'[c] = m_thread,
             at'[c] = "clear" => Ready(m_thread)
      PROVE  StopInv'
  <2>1. body' = body
    BY <1>6, CallsLeaveThreads
  <2> QED
    BY <1>3, <1>6, <2>1 DEF IInv, StopInv, Ready
<1>7. CASE StopThread(c)
  <2>1. /\ at[c] = "stop" /\ lthread'[c] = m_thread
        /\ at'[c] \in {"join", "idle", "restart", "create"}
        /\ at'[c] = "join" => m_thread # None
    BY <1>1, <1>7 DEF StopThread, Go
  <2>2. m_thread' = m_thread
    BY <1>7 DEF StopThread
  <2> QED
    BY <1>2, <1>4, <1>6, <2>1, <2>2
<1>8. CASE JoinEnters(c)
  <2>1. at[c] = "join" /\ at'[c] = "future" /\ lthread' = lthread
    BY <1>1, <1>2, <1>8 DEF JoinEnters
  <2>2. m_thread' = m_thread
    BY <1>8 DEF JoinEnters
  <2> QED
    BY <1>2, <1>4, <1>6, <2>1, <2>2
<1>9. CASE Join(c)
  <2>1. at[c] = "future" /\ at'[c] = "clear" /\ lthread' = lthread /\ Ready(lthread[c])
    BY <1>1, <1>9 DEF Join, Go
  <2>2. m_thread' = m_thread
    BY <1>9 DEF Join
  <2> QED
    BY <1>2, <1>4, <1>6, <2>1, <2>2
<1>10. CASE \/ CreateCleansUp(c) \/ Started(c) \/ StopSignal(c)
            \/ RestartReads(c) \/ RestartStarts(c)
  <2>1. at[c] \in {"create", "started", "signal", "restart", "again"}
        /\ at'[c] \in {"stop", "idle", "create", "again"}
    BY <1>1, <1>10 DEF CreateCleansUp, Started, StopSignal, RestartReads, RestartStarts, Go
  <2>2. m_thread' = m_thread
    BY <1>10 DEF CreateCleansUp, Started, StopSignal, RestartReads, RestartStarts, threadVars
  <2> QED
    BY <1>2, <1>4, <1>6, <2>1, <2>2
<1>11. CASE \/ RestartClock(c) \/ RestartEndTime(c) \/ RestartEvent(c)
            \/ \E t \in Timeout \cup {0} : RestartTimeout(c, t)
  <2>1. at'[c] \in Quiet
    BY <1>1, <1>11 DEF RestartClock, RestartEndTime, RestartEvent, RestartTimeout, Go
  <2>2. m_thread' = m_thread
    BY <1>11 DEF RestartClock, RestartEndTime, RestartEvent, RestartTimeout, threadVars
  <2> QED
    BY <1>4, <1>6, <2>1, <2>2
<1>12. CASE \/ StopOnly(c)
            \/ \E t \in Timeout, interval \in BOOLEAN : Start(c, t, interval)
            \/ \E next \in {"idle", "restart"} : Stop(c, next)
  <2>1. c \in Owners /\ at'[c] \in {"idle", "create", "signal"}
    BY <1>1, <1>12 DEF StopOnly, Start, Stop, Go, callVars
  <2>2. m_thread' = m_thread
    BY <1>12 DEF StopOnly, Start, Stop, threadVars
  <2> QED
    BY <1>4, <1>6, <2>1, <2>2
<1> QED
  BY <1>4, <1>5, <1>7, <1>8, <1>9, <1>10, <1>11, <1>12 DEF Calls, CallerStep

\* A step of a thread of the timer ends no life that an owner relies on.
LEMMA StepStopThread ==
  ASSUME IInv, (\E k \in Run : ThreadStep(k)) \/ Tick
  PROVE  StopInv'
<1>1. CASE Tick
  BY <1>1 DEF IInv, StopInv, Tick, threadVars, Ready
<1>2. ASSUME NEW k \in Run, ThreadStep(k) PROVE StopInv'
  <2>1. /\ k \in Alive /\ \A l \in Run : l # k => body'[l] = body[l]
        /\ UNCHANGED <<m_thread, callVars>>
    BY <1>2, ThreadsStay DEF IInv, TypeOK
  <2>2. \A l \in Run : Ready(l) => Ready(l)'
    BY <2>1 DEF Ready, Alive
  <2>3. m_thread \in Run \cup {None}
    BY DEF IInv, TypeOK
  <2> QED
    BY <2>1, <2>2, <2>3 DEF IInv, StopInv, callVars, Ready
<1> QED
  BY <1>1, <1>2

\* No thread lives when m_thread has ended or there is none.
LEMMA NotRunning ==
  ASSUME IInv, ~IsRunning
  PROVE  Alive = {}
  BY Ranges DEF IInv, AliveInv, IsRunning, Ready, Alive

\* The steps of a caller that create or clear a thread.
LEMMA StepAlive ==
  ASSUME IInv, [Next]_vars
  PROVE  AliveInv'
<1>1. TypeOK /\ Alive \subseteq {m_thread} /\ ~misuse /\ (stopped => Alive = {})
  BY DEF IInv, AliveInv
<1>2. ASSUME NEW c \in Caller, Create(c) PROVE AliveInv'
  <2>1. Alive = {}
    BY <1>2, NotRunning DEF Create, IsRunning
  <2>2. /\ body' = [body EXCEPT ![made + 1] = "start"] /\ m_thread' = made + 1
        /\ stopped' = FALSE /\ misuse' = misuse
    BY <1>2 DEF Create
  <2>3. \A k \in Run : k # made + 1 => body'[k] = body[k]
    BY <1>1, <2>2 DEF TypeOK
  <2>4. Alive' \subseteq {m_thread'}
    BY <2>1, <2>2, <2>3 DEF Alive
  <2> QED
    BY <1>1, <2>2, <2>4 DEF AliveInv
<1>3. ASSUME NEW c \in Caller, StopThreadEnds(c) PROVE AliveInv'
  <2>1. at[c] = "clear" /\ body' = body /\ misuse' = misuse
    BY <1>3 DEF StopThreadEnds, Go
  <2>2. Alive = {}
    BY <2>1, NotRunning DEF IInv, StopInv, IsRunning
  <2>3. Alive' = {}
    BY <2>1, <2>2 DEF Alive
  <2> QED
    BY <1>1, <2>1, <2>3 DEF AliveInv
<1>4. ASSUME NEW c \in Caller, JoinEnters(c) PROVE AliveInv'
  <2>1. /\ misuse' = misuse /\ body' = body /\ m_thread' = m_thread /\ stopped' = stopped
    BY <1>4 DEF JoinEnters, IInv, StopInv
  <2> QED
    BY <1>1, <2>1 DEF AliveInv, Alive
<1>5. ASSUME UNCHANGED <<m_thread, body, stopped, misuse>>
      PROVE  AliveInv'
  BY <1>1, <1>5 DEF AliveInv, Alive
<1>6. ASSUME NEW c \in Caller,
             \/ CreateCleansUp(c) \/ Started(c) \/ StopThread(c) \/ Join(c) \/ StopSignal(c)
             \/ RestartReads(c) \/ RestartStarts(c) \/ RestartClock(c) \/ RestartEndTime(c)
             \/ RestartEvent(c) \/ StopOnly(c)
      PROVE  AliveInv'
  BY <1>5, <1>6 DEF CreateCleansUp, Started, StopThread, Join, StopSignal, RestartReads,
     RestartStarts, RestartClock, RestartEndTime, RestartEvent, StopOnly, threadVars
<1>7. ASSUME NEW c \in Caller, NEW t \in Timeout \cup {0},
             \/ \E interval \in BOOLEAN : Start(c, t, interval)
             \/ RestartTimeout(c, t)
      PROVE  AliveInv'
  BY <1>5, <1>7 DEF Start, RestartTimeout, threadVars
<1>8. ASSUME NEW c \in Caller, \E next \in {"idle", "restart"} : Stop(c, next)
      PROVE  AliveInv'
  BY <1>5, <1>8 DEF Stop
<1>9. ASSUME NEW k \in Run, ThreadStep(k) PROVE AliveInv'
  <2>1. Alive' \subseteq Alive /\ m_thread' = m_thread /\ misuse' = misuse
        /\ stopped' = stopped
    BY <1>1, <1>9, ThreadsStay
  <2> QED
    BY <1>1, <2>1 DEF AliveInv
<1>10. CASE Tick \/ UNCHANGED vars
  BY <1>5, <1>10 DEF Tick, vars, threadVars
<1> QED
  BY <1>2, <1>3, <1>4, <1>6, <1>7, <1>8, <1>9, <1>10 DEF Next, CallerStep
-----------------------------------------------------------------------------
(* The times.                                                              *)

\* The moments and the time-out are whole numbers.
LEMMA Numbers ==
  ASSUME TypeOK
  PROVE  /\ m_timeout \in Moments /\ m_endTime \in Moments /\ sum \in Moments
         /\ wanted \in Moments /\ wake \in Spans /\ duration \in Spans /\ age \in Nat
         /\ \A c \in Caller : arg[c] \in Moments /\ due[c] \in Moments
         /\ \A x \in Moments : x \in Int /\ x \in Spans
         /\ \A x \in Spans : x \in Int
<1>1. 0 \in Moments /\ Timeout \subseteq Moments
  BY Ranges
<1>2. \A c \in Caller : arg[c] \in Moments /\ due[c] \in Moments
  BY <1>1 DEF TypeOK
<1>3. /\ m_timeout \in Moments /\ m_endTime \in Moments /\ sum \in Moments
      /\ wanted \in Moments /\ wake \in Spans /\ duration \in Spans
  BY <1>1 DEF TypeOK
<1>4. age \in Nat
  BY Ranges DEF TypeOK
<1> QED
  BY <1>2, <1>3, <1>4, Ranges

\* When the RestartAsync of c is the last call, nobody else is in one, and m_timeout is
\* what it gave.
LEMMA LastCall ==
  ASSUME CallInv, NEW c \in Caller, Last(c)
  PROVE  /\ m_timeout = arg[c]
         /\ \A d \in Caller : d # c => at[d] \notin {"clock", "endtime", "event"}
  BY DEF CallInv, Last, Restarting

\* A caller counts from the step that gives the time-out to the step that sets the event.
LEMMA StepCallCaller ==
  ASSUME IInv, NEW c \in Caller, Calls(c)
  PROVE  CallInv'
<1> DEFINE In3 == {"clock", "endtime", "event"}
<1>0. TypeOK /\ CallInv
  BY DEF IInv
<1>1. at \in [Caller -> CallPlaces] /\ due \in [Caller -> Moments]
      /\ arg \in [Caller -> Timeout \cup {0}] /\ None \notin Caller
  BY <1>0, TimerAssumption DEF TypeOK
<1>2. \A d \in Caller : d # c => /\ at'[d] = at[d] /\ arg'[d] = arg[d] /\ due'[d] = due[d]
  BY <1>0, CallsMove
<1>3. wanted \in Int /\ m_timeout \in Int
      /\ \A d \in Caller : arg[d] \in Int /\ due[d] \in Int
  BY <1>0, Numbers
<1>4. ASSUME at'[c] \notin In3,
             wanted' = wanted \/ Restarting = {},
             (m_timeout' = m_timeout /\ lastCall' = lastCall) \/ lastCall' = None
      PROVE  CallInv'
  <2> SUFFICES ASSUME NEW d \in Caller, d # c
               PROVE  /\ at[d] = "clock" => wanted' <= arg[d]
                      /\ at[d] \in {"endtime", "event"}
                           => wanted' <= due[d] /\ due[d] <= arg[d]
                      /\ at[d] \in In3 /\ lastCall' = d => m_timeout' = arg[d]
    BY <1>2, <1>4 DEF CallInv, Restarting
  <2>1. at[d] \in In3 => Restarting # {}
    BY DEF Restarting
  <2> QED
    BY <1>0, <1>1, <1>4, <2>1 DEF CallInv, Restarting
<1>5. CASE Create(c)
  <2>1. at'[c] = "started" /\ m_timeout' = m_timeout /\ lastCall' = lastCall
        /\ arg' = arg /\ due' = due
    BY <1>1, <1>5 DEF Create, Go, timeVars
  <2>2. CASE Restarting = {}
    BY <1>4, <2>1, <2>2
  <2>3. CASE Restarting # {}
    <3>1. wanted' <= wanted /\ wanted' \in Int
      BY <1>0, <1>5, <2>3, LowerProperties, Numbers DEF Create
    <3>2. ASSUME NEW d \in Caller, d # c
          PROVE  /\ at[d] = "clock" => wanted' <= arg[d]
                 /\ at[d] \in {"endtime", "event"} => wanted' <= due[d] /\ due[d] <= arg[d]
                 /\ at[d] \in In3 /\ lastCall = d => m_timeout = arg[d]
      BY <1>0, <1>3, <3>1 DEF CallInv, Restarting
    <3> QED
      BY <1>2, <2>1, <3>2 DEF CallInv, Restarting
  <2> QED
    BY <2>2, <2>3
<1>6. CASE \/ CreateCleansUp(c) \/ Started(c) \/ StopThread(c) \/ JoinEnters(c) \/ Join(c)
           \/ StopThreadEnds(c) \/ StopSignal(c) \/ RestartReads(c) \/ StopOnly(c)
           \/ \E next \in {"idle", "restart"} : Stop(c, next)
  <2>1. at'[c] \notin In3
    BY <1>1, <1>6 DEF CreateCleansUp, Started, StopThread, JoinEnters, Join, StopThreadEnds,
       StopSignal, RestartReads, StopOnly, Stop, Go, callVars, TypeOK, IInv
  <2>2. UNCHANGED <<m_timeout, lastCall, wanted>>
    BY <1>6 DEF CreateCleansUp, Started, StopThread, JoinEnters, Join, StopThreadEnds,
       StopSignal, RestartReads, StopOnly, Stop, timeVars, asked
  <2> QED
    BY <1>4, <2>1, <2>2
<1>7. CASE RestartStarts(c) \/ \E t \in Timeout, interval \in BOOLEAN : Start(c, t, interval)
  <2>1. at'[c] \notin In3
    BY <1>1, <1>7 DEF RestartStarts, Start, Go
  <2>2. /\ wanted' = wanted
        /\ (m_timeout' = m_timeout /\ lastCall' = lastCall) \/ lastCall' = None
    BY <1>7 DEF RestartStarts, Start
  <2> QED
    BY <1>4, <2>1, <2>2
<1>8. ASSUME NEW t \in Timeout \cup {0}, RestartTimeout(c, t) PROVE CallInv'
  <2>1. /\ at'[c] = "clock" /\ arg'[c] = t /\ m_timeout' = t /\ lastCall' = c
    BY <1>1, <1>8 DEF RestartTimeout, Go
  <2>2. wanted' <= wanted /\ wanted' <= t /\ wanted' \in Int
    <3>1. wanted \in Moments /\ t \in Moments /\ wanted' = Lower(wanted, t)
      BY <1>0, <1>8, Ranges, Numbers DEF RestartTimeout
    <3> QED
      BY <3>1, LowerProperties, Ranges
  <2>3. ASSUME NEW d \in Caller, d # c
        PROVE  /\ at[d] = "clock" => wanted' <= arg[d]
               /\ at[d] \in {"endtime", "event"} => wanted' <= due[d] /\ due[d] <= arg[d]
    BY <1>0, <1>3, <2>2 DEF CallInv
  <2> QED
    BY <1>2, <2>1, <2>2, <2>3 DEF CallInv
<1>9. CASE RestartClock(c)
  <2>1. at[c] = "clock" /\ at'[c] = "endtime" /\ due'[c] = arg[c] /\ arg' = arg
        /\ UNCHANGED <<m_timeout, lastCall, wanted>>
    BY <1>1, <1>9 DEF RestartClock, Go, timeVars, asked
  <2>2. arg[c] <= arg[c]
    BY <1>3
  <2> QED
    BY <1>0, <1>2, <2>1, <2>2 DEF CallInv, Restarting
<1>10. CASE RestartEndTime(c)
  <2>1. /\ at[c] = "endtime" /\ at'[c] = "event" /\ due' = due /\ arg' = arg
        /\ UNCHANGED <<m_timeout, lastCall>>
        /\ wanted' = wanted \/ (wanted' = due[c] /\ Last(c))
    BY <1>1, <1>10 DEF RestartEndTime, Go
  <2>2. CASE wanted' = wanted
    BY <1>0, <1>2, <2>1, <2>2 DEF CallInv, Restarting
  <2>3. CASE wanted' = due[c] /\ Last(c)
    <3>1. \A d \in Caller : d # c => at[d] \notin In3
      BY <1>0, <2>3, LastCall
    <3>2. due[c] <= due[c] /\ due[c] <= arg[c] /\ (lastCall = c => m_timeout = arg[c])
      BY <1>0, <1>3, <2>1 DEF CallInv, Restarting
    <3> QED
      BY <1>2, <2>1, <2>3, <3>1, <3>2 DEF CallInv, Restarting
  <2> QED
    BY <2>1, <2>2, <2>3
<1>11. CASE RestartEvent(c)
  <2>1. /\ at'[c] = "idle" /\ UNCHANGED <<m_timeout, lastCall>>
        /\ wanted' = wanted \/ Last(c)
    BY <1>1, <1>11 DEF RestartEvent, Go
  <2>2. CASE wanted' = wanted
    BY <1>4, <2>1, <2>2
  <2>3. CASE Last(c)
    <3>1. \A d \in Caller : d # c => at[d] \notin In3
      BY <1>0, <2>3, LastCall
    <3> QED
      BY <1>2, <2>1, <3>1 DEF CallInv, Restarting
  <2> QED
    BY <2>1, <2>2, <2>3
<1> QED
  BY <1>5, <1>6, <1>7, <1>8, <1>9, <1>10, <1>11 DEF Calls, CallerStep

\* The thread moves the moment only when nobody is in RestartAsync.
LEMMA StepCallThread ==
  ASSUME IInv, NEW k \in Run, ThreadStep(k)
  PROVE  CallInv'
<1>1. UNCHANGED <<callVars, m_timeout, lastCall>>
  BY DEF ThreadStep, Begin, Loop, ReadTimeout, StoreEndTime, Measure, Wait, WaitSignalled,
     WaitTimedOut, Check, CallbackReturns, After, ThreadEnds, timeVars, asked
<1>2. wanted' = wanted \/ Restarting = {}
  BY DEF ThreadStep, Begin, Loop, ReadTimeout, StoreEndTime, Measure, Wait, WaitSignalled,
     WaitTimedOut, Check, Fires, CallbackReturns, After, ThreadEnds, asked
<1>3. CASE wanted' = wanted
  BY <1>1, <1>3 DEF IInv, CallInv, callVars, Restarting
<1>4. CASE Restarting = {}
  <2>1. \A c \in Caller : at'[c] \notin {"clock", "endtime", "event"}
    BY <1>1, <1>4 DEF Restarting, callVars
  <2> QED
    BY <2>1 DEF CallInv, Restarting
<1> QED
  BY <1>2, <1>3, <1>4

\* Time goes on for all of them.
LEMMA StepCallTick ==
  ASSUME IInv, Tick
  PROVE  CallInv'
<1>0. TypeOK /\ CallInv
  BY DEF IInv
<1>1. /\ wanted' = Less(wanted) /\ UNCHANGED <<at, arg, lastCall, m_timeout>>
      /\ due' = [c \in Caller |-> IF at[c] \in {"endtime", "event"} THEN Less(due[c])
                                  ELSE due[c]]
  BY <1>0, TickMoves
<1>2. ASSUME NEW c \in Caller
      PROVE  /\ at[c] = "clock" => Less(wanted) <= arg[c]
             /\ at[c] \in {"endtime", "event"} => Less(wanted) <= Less(due[c])
                                                  /\ Less(due[c]) <= arg[c]
  <2>1. wanted \in Spans /\ due[c] \in Spans /\ arg[c] \in Int
    BY <1>0, Numbers
  <2>2. /\ Less(wanted) <= wanted /\ Less(due[c]) <= due[c]
        /\ Less(wanted) \in Int /\ Less(due[c]) \in Int /\ wanted \in Int /\ due[c] \in Int
        /\ wanted <= due[c] => Less(wanted) <= Less(due[c])
    BY <2>1, LessProperties, Ranges
  <2> QED
    BY <1>0, <2>1, <2>2 DEF CallInv
<1> QED
  BY <1>0, <1>1, <1>2 DEF CallInv, Restarting

\* A caller moves the moment the callback is due only together with what the thread
\* will find, or when the event is set.
LEMMA StepClockCaller ==
  ASSUME IInv, NEW c \in Caller, Calls(c)
  PROVE  ClockInv'
<1>0. TypeOK /\ CallInv /\ ClockInv
  BY DEF IInv
<1>1. /\ m_timeout \in Int /\ m_endTime \in Int /\ wake \in Int /\ wanted \in Int
      /\ duration \in Int /\ sum \in Int /\ age \in Nat
      /\ due[c] \in Int /\ arg[c] \in Int /\ {m_eventTimeout} \subseteq BOOLEAN
  BY <1>0, Numbers DEF TypeOK
<1>2. CASE Create(c)
  <2>1. Alive = {}
    BY <1>2, NotRunning DEF Create, IsRunning
  <2>2. /\ body' = [body EXCEPT ![made + 1] = "start"] /\ m_timeout' = m_timeout
    BY <1>2 DEF Create, timeVars
  <2>3. wanted' <= m_timeout
    <3>1. wanted \in Moments /\ m_timeout \in Moments
      BY <1>0, Numbers
    <3>2. wanted' = m_timeout \/ wanted' = Lower(wanted, m_timeout)
      BY <1>2 DEF Create
    <3> QED
      BY <1>1, <3>1, <3>2, LowerProperties
  <2>4. \A k \in Run : k # made + 1 => body'[k] = body[k]
    BY <1>0, <2>2 DEF TypeOK
  <2>5. \A k \in Alive' : k = made + 1 /\ body'[k] = "start"
    BY <1>0, <2>1, <2>2, <2>4 DEF Alive, TypeOK
  <2> QED
    BY <2>2, <2>3, <2>5 DEF ClockInv, ClockOf
<1>3. CASE RestartStarts(c) \/ \E t \in Timeout, interval \in BOOLEAN : Start(c, t, interval)
  <2>1. body' = body
    BY <1>3 DEF RestartStarts, Start
  <2>2. CASE IsRunning
    <3>1. UNCHANGED <<m_timeout, m_endTime, m_eventTimeout, waitVars, wanted>>
      BY <1>3, <2>2 DEF RestartStarts, Start
    <3> QED
      BY <1>0, <2>1, <3>1 DEF ClockInv, ClockOf, Alive, waitVars
  <2>3. CASE ~IsRunning
    <3>1. Alive' = {}
      BY <2>1, <2>3, NotRunning DEF Alive
    <3> QED
      BY <3>1 DEF ClockInv
  <2> QED
    BY <2>2, <2>3
<1>4. ASSUME NEW t \in Timeout \cup {0}, RestartTimeout(c, t) PROVE ClockInv'
  <2>1. wanted \in Moments /\ t \in Moments /\ wanted' = Lower(wanted, t)
    BY <1>0, <1>4, Ranges, Numbers DEF RestartTimeout
  <2>2. wanted' <= wanted /\ wanted' <= t /\ wanted' \in Int
    BY <2>1, LowerProperties, Ranges
  <2>3. /\ m_timeout' = t /\ body' = body
        /\ UNCHANGED <<m_endTime, m_eventTimeout, sum, duration, wake, age>>
    BY <1>4 DEF RestartTimeout, waitVars
  <2> SUFFICES ASSUME NEW k \in Alive
               PROVE  ClockOf(k)'
    BY <2>3 DEF ClockInv, Alive
  <2>4. ClockOf(k)
    BY <1>0 DEF ClockInv
  <2> QED
    BY <1>1, <2>2, <2>3, <2>4 DEF ClockOf
<1>5. CASE RestartEndTime(c)
  <2>1. /\ at[c] = "endtime" /\ m_endTime' = due[c] /\ body' = body
        /\ UNCHANGED <<m_timeout, m_eventTimeout, sum, duration, wake, age>>
    BY <1>5 DEF RestartEndTime, Go, waitVars
  <2>2. wanted <= due[c] /\ due[c] <= arg[c]
    BY <1>0, <2>1 DEF CallInv
  <2>3. CASE wanted' = wanted
    <3> SUFFICES ASSUME NEW k \in Alive
                 PROVE  ClockOf(k)'
      BY <2>1 DEF ClockInv, Alive
    <3>1. ClockOf(k)
      BY <1>0 DEF ClockInv
    <3> QED
      BY <1>1, <2>1, <2>2, <2>3, <3>1 DEF ClockOf
  <2>4. CASE wanted' = due[c] /\ Last(c) /\ ~In({"store"})
    <3>1. m_timeout = arg[c]
      BY <1>0, <2>4, LastCall
    <3>2. \A k \in Run : body[k] # "store"
      BY <2>4 DEF In
    <3> SUFFICES ASSUME NEW k \in Alive
                 PROVE  ClockOf(k)'
      BY <2>1 DEF ClockInv, Alive
    <3>3. body[k] # "store"
      BY <3>2 DEF Alive
    <3> QED
      BY <1>1, <2>1, <2>2, <2>4, <3>1, <3>3 DEF ClockOf
  <2>5. wanted' = wanted \/ (wanted' = due[c] /\ Last(c) /\ ~In({"store"}))
    BY <1>5 DEF RestartEndTime
  <2> QED
    BY <2>3, <2>4, <2>5
<1>6. CASE RestartEvent(c)
  <2>1. /\ at[c] = "event" /\ m_eventTimeout' = TRUE /\ body' = body
        /\ UNCHANGED <<m_timeout, m_endTime, sum, duration, wake, age>>
    BY <1>6 DEF RestartEvent, Go, waitVars
  <2>2. wanted <= due[c] /\ due[c] <= arg[c]
    BY <1>0, <2>1 DEF CallInv
  <2>3. CASE wanted' = wanted
    <3> SUFFICES ASSUME NEW k \in Alive
                 PROVE  ClockOf(k)'
      BY <2>1 DEF ClockInv, Alive
    <3>1. ClockOf(k)
      BY <1>0 DEF ClockInv
    <3> QED
      BY <2>1, <2>3, <3>1 DEF ClockOf
  <2>4. CASE wanted' = due[c] /\ Last(c) /\ ~In({"check"})
    <3>1. m_timeout = arg[c]
      BY <1>0, <2>4, LastCall
    <3> SUFFICES ASSUME NEW k \in Alive
                 PROVE  ClockOf(k)'
      BY <2>1 DEF ClockInv, Alive
    <3>2. body[k] # "check"
      BY <2>4 DEF In, Alive
    <3>3. ClockOf(k)
      BY <1>0 DEF ClockInv
    <3> QED
      BY <1>1, <2>1, <2>2, <2>4, <3>1, <3>2, <3>3 DEF ClockOf
  <2>5. wanted' = wanted \/ (wanted' = due[c] /\ Last(c) /\ ~In({"check"}))
    BY <1>6 DEF RestartEvent
  <2> QED
    BY <2>3, <2>4, <2>5
<1>7. CASE \/ CreateCleansUp(c) \/ Started(c) \/ StopThread(c) \/ JoinEnters(c) \/ Join(c)
           \/ StopThreadEnds(c) \/ RestartReads(c) \/ RestartClock(c)
           \/ StopSignal(c) \/ StopOnly(c) \/ \E next \in {"idle", "restart"} : Stop(c, next)
  <2>1. /\ UNCHANGED <<body, m_timeout, m_endTime, sum, duration, wake, age, wanted>>
        /\ m_eventTimeout' = m_eventTimeout \/ m_eventTimeout' = TRUE
    BY <1>7 DEF CreateCleansUp, Started, StopThread, JoinEnters, Join, StopThreadEnds,
       RestartReads, RestartClock, StopSignal, StopOnly, Stop, timeVars, waitVars, asked
  <2> SUFFICES ASSUME NEW k \in Alive
               PROVE  ClockOf(k)'
    BY <2>1 DEF ClockInv, Alive
  <2>2. ClockOf(k)
    BY <1>0 DEF ClockInv
  <2> QED
    BY <2>1, <2>2 DEF ClockOf
<1> QED
  BY <1>2, <1>3, <1>4, <1>5, <1>6, <1>7 DEF Calls, CallerStep

\* A thread of the timer is the only one that lives.
LEMMA OnlyThread ==
  ASSUME IInv, NEW k \in Run, ThreadStep(k)
  PROVE  k \in Alive /\ Alive' \subseteq {k}
<1>1. k \in Alive /\ Alive' \subseteq Alive
  BY ThreadsStay DEF IInv
<1>2. Alive \subseteq {m_thread}
  BY DEF IInv, AliveInv
<1> QED
  BY <1>1, <1>2

\* The thread takes the time-out it reads for its end and its wait, waits no longer,
\* and after the callback the time-out is due once more.
LEMMA StepClockThread ==
  ASSUME IInv, NEW k \in Run, ThreadStep(k)
  PROVE  ClockInv'
<1>0. TypeOK
  BY DEF IInv
<1>1. /\ m_timeout \in Int /\ m_endTime \in Int /\ wake \in Int /\ wanted \in Int
      /\ duration \in Int /\ sum \in Int /\ age \in Nat
  BY <1>0, Numbers
<1>2. ClockOf(k)
  BY OnlyThread DEF IInv, ClockInv
<1>3. SUFFICES ClockOf(k)'
  BY OnlyThread DEF ClockInv, ClockOf
<1>4. body \in [Run -> Places]
  BY <1>0 DEF TypeOK
<1>5. m_timeout >= 0
  BY <1>0, Ranges DEF TypeOK, Timeout
<1>6. CASE ReadTimeout(k)
  <2>1. /\ body'[k] = "store" /\ sum' = m_timeout - age
        /\ UNCHANGED <<m_timeout, m_endTime, m_eventTimeout, age, wanted>>
    BY <1>4, <1>6 DEF ReadTimeout, Thread, timeVars, asked
  <2> QED
    BY <1>1, <1>2, <1>5, <2>1 DEF ClockOf
<1>7. CASE StoreEndTime(k)
  <2>1. /\ body[k] = "store" /\ body'[k] = "measure" /\ m_endTime' = sum
        /\ UNCHANGED <<m_timeout, m_eventTimeout, age, wanted>>
    BY <1>4, <1>7 DEF StoreEndTime, Thread, asked
  <2> QED
    BY <1>2, <2>1 DEF ClockOf
<1>8. CASE Measure(k)
  <2>1. /\ body[k] = "measure" /\ body'[k] = "armed" /\ duration' = m_endTime + age
        /\ UNCHANGED <<m_timeout, m_endTime, m_eventTimeout, wanted>>
    BY <1>4, <1>8 DEF Measure, Thread, timeVars, asked
  <2> QED
    BY <1>2, <2>1 DEF ClockOf
<1>9. CASE Wait(k)
  <2>1. /\ body[k] = "armed" /\ body'[k] = "wait" /\ wake' = duration
        /\ UNCHANGED <<m_timeout, m_endTime, m_eventTimeout, wanted>>
    BY <1>4, <1>9 DEF Wait, Thread, timeVars, asked
  <2> QED
    BY <1>2, <2>1 DEF ClockOf
<1>10. CASE WaitTimedOut(k)
  <2>1. /\ body[k] = "wait" /\ body'[k] = "check" /\ wake <= 0 /\ ~m_eventTimeout
        /\ UNCHANGED <<m_timeout, m_endTime, wanted>>
    BY <1>4, <1>10 DEF WaitTimedOut, Thread, timeVars, asked
  <2> QED
    BY <1>1, <1>2, <2>1 DEF ClockOf
<1>11. CASE Check(k)
  <2>1. body'[k] \in {"callback", "loop"}
    BY <1>4, <1>11 DEF Check, Thread
  <2>2. m_timeout' = m_timeout
    BY <1>11 DEF Check, timeVars
  <2>3. wanted' = wanted \/ wanted' = m_timeout
    BY <1>11 DEF Check, Fires
  <2> QED
    BY <1>1, <1>2, <2>1, <2>2, <2>3 DEF ClockOf
<1>12. CASE \/ Begin(k) \/ Loop(k) \/ WaitSignalled(k) \/ CallbackReturns(k)
            \/ After(k) \/ ThreadEnds(k)
  <2>1. body'[k] \notin {"store", "measure", "armed", "wait", "check"}
    BY <1>4, <1>12 DEF Begin, Loop, WaitSignalled, CallbackReturns, After, ThreadEnds, Thread
  <2>2. wanted' = wanted /\ m_timeout' = m_timeout
    BY <1>12 DEF Begin, Loop, WaitSignalled, CallbackReturns, After, ThreadEnds, timeVars,
       asked
  <2> QED
    BY <1>2, <2>1, <2>2 DEF ClockOf
<1> QED
  BY <1>6, <1>7, <1>8, <1>9, <1>10, <1>11, <1>12 DEF ThreadStep

\* Time goes on for all of them.
LEMMA StepClockTick ==
  ASSUME IInv, Tick
  PROVE  ClockInv'
<1>0. TypeOK /\ ClockInv
  BY DEF IInv
<1>1. /\ m_endTime' = Less(m_endTime) /\ wanted' = Less(wanted)
      /\ sum' = IF In({"store"}) THEN Less(sum) ELSE sum
      /\ wake' = IF In({"wait"}) THEN Less(wake) ELSE wake
      /\ age' = IF Held THEN age + 1 ELSE age
      /\ Held => age < MaxAge
      /\ UNCHANGED <<body, m_timeout, m_eventTimeout, duration>>
  BY <1>0, TickMoves
<1>2. /\ m_timeout \in Int /\ wake \in Spans /\ wanted \in Spans /\ sum \in Spans
      /\ m_endTime \in Spans /\ duration \in Int /\ age \in Nat /\ 0 \in Spans
      /\ MaxAge \in Nat /\ \A x \in Spans : x \in Int /\ Less(x) \in Int
  BY <1>0, Numbers, Ranges, LessProperties
<1>3. /\ wanted' <= wanted /\ wanted' \in Int /\ m_endTime' \in Int
      /\ wanted <= m_endTime => wanted' <= m_endTime'
      /\ wanted <= wake => wanted' <= Less(wake)
  BY <1>1, <1>2, LessProperties
<1> SUFFICES ASSUME NEW k \in Alive
             PROVE  ClockOf(k)'
  BY <1>1 DEF ClockInv, Alive
<1>4. ClockOf(k) /\ k \in Run
  BY <1>0 DEF ClockInv, Alive
<1>5. CASE body[k] = "store"
  <2>1. Held /\ In({"store"})
    BY <1>4, <1>5 DEF Held, In
  <2>2. age' = age + 1 /\ age < MaxAge /\ sum' = Less(sum)
    BY <1>1, <2>1
  <2>3. 0 <= sum + age /\ (m_eventTimeout \/ wanted <= sum + age) /\ wanted <= m_timeout
    BY <1>4, <1>5 DEF ClockOf
  <2>4. sum' + age' = sum + age
    BY <1>2, <2>2, <2>3 DEF Less
  <2> QED
    BY <1>1, <1>2, <1>3, <1>5, <2>3, <2>4 DEF ClockOf
<1>6. CASE body[k] = "measure"
  <2>1. Held
    BY <1>4, <1>6 DEF Held, In
  <2>2. age' = age + 1
    BY <1>1, <2>1
  <2>3. (m_eventTimeout \/ wanted <= m_endTime + age) /\ wanted <= m_timeout
    BY <1>4, <1>6 DEF ClockOf
  <2>4. m_endTime' + age' >= m_endTime + age
    BY <1>1, <1>2, <2>2 DEF Less
  <2> QED
    BY <1>1, <1>2, <1>3, <1>6, <2>2, <2>3, <2>4 DEF ClockOf
<1>7. CASE body[k] = "wait"
  <2>1. In({"wait"})
    BY <1>4, <1>7 DEF In
  <2>2. wake' = Less(wake)
    BY <1>1, <2>1
  <2> QED
    BY <1>1, <1>2, <1>3, <1>4, <1>7, <2>2 DEF ClockOf
<1>8. CASE body[k] \notin {"store", "measure", "wait"}
  BY <1>1, <1>2, <1>3, <1>4, <1>8 DEF ClockOf
<1> QED
  BY <1>5, <1>6, <1>7, <1>8
-----------------------------------------------------------------------------
(* The invariants.                                                         *)

\* The invariant holds of a timer that was never started.
LEMMA IInvInit ==
  ASSUME Init
  PROVE  IInv
<1>1. TypeOK
  <2>1. /\ m_thread \in Run \cup {None} /\ made \in 0 .. Starts /\ joined \subseteq Run
        /\ restarts \in 0 .. Restarts /\ age \in 0 .. MaxAge
    BY Ranges DEF Init
  <2>2. /\ {m_endTime, sum, wanted} \subseteq Moments /\ {duration, wake} \subseteq Spans
        /\ m_timeout \in Timeout \cup {0} /\ lastCall \in Caller \cup {None}
    BY Ranges DEF Init
  <2>3. /\ at \in [Caller -> CallPlaces] /\ then \in [Caller -> {"idle", "restart", "create"}]
        /\ lthread \in [Caller -> Run \cup {None}] /\ body \in [Run -> Places]
    BY DEF Init, Places, CallPlaces
  <2>4. arg \in [Caller -> Timeout \cup {0}] /\ due \in [Caller -> Moments]
    BY Ranges DEF Init
  <2>5. {m_bStop, m_StartEvent, m_interval, m_eventTimeout, pending, stopped, misuse}
          \subseteq BOOLEAN
    BY DEF Init
  <2> QED
    BY <2>1, <2>2, <2>3, <2>4, <2>5 DEF TypeOK
<1>2. Alive = {}
  BY DEF Init, Alive
<1>3. \A c \in Caller : at[c] = "idle"
  BY DEF Init
<1>4. CallInv
  BY <1>3 DEF CallInv, Restarting
<1> QED
  BY <1>1, <1>2, <1>3, <1>4 DEF Init, IInv, StopInv, AliveInv, ClockInv

\* Every step keeps it.
LEMMA IInvStep ==
  ASSUME OneOwner, IInv, [Next]_vars
  PROVE  IInv'
<1>1. CASE UNCHANGED vars
  <2>1. TypeOK'
    BY <1>1 DEF IInv, TypeOK, vars, threadVars, timeVars, waitVars, callVars, asked
  <2>2. StopInv' /\ CallInv'
    BY <1>1 DEF IInv, StopInv, CallInv, Ready, Restarting, vars, threadVars, timeVars,
       callVars, asked
  <2>3. ClockInv'
    BY <1>1 DEF IInv, ClockInv, ClockOf, Alive, vars, timeVars, waitVars, asked
  <2> QED
    BY <2>1, <2>2, <2>3, StepAlive DEF IInv
<1>2. ASSUME NEW c \in Caller, Calls(c) PROVE IInv'
  <2>1. TypeOK'
    BY <1>2, TypeCaller DEF IInv
  <2>2. StopInv' /\ CallInv' /\ ClockInv'
    BY <1>2, StepStopCaller, StepCallCaller, StepClockCaller
  <2> QED
    BY <2>1, <2>2, StepAlive DEF IInv
<1>3. ASSUME NEW k \in Run, ThreadStep(k) PROVE IInv'
  <2>1. TypeOK'
    BY <1>3, TypeThread DEF IInv
  <2>2. StopInv' /\ CallInv' /\ ClockInv'
    BY <1>3, StepStopThread, StepCallThread, StepClockThread
  <2> QED
    BY <2>1, <2>2, StepAlive DEF IInv
<1>4. CASE Tick
  <2>1. TypeOK'
    BY <1>4, TypeTick DEF IInv
  <2>2. StopInv' /\ CallInv' /\ ClockInv'
    BY <1>4, StepStopThread, StepCallTick, StepClockTick
  <2> QED
    BY <2>1, <2>2, StepAlive DEF IInv
<1> QED
  BY <1>1, <1>2, <1>3, <1>4 DEF Next, Calls

\* The inductive invariant holds at every time.
LEMMA Invariance ==
  ASSUME OneOwner
  PROVE  Spec => []IInv
<1> QED
  BY IInvInit, IInvStep, PTL DEF Spec

\* OneThreadAtATime: when one thread starts and stops the timer, and any others start
\* it again with RestartAsync, the timer has one thread at most, which m_thread
\* names, none is joined twice, and none is left when a Stop that waits has
\* returned (Thread.cpp:206, 217).
THEOREM OneThreadAtATime ==
  ASSUME OneOwner
  PROVE  Spec => []OneThread
<1>1. IInv => OneThread
  <2>1. Cardinality({}) = 0
    BY FS_EmptySet
  <2>2. Cardinality({m_thread}) = 1
    BY FS_Singleton
  <2>3. Alive \subseteq {m_thread} => Alive = {} \/ Alive = {m_thread}
    OBVIOUS
  <2> QED
    BY <2>1, <2>2, <2>3 DEF IInv, AliveInv, OneThread
<1> QED
  BY <1>1, Invariance, PTL

\* NeverEarly: under the same condition the callback never runs before the time that
\* was asked for last is over, whatever the time-outs, however many threads call
\* RestartAsync, and wherever they and the timer's thread are held up (Timer.cpp:54,
\* 90, 93, 98).
THEOREM NeverEarly ==
  ASSUME OneOwner
  PROVE  Spec => NotEarly
<1>1. ASSUME IInv, [Next]_vars
      PROVE  [\A k \in Run : body[k] = "check" /\ body'[k] = "callback" => wanted <= 0]_vars
  <2> SUFFICES ASSUME NEW k \in Run, body[k] = "check", body'[k] = "callback", Next
               PROVE  wanted <= 0
    BY <1>1
  <2>0. TypeOK
    BY <1>1 DEF IInv
  <2>1. m_endTime \in Int /\ wanted \in Int /\ age \in Nat /\ body \in [Run -> Places]
    BY <2>0, Numbers DEF TypeOK
  <2>2. Check(k)
    <3>1. ASSUME NEW l \in Run, ThreadStep(l)
          PROVE  l = k
      BY <2>0, <2>1, <3>1, ThreadsStay
    <3>2. ASSUME NEW c \in Caller, Calls(c)
          PROVE  FALSE
      <4>1. CASE Create(c)
        BY <2>1, <4>1 DEF Create
      <4>2. CASE ~Create(c)
        BY <3>2, <4>2, CallsLeaveThreads
      <4> QED
        BY <4>1, <4>2
    <3>3. ~Tick
      BY DEF Tick
    <3>4. ThreadStep(k)
      BY <3>1, <3>2, <3>3 DEF Next, Calls
    <3> QED
      BY <2>1, <3>4 DEF ThreadStep, Begin, Loop, ReadTimeout, StoreEndTime, Measure, Wait,
         WaitSignalled, WaitTimedOut, CallbackReturns, After, ThreadEnds, Thread
  <2>3. m_endTime <= -age
    BY <2>1, <2>2 DEF Check, Thread
  <2>4. ClockOf(k)
    BY <1>1 DEF IInv, ClockInv, Alive
  <2> QED
    BY <2>1, <2>3, <2>4 DEF ClockOf
<1> QED
  BY <1>1, Invariance, PTL DEF Spec, NotEarly
=============================================================================
