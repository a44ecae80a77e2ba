----------------------------- MODULE JobManager -----------------------------
(***************************************************************************)
(* CJobManager and CJobWorker (xbmc/utils/JobManager.{h,cpp}): jobs wait   *)
(* in one deque per priority, a pool of self-deleting worker threads takes *)
(* them, and CancelJobs drains everything at shutdown.                     *)
(*                                                                         *)
(* Every critical section under m_section is one action, except that of    *)
(* CancelJobs, which calls out to the jobs' callbacks while it holds       *)
(* m_section: its owner is the variable m_section.  A CJob object, its     *)
(* work item and its unique id are one model value, since AddJob takes     *)
(* ownership of an object no other call may add again.                     *)
(***************************************************************************)
EXTENDS Naturals, FiniteSets, Sequences

CONSTANTS
  Job,           \* the CJob objects clients ever pass to AddJob
  Worker,        \* the thread slots CJobWorker objects live in
  PriorityOf,    \* the priority AddJob is called with, per job
  Listened,      \* the jobs added with a callback that is not null
  max_workers    \* the constant of GetMaxWorkers (5 in the code)

LOW_PAUSABLE == 0
HIGH         == 3
DEDICATED    == 4
Priority     == LOW_PAUSABLE..DEDICATED

ASSUME ConstantsAssumption ==
  /\ IsFiniteSet(Job) /\ IsFiniteSet(Worker)
  /\ PriorityOf \in [Job -> Priority]
  /\ Listened \subseteq Job
  /\ max_workers \in Nat /\ HIGH < max_workers /\ max_workers <= 10000

GetMaxWorkers(p) ==
  IF p = DEDICATED THEN 10000 ELSE max_workers - (HIGH - p)

Canceller == "CancelJobs"     \* the thread that calls CancelJobs and Restart
Nobody    == "Nobody"

VARIABLES
  m_section,     \* the owner of the section while callbacks run under it
  m_running,
  m_pauseJobs,
  m_jobQueue,    \* per priority, the deque of work items
  m_processing,  \* the work items a worker has popped
  m_callback,    \* the jobs whose work item still has its callback
  m_workers,     \* the registered CJobWorker objects
  m_jobEvent,    \* the auto-reset event: signalled or not
  pc,            \* per worker slot, where its thread is
  job,           \* per worker slot, the job its thread holds, as a set
  cancelling,    \* where CancelJobs is
  fresh,         \* the jobs no AddJob has seen yet
  freed,         \* the CJob objects that were deleted
  notified       \* per job, which callbacks were made (history)

vars == <<m_section, m_running, m_pauseJobs, m_jobQueue, m_processing,
          m_callback, m_workers, m_jobEvent, pc, job, cancelling, fresh,
          freed, notified>>

(***************************************************************************)
(* Locations of a worker thread.  "get": calling GetNextJob, or woken in   *)
(* it by the event.  "towait": between lock.unlock() and m_jobEvent.Wait.  *)
(* "last": the wait timed out, one more PopJob follows.  "complete" to     *)
(* "free": the steps of OnJobComplete.  "exit": GetNextJob returned NULL,  *)
(* the thread object is still registered until its destructor runs.        *)
(***************************************************************************)
Busy     == {"work", "progress", "complete", "callback", "erase", "free"}
Location == {"none", "get", "towait", "wait", "last", "exit"} \union Busy
Callback == {"complete", "abort"}

Available(t) == m_section \in {Nobody, t}

\* About the deques q: job j waits in one of them, and no job waits twice.
Waits(q, j)  == \E p \in Priority : \E i \in DOMAIN q[p] : q[p][i] = j
NoneTwice(q) == \A p1, p2 \in Priority :
                  \A i \in DOMAIN q[p1], k \in DOMAIN q[p2] :
                    q[p1][i] = q[p2][k] => p1 = p2 /\ i = k
Queued(j)    == Waits(m_jobQueue, j)

\* The deques after push_back, and after erase of slot i of deque p.
EraseAt(s, i) == [k \in 1..(Len(s) - 1) |-> IF k < i THEN s[k] ELSE s[k + 1]]
Pushed(q, p, j) == [q EXCEPT ![p] = Append(@, j)]
Erased(q, p, i) == [q EXCEPT ![p] = EraseAt(@, i)]

Goto(w, l) == pc' = [pc EXCEPT ![w] = l]

Init ==
  /\ m_section = Nobody
  /\ m_running = TRUE /\ m_pauseJobs = FALSE
  /\ m_jobQueue = [p \in Priority |-> <<>>]
  /\ m_processing = {} /\ m_callback = {}
  /\ m_workers = {} /\ m_jobEvent = FALSE
  /\ pc = [w \in Worker |-> "none"]
  /\ job = [w \in Worker |-> {}]
  /\ cancelling = "no"
  /\ fresh = Job /\ freed = {}
  /\ notified = [j \in Job |-> {}]

-----------------------------------------------------------------------------
(* Clients.                                                                *)

\* Mutant of StartWorkers: the limit of the priority is not looked at.
StartWorkersUnlimited(p) ==
  IF Cardinality(m_processing) < Cardinality(m_workers)
  THEN m_jobEvent' = TRUE /\ UNCHANGED <<m_workers, pc>>
  ELSE /\ \E w \in Worker \ m_workers :
            m_workers' = m_workers \union {w} /\ Goto(w, "get")
       /\ UNCHANGED m_jobEvent

StartWorkers(p) ==
  \/ /\ Cardinality(m_processing) >= GetMaxWorkers(p)
     /\ UNCHANGED <<m_workers, m_jobEvent, pc>>
  \/ /\ Cardinality(m_processing) < GetMaxWorkers(p)
     /\ Cardinality(m_processing) < Cardinality(m_workers)
     /\ m_jobEvent' = TRUE
     /\ UNCHANGED <<m_workers, pc>>
  \/ /\ Cardinality(m_processing) < GetMaxWorkers(p)
     /\ Cardinality(m_processing) >= Cardinality(m_workers)
     /\ \E w \in Worker \ m_workers :
          /\ m_workers' = m_workers \union {w}
          /\ Goto(w, "get")
     /\ UNCHANGED m_jobEvent

\* Mutant of AddJob: m_running is not looked at.
AddJobWhenStopped(t, j) ==
  /\ Available(t)
  /\ j \in fresh
  /\ fresh' = fresh \ {j}
  /\ m_jobQueue' = Pushed(m_jobQueue, PriorityOf[j], j)
  /\ m_callback' = m_callback \union ({j} \intersect Listened)
  /\ StartWorkers(PriorityOf[j])
  /\ UNCHANGED <<m_section, m_running, m_pauseJobs, m_processing, job,
                 cancelling, freed, notified>>

AddJob(t, j) ==
  /\ Available(t)
  /\ j \in fresh
  /\ fresh' = fresh \ {j}
  /\ IF m_running
     THEN /\ m_jobQueue' = Pushed(m_jobQueue, PriorityOf[j], j)
          /\ m_callback' = m_callback \union ({j} \intersect Listened)
          /\ StartWorkers(PriorityOf[j])
          /\ UNCHANGED freed
     ELSE /\ freed' = freed \union {j}
          /\ UNCHANGED <<m_jobQueue, m_callback, m_workers, m_jobEvent, pc>>
  /\ UNCHANGED <<m_section, m_running, m_pauseJobs, m_processing, job,
                 cancelling, notified>>

\* Mutants of CancelQueued: the item stays in its deque; the job is not deleted.
CancelQueuedKept(j) ==
  /\ Queued(j)
  /\ freed' = freed \union {j}
  /\ m_callback' = m_callback \ {j}
  /\ UNCHANGED m_jobQueue

CancelQueuedLeaked(j) ==
  \E p \in Priority : \E i \in DOMAIN m_jobQueue[p] :
    /\ m_jobQueue[p][i] = j
    /\ m_jobQueue' = Erased(m_jobQueue, p, i)
    /\ m_callback' = m_callback \ {j}
    /\ UNCHANGED freed

CancelQueued(j) ==
  \E p \in Priority : \E i \in DOMAIN m_jobQueue[p] :
    /\ m_jobQueue[p][i] = j
    /\ m_jobQueue' = Erased(m_jobQueue, p, i)
    /\ freed' = freed \union {j}
    /\ m_callback' = m_callback \ {j}

CancelProcessing(j) ==
  /\ ~Queued(j)
  /\ j \in m_processing
  /\ m_callback' = m_callback \ {j}
  /\ UNCHANGED <<m_jobQueue, freed>>

\* The id of a job that is neither queued nor processing finds nothing.
CancelJob(t, j) ==
  /\ Available(t)
  /\ j \notin fresh
  /\ \/ CancelQueued(j)
     \/ CancelProcessing(j)
     \/ /\ ~Queued(j) /\ j \notin m_processing
        /\ UNCHANGED <<m_jobQueue, freed, m_callback>>
  /\ UNCHANGED <<m_section, m_running, m_pauseJobs, m_processing, m_workers,
                 m_jobEvent, pc, job, cancelling, fresh, notified>>

SetPause(b) ==
  /\ m_section = Nobody
  /\ m_pauseJobs' = b
  /\ UNCHANGED <<m_section, m_running, m_jobQueue, m_processing, m_callback,
                 m_workers, m_jobEvent, pc, job, cancelling, fresh, freed,
                 notified>>

PauseJobs   == ~m_pauseJobs /\ SetPause(TRUE)
UnPauseJobs == m_pauseJobs /\ SetPause(FALSE)

\* Restart throws unless the manager was cancelled before.
Restart ==
  /\ m_section = Nobody
  /\ cancelling = "no"
  /\ ~m_running
  /\ m_running' = TRUE
  /\ UNCHANGED <<m_section, m_pauseJobs, m_jobQueue, m_processing, m_callback,
                 m_workers, m_jobEvent, pc, job, cancelling, fresh, freed,
                 notified>>

-----------------------------------------------------------------------------
(* CancelJobs: abort what is queued, then what is processing, under        *)
(* m_section; then wake the workers until the last one is gone.            *)

\* Mutant of CancelJobsBegin: m_running stays set.
CancelJobsRunning ==
  /\ cancelling = "no"
  /\ m_section = Nobody
  /\ m_section' = Canceller
  /\ cancelling' = "queued"
  /\ UNCHANGED <<m_running, m_pauseJobs, m_jobQueue, m_processing, m_callback,
                 m_workers, m_jobEvent, pc, job, fresh, freed, notified>>

CancelJobsBegin ==
  /\ cancelling = "no"
  /\ m_section = Nobody
  /\ m_section' = Canceller
  /\ m_running' = FALSE
  /\ cancelling' = "queued"
  /\ UNCHANGED <<m_pauseJobs, m_jobQueue, m_processing, m_callback, m_workers,
                 m_jobEvent, pc, job, fresh, freed, notified>>

NotifyAbort(j) ==
  notified' = [notified EXCEPT
                 ![j] = @ \union ({"abort"} \intersect
                                  {c \in Callback : j \in m_callback})]

NextQueued(p, j) ==
  /\ m_jobQueue[p] # <<>> /\ j = Head(m_jobQueue[p])
  /\ \A q \in Priority : q < p => m_jobQueue[q] = <<>>

\* What the loop does with the work item at the head of the deques: OnJobAbort
\* is the caller's business, FreeJob and the final clear() are done here.
AbortQueued(j) ==
  /\ cancelling = "queued"
  /\ \E p \in Priority :
       /\ NextQueued(p, j)
       /\ m_jobQueue' = [m_jobQueue EXCEPT ![p] = Tail(@)]
  /\ freed' = freed \union {j}
  /\ m_callback' = m_callback \ {j}
  /\ NotifyAbort(j)

CancelQueuedDone ==
  /\ cancelling = "queued"
  /\ \A p \in Priority : m_jobQueue[p] = <<>>
  /\ cancelling' = "processing"
  /\ UNCHANGED <<m_section, m_running, m_pauseJobs, m_jobQueue, m_processing,
                 m_callback, m_workers, m_jobEvent, pc, job, fresh, freed,
                 notified>>

AbortProcessing(j) ==
  /\ cancelling = "processing"
  /\ j \in m_processing /\ j \in m_callback
  /\ m_callback' = m_callback \ {j}
  /\ NotifyAbort(j)

CancelProcessingDone ==
  /\ cancelling = "processing"
  /\ m_processing \intersect m_callback = {}
  /\ cancelling' = "drain"
  /\ m_section' = Nobody
  /\ UNCHANGED <<m_running, m_pauseJobs, m_jobQueue, m_processing, m_callback,
                 m_workers, m_jobEvent, pc, job, fresh, freed, notified>>

\* Mutant of Drain: the event is set once and no worker waited for.
DrainOnce ==
  /\ cancelling = "drain"
  /\ m_section = Nobody
  /\ m_jobEvent' = TRUE /\ cancelling' = "no"
  /\ UNCHANGED <<m_section, m_running, m_pauseJobs, m_jobQueue, m_processing,
                 m_callback, m_workers, pc, job, fresh, freed, notified>>

Drain ==
  /\ cancelling = "drain"
  /\ m_section = Nobody
  /\ IF m_workers = {}
     THEN cancelling' = "no" /\ UNCHANGED m_jobEvent
     ELSE m_jobEvent' = TRUE /\ UNCHANGED cancelling
  /\ UNCHANGED <<m_section, m_running, m_pauseJobs, m_jobQueue, m_processing,
                 m_callback, m_workers, pc, job, fresh, freed, notified>>

OnJobAbort(j) ==
  /\ \/ AbortQueued(j)
     \/ AbortProcessing(j) /\ UNCHANGED <<m_jobQueue, freed>>
  /\ UNCHANGED <<m_section, m_running, m_pauseJobs, m_processing, m_workers,
                 m_jobEvent, pc, job, cancelling, fresh>>

-----------------------------------------------------------------------------
(* Workers.                                                                *)

\* Mutant of Eligible: one slot too many.
EligibleOffByOne(p) ==
  /\ ~(p = LOW_PAUSABLE /\ m_pauseJobs)
  /\ m_jobQueue[p] # <<>>
  /\ Cardinality(m_processing) <= GetMaxWorkers(p)

Eligible(p) ==
  /\ ~(p = LOW_PAUSABLE /\ m_pauseJobs)
  /\ m_jobQueue[p] # <<>>
  /\ Cardinality(m_processing) < GetMaxWorkers(p)

\* Mutant of PopJob: the item is not popped off its deque.
PopJobKept(w) ==
  \E p \in Priority :
    /\ Eligible(p)
    /\ \A q \in Priority : q > p => ~Eligible(q)
    /\ m_processing' = m_processing \union {Head(m_jobQueue[p])}
    /\ job' = [job EXCEPT ![w] = {Head(m_jobQueue[p])}]
    /\ UNCHANGED m_jobQueue

PopJob(w) ==
  \E p \in Priority :
    /\ Eligible(p)
    /\ \A q \in Priority : q > p => ~Eligible(q)
    /\ m_jobQueue' = [m_jobQueue EXCEPT ![p] = Tail(@)]
    /\ m_processing' = m_processing \union {Head(m_jobQueue[p])}
    /\ job' = [job EXCEPT ![w] = {Head(m_jobQueue[p])}]

PopNothing ==
  /\ \A p \in Priority : ~Eligible(p)
  /\ UNCHANGED <<m_jobQueue, m_processing, job>>

\* Mutant of GetNextJob: the loop does not look at m_running.
GetNextJobForEver(w) ==
  /\ pc[w] = "get"
  /\ m_section = Nobody
  /\ \/ PopJob(w) /\ Goto(w, "work")
     \/ PopNothing /\ Goto(w, "towait")
  /\ UNCHANGED <<m_section, m_running, m_pauseJobs, m_callback, m_workers,
                 m_jobEvent, cancelling, fresh, freed, notified>>

\* One turn of the loop of GetNextJob, up to the return or the unlock.
GetNextJob(w) ==
  /\ pc[w] = "get"
  /\ m_section = Nobody
  /\ \/ PopJob(w) /\ Goto(w, "work")
     \/ PopNothing /\ Goto(w, IF m_running THEN "towait" ELSE "exit")
  /\ UNCHANGED <<m_section, m_running, m_pauseJobs, m_callback, m_workers,
                 m_jobEvent, cancelling, fresh, freed, notified>>

\* Mutant of GetLastJob: its caller takes NULL for a job.
GetLastJobUnchecked(w) ==
  /\ pc[w] = "last"
  /\ m_section = Nobody
  /\ Goto(w, "work")
  /\ \/ PopJob(w)
     \/ /\ \A p \in Priority : ~Eligible(p)
        /\ job' = [job EXCEPT ![w] = {Nobody}]
        /\ UNCHANGED <<m_jobQueue, m_processing>>
  /\ UNCHANGED <<m_section, m_running, m_pauseJobs, m_callback, m_workers,
                 m_jobEvent, cancelling, fresh, freed, notified>>

\* Mutant of GetLastJob: NULL is returned without another PopJob.
GetLastJobSkipped(w) ==
  /\ pc[w] = "last"
  /\ m_section = Nobody
  /\ Goto(w, "exit")
  /\ UNCHANGED <<m_section, m_running, m_pauseJobs, m_jobQueue, m_processing,
                 m_callback, m_workers, m_jobEvent, job, cancelling, fresh,
                 freed, notified>>

\* The PopJob after the wait timed out.
GetLastJob(w) ==
  /\ pc[w] = "last"
  /\ m_section = Nobody
  /\ \/ PopJob(w) /\ Goto(w, "work")
     \/ PopNothing /\ Goto(w, "exit")
  /\ UNCHANGED <<m_section, m_running, m_pauseJobs, m_callback, m_workers,
                 m_jobEvent, cancelling, fresh, freed, notified>>

WaitBegin(w) ==
  /\ pc[w] = "towait"
  /\ Goto(w, "wait")
  /\ UNCHANGED <<m_section, m_running, m_pauseJobs, m_jobQueue, m_processing,
                 m_callback, m_workers, m_jobEvent, job, cancelling, fresh,
                 freed, notified>>

\* CEvent::Set wakes all waiters; the last of them to return resets the event.
WaitSignalled(w) ==
  /\ pc[w] = "wait"
  /\ m_jobEvent
  /\ m_jobEvent' = (\E v \in Worker \ {w} : pc[v] = "wait")
  /\ Goto(w, "get")
  /\ UNCHANGED <<m_section, m_running, m_pauseJobs, m_jobQueue, m_processing,
                 m_callback, m_workers, job, cancelling, fresh, freed,
                 notified>>

WaitTimeout(w) ==
  /\ pc[w] = "wait"
  /\ ~m_jobEvent
  /\ Goto(w, "last")
  /\ UNCHANGED <<m_section, m_running, m_pauseJobs, m_jobQueue, m_processing,
                 m_callback, m_workers, m_jobEvent, job, cancelling, fresh,
                 freed, notified>>

\* DoWork calls ShouldCancel: OnJobProgress copies the item and unlocks; a
\* callback runs only if the copy has one.
OnJobProgress(w) ==
  /\ \/ /\ pc[w] = "work" /\ m_section = Nobody
        /\ job[w] \subseteq m_callback
        /\ Goto(w, "progress")
     \/ pc[w] = "progress" /\ Goto(w, "work")
  /\ UNCHANGED <<m_section, m_running, m_pauseJobs, m_jobQueue, m_processing,
                 m_callback, m_workers, m_jobEvent, job, cancelling, fresh,
                 freed, notified>>

DoWork(w) ==
  /\ pc[w] = "work"
  /\ Goto(w, "complete")
  /\ UNCHANGED <<m_section, m_running, m_pauseJobs, m_jobQueue, m_processing,
                 m_callback, m_workers, m_jobEvent, job, cancelling, fresh,
                 freed, notified>>

\* OnJobComplete, first critical section: copy the item, callback included.
CopyItem(w) ==
  /\ pc[w] = "complete"
  /\ m_section = Nobody
  /\ IF job[w] \subseteq m_processing
     THEN /\ Goto(w, IF job[w] \subseteq m_callback THEN "callback"
                                                    ELSE "erase")
          /\ UNCHANGED job
     ELSE /\ Goto(w, "get")
          /\ job' = [job EXCEPT ![w] = {}]
  /\ UNCHANGED <<m_section, m_running, m_pauseJobs, m_jobQueue, m_processing,
                 m_callback, m_workers, m_jobEvent, cancelling, fresh, freed,
                 notified>>

\* The copied callback is made with the section released.
CallListener(w) ==
  /\ pc[w] = "callback"
  /\ Goto(w, "erase")
  /\ notified' = [j \in Job |-> IF j \in job[w]
                                THEN notified[j] \union {"complete"}
                                ELSE notified[j]]
  /\ UNCHANGED <<m_section, m_running, m_pauseJobs, m_jobQueue, m_processing,
                 m_callback, m_workers, m_jobEvent, job, cancelling, fresh,
                 freed>>

EraseItem(w) ==
  /\ pc[w] = "erase"
  /\ m_section = Nobody
  /\ m_processing' = m_processing \ job[w]
  /\ m_callback' = m_callback \ job[w]
  /\ Goto(w, "free")
  /\ UNCHANGED <<m_section, m_running, m_pauseJobs, m_jobQueue, m_workers,
                 m_jobEvent, job, cancelling, fresh, freed, notified>>

FreeJob(w) ==
  /\ pc[w] = "free"
  /\ freed' = freed \union job[w]
  /\ job' = [job EXCEPT ![w] = {}]
  /\ Goto(w, "get")
  /\ UNCHANGED <<m_section, m_running, m_pauseJobs, m_jobQueue, m_processing,
                 m_callback, m_workers, m_jobEvent, cancelling, fresh,
                 notified>>

\* The destructor of the self-deleting thread.
RemoveWorker(w) ==
  /\ pc[w] = "exit"
  /\ m_section = Nobody
  /\ m_workers' = m_workers \ {w}
  /\ Goto(w, "none")
  /\ UNCHANGED <<m_section, m_running, m_pauseJobs, m_jobQueue, m_processing,
                 m_callback, m_jobEvent, job, cancelling, fresh, freed,
                 notified>>

-----------------------------------------------------------------------------
Client ==
  \/ \E j \in Job : AddJob(Nobody, j) \/ CancelJob(Nobody, j)
  \/ PauseJobs \/ UnPauseJobs

\* The steps of CancelJobs and of a worker, apart from the calls they make to
\* the callback of a job.
CancelStep ==
  CancelJobsBegin \/ CancelQueuedDone \/ CancelProcessingDone \/ Drain

Serve(w) ==
  \/ GetNextJob(w) \/ GetLastJob(w) \/ WaitBegin(w) \/ WaitSignalled(w)
  \/ CopyItem(w) \/ EraseItem(w) \/ FreeJob(w) \/ RemoveWorker(w)

CancelJobs == CancelStep \/ \E j \in Job : OnJobAbort(j)

CJobWorker(w) ==
  \/ Serve(w) \/ CallListener(w)
  \/ WaitTimeout(w) \/ DoWork(w) \/ OnJobProgress(w)

Next == Client \/ CancelJobs \/ Restart \/ \E w \in Worker : CJobWorker(w)

Spec == Init /\ [][Next]_vars

-----------------------------------------------------------------------------
(* Properties.                                                             *)

\* The variables stay in their ranges, and each worker slot is registered
\* exactly while a thread lives in it.
TypeOK ==
  /\ m_section \in {Nobody, Canceller}
  /\ m_running \in BOOLEAN /\ m_pauseJobs \in BOOLEAN
  /\ m_jobQueue \in [Priority -> Seq(Job)]
  /\ m_processing \subseteq Job /\ m_callback \subseteq Job
  /\ m_workers \subseteq Worker /\ m_jobEvent \in BOOLEAN
  /\ pc \in [Worker -> Location]
  /\ job \in [Worker -> SUBSET Job]
  /\ cancelling \in {"no", "queued", "processing", "drain"}
  /\ fresh \subseteq Job /\ freed \subseteq Job
  /\ notified \in [Job -> SUBSET Callback]

\* A CJob object is in at most one deque slot, and neither a queued nor a
\* processing job, nor one a worker still holds, has been deleted: the
\* pointers the manager and its workers use are never dangling, and nothing
\* is deleted twice (JobManager.cpp:251, 291, 397).
NoDangling ==
  /\ \A j \in freed : ~Queued(j) /\ j \notin m_processing
  /\ \A w \in Worker : job[w] \intersect freed = {}
  /\ NoneTwice(m_jobQueue)

\* Two workers never run the same job, and what is processing is exactly what
\* the busy workers hold (up to the FreeJob that follows the erase).
OneWorkerPerJob ==
  /\ \A v, w \in Worker : v # w => job[v] \intersect job[w] = {}
  /\ \A j \in Job : j \in m_processing <=>
                     \E w \in Worker : j \in job[w] /\ pc[w] # "free"

\* "Lower priority jobs are executed only if there are sufficient spare worker
\* threads free to allow for higher priority jobs" (JobManager.h:200): the
\* jobs of priority p and below never take more than GetMaxWorkers(p) slots.
PriorityReserve ==
  \A p \in Priority :
    Cardinality({j \in m_processing : PriorityOf[j] <= p}) <= GetMaxWorkers(p)

\* The pool never outgrows what the priorities seen so far justify
\* (StartWorkers, JobManager.cpp:272).
PoolBound ==
  \A p \in Priority :
    (\A j \in Job \ fresh : PriorityOf[j] <= p)
      => Cardinality(m_workers) <= GetMaxWorkers(p)

\* Once CancelJobs has returned and until Restart, no worker is left, no job
\* is waiting or running, and every job ever added is deleted: the objects
\* used as callbacks may be destroyed (JobManager.h:281).
Quiescent == ~m_running /\ cancelling = "no"
ShutdownComplete ==
  Quiescent => /\ m_workers = {}
               /\ m_processing = {}
               /\ \A p \in Priority : m_jobQueue[p] = <<>>
               /\ freed = Job \ fresh

\* A job cannot get lost by CancelJobs or by the end of its worker: every
\* accepted job that is not deleted yet is queued or in the hands of a worker.
NoJobLost ==
  \A j \in Job \ (fresh \union freed) :
    Queued(j) \/ \E w \in Worker : j \in job[w]

-----------------------------------------------------------------------------
(* The inductive invariant behind these properties.                        *)

\* A slot is registered exactly while a thread lives in it, and a thread holds
\* one job from PopJob to FreeJob.
WorkersInv ==
  \A w \in Worker :
    /\ pc[w] = "none" <=> w \notin m_workers
    /\ IF pc[w] \in Busy THEN \E j \in Job : job[w] = {j} ELSE job[w] = {}

\* The places a job can be in exclude each other.
PlacesInv ==
  /\ fresh \intersect freed = {}
  /\ \A w \in Worker : \A j \in job[w] :
       j \notin fresh /\ j \notin freed /\ ~Queued(j)
  /\ \A j \in fresh : ~Queued(j)

\* How far CancelJobs has got tells what can still be there.
CancelInv ==
  /\ m_section = Canceller <=> cancelling \in {"queued", "processing"}
  /\ cancelling # "no" => ~m_running
  /\ ~m_running /\ cancelling # "queued" =>
       \A p \in Priority : m_jobQueue[p] = <<>>
  /\ Quiescent => m_workers = {}

\* A work item waits in the deque of its priority.
FiledInv ==
  \A p \in Priority : \A i \in DOMAIN m_jobQueue[p] :
    PriorityOf[m_jobQueue[p][i]] = p

\* What the proofs rest on: it adds to the properties above how far each thread
\* and CancelJobs have got.
Inv == /\ TypeOK /\ WorkersInv /\ PlacesInv /\ CancelInv
       /\ NoDangling /\ OneWorkerPerJob /\ NoJobLost

-----------------------------------------------------------------------------
(* The promise of JobService, under the mapping of a job to the place it   *)
(* is in.                                                                  *)

StageOf(j) ==
  IF j \in fresh THEN "fresh"
  ELSE IF j \in m_processing THEN "running"
  ELSE IF Queued(j) THEN "queued" ELSE "gone"

Service == INSTANCE JobService
             WITH Limit <- [j \in Job |-> GetMaxWorkers(PriorityOf[j])],
                  open <- m_running,
                  stage <- [j \in Job |-> StageOf(j)]

\* CJobManager implements JobService: no interleaving of clients, workers and
\* CancelJobs runs a job twice, runs a withdrawn one, accepts one after
\* CancelJobs, or lets Restart see jobs of before.
ImplementsService == Service!Spec

-----------------------------------------------------------------------------
(* Liveness: threads and the canceller are scheduled, waits time out, and  *)
(* DoWork returns, after however many ShouldCancel calls.                  *)

Fairness ==
  /\ \A w \in Worker : WF_vars(Serve(w) \/ CallListener(w))
  /\ \A w \in Worker : WF_vars(WaitTimeout(w))
  /\ \A w \in Worker : SF_vars(DoWork(w))
  /\ \A w \in Worker : WF_vars(pc[w] = "progress" /\ OnJobProgress(w))
  /\ WF_vars(CancelJobs /\ cancelling # "no")

FairSpec == Spec /\ Fairness

\* CancelJobs returns: the drain loop outlives every worker, wherever each of
\* them was when m_running went FALSE (JobManager.cpp:218).
CancelJobsReturns == (cancelling # "no") ~> (cancelling = "no")

\* While a worker is on its way to another PopJob, whatever its limits and
\* however its wait ends, a queued job that cannot be paused leaves its deque.
WillPop(w) == pc[w] \notin {"none", "exit"}
LiveWorkerServes ==
  \A j \in Job :
    (PriorityOf[j] # LOW_PAUSABLE /\ Queued(j) /\ \E w \in Worker : WillPop(w))
      ~> ~Queued(j)

=============================================================================
