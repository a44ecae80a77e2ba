------------------------------ MODULE JobQueue ------------------------------
(***************************************************************************)
(* CJobQueue (xbmc/utils/JobManager.{h,cpp}) on top of JobManager: a queue *)
(* of unique jobs that gives at most m_jobsAtOnce of them to the manager   *)
(* and is the callback of each.                                            *)
(*                                                                         *)
(* The queue has a section of its own.  Its operations take it and then,   *)
(* inside CJobManager::AddJob and CancelJob, the manager's; CancelJobs of  *)
(* the manager takes the two in the opposite order.  So an operation that  *)
(* calls the manager is two actions, with q_section held in between.       *)
(***************************************************************************)
EXTENDS JobManager

CONSTANTS
  Thread,        \* the client threads that use the queue
  KeyOf,         \* jobs with the same key are equal to CJob::operator==
  m_jobsAtOnce,
  m_lifo

ASSUME QueueAssumption ==
  /\ Listened = Job
  /\ DOMAIN KeyOf = Job
  /\ m_jobsAtOnce \in Nat \ {0} /\ m_lifo \in BOOLEAN
  /\ Thread \intersect Worker = {}
  /\ {Nobody, Canceller} \intersect (Thread \union Worker) = {}

VARIABLES
  q_section,     \* the owner of the queue's section
  q_jobQueue,    \* the deque, front first
  q_processing,  \* the jobs the queue has given to the manager
  at,            \* per thread, where it is in an operation of the queue
  target,        \* per thread, the job that operation is about, as a set
  offered,       \* the jobs AddJob was called with
  cancelled      \* the jobs a returned CancelJob or CancelJobs withdrew

qvars == <<q_section, q_jobQueue, q_processing, at, target, offered, cancelled>>
allvars == <<vars, qvars>>

Caller == Thread \union Worker \union {Canceller}

Waiting == {q_jobQueue[i] : i \in DOMAIN q_jobQueue}
Equal(j) == {k \in Job : KeyOf[k] = KeyOf[j]}

QInit ==
  /\ Init
  /\ q_section = Nobody
  /\ q_jobQueue = <<>> /\ q_processing = {}
  /\ at = [t \in Caller |-> "idle"] /\ target = [t \in Caller |-> {}]
  /\ offered = {} /\ cancelled = {}

Enter(t) == q_section = Nobody /\ at[t] = "idle"
MoveTo(t, l) == at' = [at EXCEPT ![t] = l]

\* The loop condition of QueueNextJob, for the lists it would see.
HasNext(queue, processing) ==
  queue # <<>> /\ Cardinality(processing) < m_jobsAtOnce

\* Runs into QueueNextJob: the section is kept if it has to call the manager.
ThenQueueNext(t, rest) ==
  IF HasNext(q_jobQueue', q_processing')
  THEN q_section' = t /\ MoveTo(t, "next")
  ELSE q_section' = Nobody /\ MoveTo(t, rest)

\* Mutant of QAddJob: only the deque is searched for an equal job.
QAddJobDequeOnly(t, j) ==
  /\ Enter(t)
  /\ j \notin offered
  /\ offered' = offered \union {j}
  /\ IF Equal(j) \intersect Waiting # {}
     THEN /\ freed' = freed \union {j}
          /\ fresh' = fresh \ {j}
          /\ UNCHANGED <<q_section, q_jobQueue, q_processing, at>>
     ELSE /\ q_jobQueue' = IF m_lifo THEN Append(q_jobQueue, j)
                                     ELSE <<j>> \o q_jobQueue
          /\ UNCHANGED <<freed, fresh, q_processing>>
          /\ ThenQueueNext(t, "idle")
  /\ UNCHANGED <<m_section, m_running, m_pauseJobs, m_jobQueue, m_processing,
                 m_callback, m_workers, m_jobEvent, pc, job, cancelling,
                 notified, target, cancelled>>

QAddJob(t, j) ==
  /\ Enter(t)
  /\ j \notin offered
  /\ offered' = offered \union {j}
  /\ IF Equal(j) \intersect (Waiting \union q_processing) # {}
     THEN /\ freed' = freed \union {j}
          /\ fresh' = fresh \ {j}
          /\ UNCHANGED <<q_section, q_jobQueue, q_processing, at>>
     ELSE /\ q_jobQueue' = IF m_lifo THEN Append(q_jobQueue, j)
                                     ELSE <<j>> \o q_jobQueue
          /\ UNCHANGED <<freed, fresh, q_processing>>
          /\ ThenQueueNext(t, "idle")
  /\ UNCHANGED <<m_section, m_running, m_pauseJobs, m_jobQueue, m_processing,
                 m_callback, m_workers, m_jobEvent, pc, job, cancelling,
                 notified, target, cancelled>>

Rest(t) == IF t \in Worker THEN "done" ELSE "idle"
Front(s) == SubSeq(s, 1, Len(s) - 1)

\* One turn of the loop of QueueNextJob: a job the manager accepts ends it.
QueueNextJob(t) ==
  /\ at[t] = "next"
  /\ LET j == q_jobQueue[Len(q_jobQueue)] IN
     /\ AddJob(t, j)
     /\ q_jobQueue' = Front(q_jobQueue)
     /\ IF m_running
        THEN /\ q_processing' = q_processing \union {j}
             /\ q_section' = Nobody /\ MoveTo(t, Rest(t))
        ELSE /\ UNCHANGED q_processing
             /\ ThenQueueNext(t, Rest(t))
  /\ UNCHANGED <<target, offered, cancelled>>

\* CancelJob of a queued job, or of one the queue does not know.
QCancelQueued(t, j) ==
  /\ Enter(t)
  /\ j \in offered \ freed
  /\ Equal(j) \intersect q_processing = {}
  /\ \/ \E i \in DOMAIN q_jobQueue :
          /\ KeyOf[q_jobQueue[i]] = KeyOf[j]
          /\ q_jobQueue' = EraseAt(q_jobQueue, i)
          /\ freed' = freed \union {q_jobQueue[i]}
          /\ fresh' = fresh \ {q_jobQueue[i]}
     \/ Equal(j) \intersect Waiting = {} /\ UNCHANGED <<q_jobQueue, freed, fresh>>
  /\ UNCHANGED <<m_section, m_running, m_pauseJobs, m_jobQueue, m_processing,
                 m_callback, m_workers, m_jobEvent, pc, job, cancelling,
                 notified, q_section, q_processing, at, target, offered,
                 cancelled>>

\* CancelJob of a job given to the manager.
QCancelBegin(t, j) ==
  /\ Enter(t)
  /\ j \in offered \ freed
  /\ \E k \in Equal(j) \intersect q_processing :
       target' = [target EXCEPT ![t] = {k}]
  /\ q_section' = t
  /\ MoveTo(t, "cancel")
  /\ UNCHANGED <<vars, q_jobQueue, q_processing, offered, cancelled>>

\* Mutant of QCancelProcessing: the entry is not erased.
QCancelProcessingKept(t) ==
  /\ at[t] = "cancel"
  /\ \E j \in target[t] : CancelJob(t, j)
  /\ cancelled' = cancelled \union target[t]
  /\ target' = [target EXCEPT ![t] = {}]
  /\ q_section' = Nobody
  /\ MoveTo(t, "idle")
  /\ UNCHANGED <<q_jobQueue, q_processing, offered>>

QCancelProcessing(t) ==
  /\ at[t] = "cancel"
  /\ \E j \in target[t] : CancelJob(t, j)
  /\ q_processing' = q_processing \ target[t]
  /\ cancelled' = cancelled \union target[t]
  /\ target' = [target EXCEPT ![t] = {}]
  /\ q_section' = Nobody
  /\ MoveTo(t, "idle")
  /\ UNCHANGED <<q_jobQueue, offered>>

\* CancelJobs: each processing job at the manager, then the deque.
QCancelJobsBegin(t) ==
  /\ Enter(t)
  /\ q_section' = t
  /\ target' = [target EXCEPT ![t] = q_processing]
  /\ MoveTo(t, "cancelAll")
  /\ UNCHANGED <<vars, q_jobQueue, q_processing, offered, cancelled>>

QCancelJobsNext(t) ==
  /\ at[t] = "cancelAll"
  /\ \E j \in q_processing : CancelJob(t, j) /\ q_processing' = q_processing \ {j}
  /\ UNCHANGED <<q_section, q_jobQueue, at, target, offered, cancelled>>

QCancelJobsEnd(t) ==
  /\ at[t] = "cancelAll"
  /\ q_processing = {}
  /\ freed' = freed \union Waiting
  /\ fresh' = fresh \ Waiting
  /\ q_jobQueue' = <<>>
  /\ cancelled' = cancelled \union target[t]
  /\ target' = [target EXCEPT ![t] = {}]
  /\ q_section' = Nobody
  /\ MoveTo(t, "idle")
  /\ UNCHANGED <<m_section, m_running, m_pauseJobs, m_jobQueue, m_processing,
                 m_callback, m_workers, m_jobEvent, pc, job, cancelling,
                 notified, q_processing, offered>>

\* Mutant of OnJobNotify: no new job is requested.
OnJobNotifyLast(w) ==
  /\ pc[w] = "callback"
  /\ Enter(w)
  /\ q_processing' = q_processing \ UNION {Equal(j) : j \in job[w]}
  /\ UNCHANGED <<vars, q_jobQueue, target, offered, cancelled, q_section>>
  /\ MoveTo(w, "done")

\* OnJobComplete of a worker's job: OnJobNotify erases an equal entry.
OnJobNotify(w) ==
  /\ pc[w] = "callback"
  /\ Enter(w)
  /\ q_processing' = q_processing \ UNION {Equal(j) : j \in job[w]}
  /\ UNCHANGED <<vars, q_jobQueue, target, offered, cancelled>>
  /\ ThenQueueNext(w, "done")

OnJobNotified(w) ==
  /\ at[w] = "done"
  /\ CallListener(w)
  /\ MoveTo(w, "idle")
  /\ UNCHANGED <<q_section, q_jobQueue, q_processing, target, offered, cancelled>>

\* OnJobAbort under the manager's section, which is stopped: QueueNextJob gets
\* 0 for every job it offers, and the manager deletes them.
AbortDue(j) ==
  \/ cancelling = "queued" /\ \E p \in Priority : NextQueued(p, j)
  \/ cancelling = "processing" /\ j \in m_processing \intersect m_callback

\* Mutant of NotifyAborted: the entry is not erased.
NotifyAbortedKept(j) ==
  /\ Enter(Canceller)
  /\ AbortDue(j)
  /\ target' = [target EXCEPT ![Canceller] = {j}]
  /\ MoveTo(Canceller, "done")
  /\ UNCHANGED <<m_section, m_running, m_pauseJobs, m_jobQueue, m_processing,
                 m_callback, m_workers, m_jobEvent, pc, job, cancelling, fresh,
                 freed, notified, q_section, q_jobQueue, q_processing, offered,
                 cancelled>>

NotifyAborted(j) ==
  /\ Enter(Canceller)
  /\ AbortDue(j)
  /\ q_processing' = q_processing \ Equal(j)
  /\ LET all == HasNext(q_jobQueue, q_processing') IN
     /\ q_jobQueue' = IF all THEN <<>> ELSE q_jobQueue
     /\ freed' = IF all THEN freed \union Waiting ELSE freed
     /\ fresh' = IF all THEN fresh \ Waiting ELSE fresh
  /\ target' = [target EXCEPT ![Canceller] = {j}]
  /\ MoveTo(Canceller, "done")
  /\ UNCHANGED <<m_section, m_running, m_pauseJobs, m_jobQueue, m_processing,
                 m_callback, m_workers, m_jobEvent, pc, job, cancelling,
                 notified, q_section, offered, cancelled>>

Aborted(j) ==
  /\ at[Canceller] = "done"
  /\ j \in target[Canceller]
  /\ OnJobAbort(j)
  /\ target' = [target EXCEPT ![Canceller] = {}]
  /\ MoveTo(Canceller, "idle")
  /\ UNCHANGED <<q_section, q_jobQueue, q_processing, offered, cancelled>>

-----------------------------------------------------------------------------
QClient(t) ==
  \/ QueueNextJob(t) \/ QCancelProcessing(t)
  \/ QCancelJobsNext(t) \/ QCancelJobsEnd(t)

QCall(t) ==
  \/ QCancelJobsBegin(t)
  \/ \E j \in Job : QAddJob(t, j) \/ QCancelQueued(t, j) \/ QCancelBegin(t, j)

QWorker(w) == QueueNextJob(w) \/ OnJobNotify(w) \/ OnJobNotified(w)

QCanceller == \E j \in Job : NotifyAborted(j) \/ Aborted(j)

QNext ==
  \/ \E t \in Thread : QCall(t) \/ QClient(t)
  \/ \E w \in Worker : QWorker(w)
  \/ QCanceller
  \/ /\ \/ CancelStep \/ Restart
        \/ \E w \in Worker : Serve(w) \/ WaitTimeout(w) \/ DoWork(w)
     /\ UNCHANGED qvars

QSpec == QInit /\ [][QNext]_allvars

-----------------------------------------------------------------------------
(* Properties.                                                             *)

\* The queue's variables stay in their ranges, on top of the manager's.
QTypeOK ==
  /\ TypeOK
  /\ q_section \in Caller \union {Nobody}
  /\ q_jobQueue \in Seq(Job) /\ q_processing \subseteq Job
  /\ at \in [Caller -> {"idle", "next", "done", "cancel", "cancelAll"}]
  /\ target \in [Caller -> SUBSET Job]
  /\ offered \subseteq Job /\ cancelled \subseteq Job

\* No CJobPointer of the queue outlives its job: the find of AddJob, CancelJob
\* and OnJobNotify never dereferences a deleted CJob (JobManager.cpp:94).
PointersAlive == (Waiting \union q_processing) \intersect freed = {}

\* The queue never has two equal jobs (JobManager.h:55).
EntriesUnique ==
  /\ \A j \in Waiting \union q_processing :
       Equal(j) \intersect (Waiting \union q_processing) = {j}
  /\ Waiting \intersect q_processing = {}

\* No CJobPointer of the queue outlives its job, whose find would dereference a
\* deleted CJob (JobManager.cpp:94), and no two of its entries are equal
\* (JobManager.h:55).
EntriesSound == QTypeOK /\ PointersAlive /\ EntriesUnique

\* With no CancelJob in between, a free slot of the queue never stays empty
\* while jobs wait for it: every completion hands over the next job
\* (JobManager.cpp:129).
SlotsFilled ==
  q_section = Nobody /\ q_jobQueue # <<>> /\ cancelled = {}
    => Cardinality(q_processing) >= m_jobsAtOnce

\* What the manager would call the queue back for is what the queue believes
\* to be processing: no callback is owed to a job the queue has given up, and
\* none of the queue's entries waits for a callback that will not come.  Of
\* jobs that equal another the late completion of a cancelled one takes the
\* entry of its twin (JobManager.cpp:134), so this is about the others.
Owed == {j \in m_callback : \A w \in Worker : j \in job[w] => at[w] # "done"
                                                            /\ at[w] # "next"
                                                            /\ pc[w] # "erase"}
Alone == {j \in Job : Equal(j) = {j}}
CallbacksOwed ==
  q_section = Nobody /\ at[Canceller] = "idle"
    => Owed \intersect Alone = q_processing \intersect Alone

-----------------------------------------------------------------------------
(* What comments of the code say and the code does not do.                 *)

\* "Cancel all remaining jobs, preparing for shutdown" (JobManager.h:281): the
\* manager's CancelJobs is not blocked for ever by a thread inside the queue.
NoLockCycle ==
  ~ \E t \in Thread \union Worker, j \in Job :
      /\ q_section = t
      /\ at[t] \in {"next", "cancel"}
      /\ m_section = Canceller /\ at[Canceller] = "idle" /\ AbortDue(j)

=============================================================================
