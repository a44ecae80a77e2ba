-------------------------- MODULE JobManagerProofs --------------------------
(***************************************************************************)
(* Proofs about JobManager, for any finite set of jobs and worker slots    *)
(* and any priorities and callbacks, and about JobQueue on top of it, for  *)
(* any equalities of jobs and any client threads.                          *)
(***************************************************************************)
EXTENDS JobQueue, FiniteSetTheorems, SequenceTheorems, TLAPS

-----------------------------------------------------------------------------
(* Deques.                                                                 *)

\* Erasing slot i keeps a sequence a sequence, and moves the later slots down.
LEMMA EraseAtSeq ==
  ASSUME NEW S, NEW s \in Seq(S), NEW i \in DOMAIN s
  PROVE  /\ EraseAt(s, i) \in Seq(S)
         /\ DOMAIN EraseAt(s, i) = 1..(Len(s) - 1)
         /\ \A k \in 1..(Len(s) - 1) :
              EraseAt(s, i)[k] = IF k < i THEN s[k] ELSE s[k + 1]
<1>1. Len(s) \in Nat /\ DOMAIN s = 1..Len(s) /\ Len(s) - 1 \in Nat
  OBVIOUS
<1>2. \A k \in 1..(Len(s) - 1) : s[k] \in S /\ s[k + 1] \in S
  BY <1>1
<1>3. EraseAt(s, i) \in [1..(Len(s) - 1) -> S]
  BY <1>2 DEF EraseAt
<1> QED
  BY <1>1, <1>3 DEF EraseAt

\* pop_front erases the first slot.
LEMMA TailErases ==
  ASSUME NEW S, NEW s \in Seq(S), s # <<>>
  PROVE  /\ 1 \in DOMAIN s /\ Head(s) = s[1]
         /\ Tail(s) = EraseAt(s, 1)
<1>1. 1 \in DOMAIN s /\ Head(s) = s[1] /\ DOMAIN s = 1..Len(s) /\ Len(s) \in Nat
  OBVIOUS
<1>2. /\ Tail(s) \in [1..(Len(s) - 1) -> S]
      /\ \A k \in 1..(Len(s) - 1) : Tail(s)[k] = s[k + 1]
  <2>1. Tail(s) \in Seq(S) /\ Len(Tail(s)) = Len(s) - 1
    OBVIOUS
  <2>2. \A t \in Seq(S) : t \in [1..Len(t) -> S]
    OBVIOUS
  <2> QED
    BY <2>1, <2>2, HeadTailProperties
<1>3. /\ EraseAt(s, 1) \in [1..(Len(s) - 1) -> S]
      /\ \A k \in 1..(Len(s) - 1) : EraseAt(s, 1)[k] = s[k + 1]
  <2>1. \A k \in 1..(Len(s) - 1) : ~(k < 1) /\ s[k + 1] \in S
    BY <1>1
  <2> QED
    BY <2>1 DEF EraseAt
<1> QED
  BY <1>1, <1>2, <1>3

\* Removing a slot of one deque removes that job and no other.
LEMMA Dequeue ==
  ASSUME NEW q \in [Priority -> Seq(Job)], NoneTwice(q),
         NEW p \in Priority, NEW i \in DOMAIN q[p]
  PROVE  /\ Erased(q, p, i) \in [Priority -> Seq(Job)]
         /\ NoneTwice(Erased(q, p, i))
         /\ \A j \in Job :
              Waits(Erased(q, p, i), j) <=> Waits(q, j) /\ j # q[p][i]
<1> DEFINE r == [q EXCEPT ![p] = EraseAt(@, i)]
           n == Len(q[p])
           old(x, k) == IF x = p /\ k >= i THEN k + 1 ELSE k
<1>1. /\ n \in Nat /\ DOMAIN q[p] = 1..n /\ i \in 1..n
      /\ EraseAt(q[p], i) \in Seq(Job)
      /\ DOMAIN EraseAt(q[p], i) = 1..(n - 1)
      /\ \A k \in 1..(n - 1) :
           EraseAt(q[p], i)[k] = IF k < i THEN q[p][k] ELSE q[p][k + 1]
  BY EraseAtSeq
<1>2. r \in [Priority -> Seq(Job)]
  BY <1>1
<1>3. \A x \in Priority : \A k \in DOMAIN r[x] :
        /\ k \in Nat
        /\ old(x, k) \in DOMAIN q[x] /\ r[x][k] = q[x][old(x, k)]
        /\ ~(x = p /\ old(x, k) = i)
  <2> SUFFICES ASSUME NEW x \in Priority, NEW k \in DOMAIN r[x]
               PROVE  /\ k \in Nat
                      /\ old(x, k) \in DOMAIN q[x] /\ r[x][k] = q[x][old(x, k)]
                      /\ ~(x = p /\ old(x, k) = i)
    OBVIOUS
  <2>1. CASE x = p
    BY <2>1, <1>1
  <2>2. CASE x # p
    <3>1. q[x] \in Seq(Job) /\ r[x] = q[x]
      BY <2>2
    <3> QED
      BY <2>2, <3>1
  <2> QED
    BY <2>1, <2>2
<1>4. \A x \in Priority : \A k \in DOMAIN q[x] :
        (x = p /\ k = i) \/ \E l \in DOMAIN r[x] : r[x][l] = q[x][k]
  <2> SUFFICES ASSUME NEW x \in Priority, NEW k \in DOMAIN q[x],
                      ~(x = p /\ k = i)
               PROVE  \E l \in DOMAIN r[x] : r[x][l] = q[x][k]
    OBVIOUS
  <2>1. CASE x = p /\ k < i
    BY <2>1, <1>1
  <2>2. CASE x = p /\ k > i
    <3>1. k - 1 \in 1..(n - 1) /\ ~(k - 1 < i) /\ (k - 1) + 1 = k
      BY <2>2, <1>1
    <3>2. k - 1 \in DOMAIN r[x] /\ r[x][k - 1] = q[x][k]
      BY <2>2, <3>1, <1>1
    <3> QED
      BY <3>2
  <2>3. CASE x # p
    BY <2>3
  <2> QED
    BY <1>1, <2>1, <2>2, <2>3
<1>5. NoneTwice(r)
  <2> SUFFICES ASSUME NEW x \in Priority, NEW y \in Priority,
                      NEW k \in DOMAIN r[x], NEW l \in DOMAIN r[y],
                      r[x][k] = r[y][l]
               PROVE  x = y /\ k = l
    BY DEF NoneTwice
  <2>1. x = y /\ old(x, k) = old(y, l)
    BY <1>3 DEF NoneTwice
  <2>2. k \in Nat /\ l \in Nat /\ i \in Nat
    BY <1>1, <1>3
  <2> QED
    BY <2>1, <2>2
<1>6. \A j \in Job : Waits(r, j) <=> Waits(q, j) /\ j # q[p][i]
  <2> SUFFICES ASSUME NEW j \in Job
               PROVE  Waits(r, j) <=> Waits(q, j) /\ j # q[p][i]
    OBVIOUS
  <2>1. Waits(r, j) => Waits(q, j) /\ j # q[p][i]
    BY <1>3 DEF Waits, NoneTwice
  <2>2. Waits(q, j) /\ j # q[p][i] => Waits(r, j)
    BY <1>4 DEF Waits
  <2> QED
    BY <2>1, <2>2
<1> QED
  BY <1>2, <1>5, <1>6 DEF Erased

\* push_back of a job that does not wait yet adds that job and no other.
LEMMA Enqueue ==
  ASSUME NEW q \in [Priority -> Seq(Job)], NoneTwice(q),
         NEW p \in Priority, NEW j \in Job, ~Waits(q, j)
  PROVE  /\ Pushed(q, p, j) \in [Priority -> Seq(Job)]
         /\ NoneTwice(Pushed(q, p, j))
         /\ \A k \in Job : Waits(Pushed(q, p, j), k) <=> Waits(q, k) \/ k = j
<1> DEFINE r == [q EXCEPT ![p] = Append(@, j)]
           n == Len(q[p])
<1>1. /\ n \in Nat /\ DOMAIN q[p] = 1..n
      /\ r \in [Priority -> Seq(Job)]
      /\ DOMAIN r[p] = 1..(n + 1)
      /\ r[p][n + 1] = j
      /\ \A k \in 1..n : r[p][k] = q[p][k]
      /\ \A x \in Priority \ {p} : r[x] = q[x]
  OBVIOUS
<1>2. \A x \in Priority : \A k \in DOMAIN r[x] :
        \/ x = p /\ k = n + 1
        \/ k \in DOMAIN q[x] /\ r[x][k] = q[x][k]
  BY <1>1
<1>3. \A x \in Priority : \A k \in DOMAIN q[x] : q[x][k] # j
  BY DEF Waits
<1>4. NoneTwice(r)
  BY <1>1, <1>2, <1>3 DEF NoneTwice
<1>5. \A k \in Job : Waits(r, k) <=> Waits(q, k) \/ k = j
  <2>1. \A x \in Priority : \A k \in DOMAIN q[x] :
          k \in DOMAIN r[x] /\ r[x][k] = q[x][k]
    BY <1>1
  <2>2. n + 1 \in DOMAIN r[p]
    BY <1>1
  <2> QED
    BY <1>1, <1>2, <2>1, <2>2 DEF Waits
<1> QED
  BY <1>1, <1>4, <1>5 DEF Pushed

-----------------------------------------------------------------------------
(* The inductive invariant.                                                *)

USE DEF Canceller, Nobody

\* The invariant holds at the beginning.
LEMMA InitInv == Init => Inv
<1> SUFFICES ASSUME Init PROVE Inv
  OBVIOUS
<1>1. \A j \in Job : ~Queued(j)
  BY DEF Init, Queued, Waits
<1>2. NoneTwice(m_jobQueue)
  BY DEF Init, NoneTwice
<1>3. TypeOK
  <2>1. m_jobQueue \in [Priority -> Seq(Job)]
    BY DEF Init
  <2>2. /\ pc \in [Worker -> Location] /\ job \in [Worker -> SUBSET Job]
        /\ notified \in [Job -> SUBSET Callback]
    BY DEF Init, Location
  <2>3. m_running \in BOOLEAN /\ m_pauseJobs \in BOOLEAN /\ m_jobEvent \in BOOLEAN
    BY DEF Init
  <2> QED
    BY <2>1, <2>2, <2>3 DEF Init, TypeOK
<1>4. WorkersInv /\ PlacesInv /\ CancelInv
  BY <1>1 DEF Init, WorkersInv, PlacesInv, CancelInv, Quiescent, Busy
<1>5. NoDangling /\ OneWorkerPerJob /\ NoJobLost
  BY <1>1, <1>2 DEF Init, NoDangling, OneWorkerPerJob, NoJobLost
<1> QED
  BY <1>3, <1>4, <1>5 DEF Inv

\* Steps of a worker that move no job.
LEMMA IdleStepInv ==
  ASSUME Inv, NEW w \in Worker,
         \/ WaitBegin(w) \/ WaitSignalled(w) \/ WaitTimeout(w)
         \/ OnJobProgress(w) \/ DoWork(w) \/ CallListener(w)
  PROVE  Inv'
<1>1. UNCHANGED <<m_section, m_running, m_pauseJobs, m_jobQueue, m_processing,
                  m_callback, m_workers, job, cancelling, fresh, freed>>
  BY DEF WaitBegin, WaitSignalled, WaitTimeout, OnJobProgress, DoWork,
         CallListener
<1>2. /\ pc' \in [Worker -> Location]
      /\ pc[w] \notin {"none", "free"} /\ pc'[w] \notin {"none", "free"}
      /\ pc[w] \in Busy <=> pc'[w] \in Busy
      /\ \A v \in Worker : v # w => pc'[v] = pc[v]
  BY DEF Inv, TypeOK, Location, Busy, Goto, WaitBegin, WaitSignalled,
         WaitTimeout, OnJobProgress, DoWork, CallListener
<1>3. m_jobEvent' \in BOOLEAN
  BY DEF Inv, TypeOK, WaitBegin, WaitSignalled, WaitTimeout, OnJobProgress,
         DoWork, CallListener
<1>4. notified' \in [Job -> SUBSET Callback]
  <2>1. CASE CallListener(w)
    BY <2>1 DEF Inv, TypeOK, Callback, CallListener
  <2>2. CASE notified' = notified
    BY <2>2 DEF Inv, TypeOK
  <2> QED
    BY <2>1, <2>2 DEF WaitBegin, WaitSignalled, WaitTimeout, OnJobProgress, DoWork
<1>5. TypeOK'
  BY <1>1, <1>2, <1>3, <1>4 DEF Inv, TypeOK
<1>6. WorkersInv'
  BY <1>1, <1>2 DEF Inv, WorkersInv
<1>7. OneWorkerPerJob'
  BY <1>1, <1>2 DEF Inv, OneWorkerPerJob
<1>8. PlacesInv' /\ CancelInv' /\ NoDangling' /\ NoJobLost'
  BY <1>1 DEF Inv, PlacesInv, CancelInv, Quiescent, NoDangling, NoJobLost,
              Queued
<1> QED
  BY <1>5, <1>6, <1>7, <1>8 DEF Inv

\* Steps of the clients and of CancelJobs that move no job and no worker.
LEMMA ControlStepInv ==
  ASSUME Inv,
         \/ \E b \in BOOLEAN : SetPause(b)
         \/ Restart \/ CancelJobsBegin \/ CancelQueuedDone
         \/ CancelProcessingDone \/ Drain
  PROVE  Inv'
<1>1. /\ UNCHANGED <<m_jobQueue, m_processing, m_callback, m_workers, pc, job,
                     fresh, freed, notified>>
  BY DEF SetPause, Restart, CancelJobsBegin, CancelQueuedDone,
         CancelProcessingDone, Drain
<1>2. TypeOK'
  <2>1. m_running' \in BOOLEAN /\ m_pauseJobs' \in BOOLEAN /\ m_jobEvent' \in BOOLEAN
    BY DEF Inv, TypeOK, SetPause, Restart, CancelJobsBegin, CancelQueuedDone,
           CancelProcessingDone, Drain
  <2>2. /\ m_section' \in {Nobody, Canceller}
        /\ cancelling' \in {"no", "queued", "processing", "drain"}
    BY DEF Inv, TypeOK, SetPause, Restart, CancelJobsBegin, CancelQueuedDone,
           CancelProcessingDone, Drain
  <2> QED
    BY <1>1, <2>1, <2>2 DEF Inv, TypeOK
<1>3. WorkersInv' /\ PlacesInv' /\ NoDangling' /\ OneWorkerPerJob' /\ NoJobLost'
  BY <1>1 DEF Inv, WorkersInv, PlacesInv, NoDangling, OneWorkerPerJob,
              NoJobLost, Queued
<1>4. CancelInv'
  BY <1>1 DEF Inv, TypeOK, CancelInv, Quiescent, SetPause, Restart,
              CancelJobsBegin, CancelQueuedDone, CancelProcessingDone, Drain
<1> QED
  BY <1>2, <1>3, <1>4 DEF Inv

\* A worker whose PopJob found nothing, CopyItem, and the end of a thread.
LEMMA WorkerControlInv ==
  ASSUME Inv, NEW w \in Worker,
         \/ GetNextJob(w) /\ PopNothing
         \/ GetLastJob(w) /\ PopNothing
         \/ CopyItem(w) \/ RemoveWorker(w)
  PROVE  Inv'
<1>1. UNCHANGED <<m_section, m_running, m_pauseJobs, m_jobQueue, m_processing,
                  m_callback, m_jobEvent, cancelling, fresh, freed, notified>>
  BY DEF GetNextJob, GetLastJob, PopNothing, CopyItem, RemoveWorker
<1>2. /\ pc' \in [Worker -> Location]
      /\ \A v \in Worker : v # w => pc'[v] = pc[v]
      /\ pc[w] \notin {"none", "free"} /\ pc'[w] # "free"
      /\ pc[w] \in Busy <=> pc'[w] \in Busy
      /\ job' = job
      /\ IF pc'[w] = "none" THEN m_workers' = m_workers \ {w}
                            ELSE m_workers' = m_workers
  <2>1. CASE CopyItem(w)
    <3>1. job[w] \subseteq m_processing
      BY <2>1 DEF Inv, TypeOK, OneWorkerPerJob, CopyItem
    <3> QED
      BY <2>1, <3>1 DEF Inv, TypeOK, Location, Busy, Goto, CopyItem
  <2>2. CASE RemoveWorker(w)
    BY <2>2 DEF Inv, TypeOK, Location, Busy, Goto, RemoveWorker
  <2>3. CASE GetNextJob(w) /\ PopNothing
    <3>1. pc[w] = "get" /\ (Goto(w, "towait") \/ Goto(w, "exit") \/ Goto(w, "work"))
      BY <2>3 DEF GetNextJob
    <3>2. ~Goto(w, "work") \/ Goto(w, "towait") \/ Goto(w, "exit")
      BY <2>3 DEF GetNextJob, PopJob, PopNothing
    <3> QED
      BY <2>3, <3>1, <3>2 DEF Inv, TypeOK, Location, Busy, Goto, GetNextJob, PopNothing
  <2>4. CASE GetLastJob(w) /\ PopNothing
    <3>1. pc[w] = "last" /\ Goto(w, "exit")
      BY <2>4 DEF GetLastJob, PopJob, PopNothing
    <3> QED
      BY <2>4, <3>1 DEF Inv, TypeOK, Location, Busy, Goto, GetLastJob, PopNothing
  <2> QED
    BY <2>1, <2>2, <2>3, <2>4
<1>3. TypeOK'
  BY <1>1, <1>2 DEF Inv, TypeOK
<1>4. WorkersInv'
  BY <1>2 DEF Inv, WorkersInv, TypeOK
<1>5. OneWorkerPerJob'
  BY <1>1, <1>2 DEF Inv, OneWorkerPerJob
<1>6. PlacesInv' /\ CancelInv' /\ NoDangling' /\ NoJobLost'
  BY <1>1, <1>2 DEF Inv, TypeOK, PlacesInv, CancelInv, Quiescent, NoDangling,
                    NoJobLost, Queued
<1> QED
  BY <1>3, <1>4, <1>5, <1>6 DEF Inv

\* PopJob moves the head of a deque into the hands of the worker.
LEMMA PopInv ==
  ASSUME Inv, NEW w \in Worker, PopJob(w), Goto(w, "work"),
         pc[w] \in {"get", "last"}, m_section = Nobody,
         UNCHANGED <<m_section, m_running, m_pauseJobs, m_callback, m_workers,
                     m_jobEvent, cancelling, fresh, freed, notified>>
  PROVE  Inv'
<1>1. PICK p \in Priority :
        /\ m_jobQueue[p] # <<>>
        /\ m_jobQueue' = [m_jobQueue EXCEPT ![p] = Tail(@)]
        /\ m_processing' = m_processing \union {Head(m_jobQueue[p])}
        /\ job' = [job EXCEPT ![w] = {Head(m_jobQueue[p])}]
  BY DEF PopJob, Eligible
<1> DEFINE x == Head(m_jobQueue[p])
<1>2. /\ m_jobQueue \in [Priority -> Seq(Job)] /\ NoneTwice(m_jobQueue)
      /\ m_jobQueue[p] \in Seq(Job)
  BY DEF Inv, TypeOK, NoDangling
<1>3. /\ 1 \in DOMAIN m_jobQueue[p] /\ x = m_jobQueue[p][1] /\ x \in Job
      /\ Tail(m_jobQueue[p]) = EraseAt(m_jobQueue[p], 1)
  BY <1>1, <1>2, TailErases
<1>4. m_jobQueue' = Erased(m_jobQueue, p, 1)
  BY <1>1, <1>3 DEF Erased
<1>5. /\ m_jobQueue' \in [Priority -> Seq(Job)] /\ NoneTwice(m_jobQueue')
      /\ \A j \in Job : Waits(m_jobQueue', j) <=> Waits(m_jobQueue, j) /\ j # x
  BY <1>2, <1>3, <1>4, Dequeue
<1>6. /\ Waits(m_jobQueue, x) /\ x \notin fresh /\ x \notin freed
      /\ x \notin m_processing /\ \A v \in Worker : x \notin job[v]
  BY <1>3 DEF Inv, Waits, Queued, PlacesInv, NoDangling, OneWorkerPerJob
<1>7. /\ pc' \in [Worker -> Location] /\ pc'[w] = "work" /\ job[w] = {}
      /\ job' \in [Worker -> SUBSET Job] /\ job'[w] = {x}
      /\ \A v \in Worker : v # w => pc'[v] = pc[v] /\ job'[v] = job[v]
  BY <1>1, <1>3 DEF Inv, TypeOK, WorkersInv, Goto, Location, Busy
<1>8. TypeOK'
  BY <1>1, <1>3, <1>5, <1>7 DEF Inv, TypeOK
<1>9. WorkersInv'
  BY <1>3, <1>7 DEF Inv, WorkersInv, Busy
<1>10. PlacesInv'
  BY <1>1, <1>5, <1>6, <1>7 DEF Inv, TypeOK, PlacesInv, Queued
<1>11. CancelInv'
  <2>1. m_running \/ cancelling = "queued"
    BY <1>1 DEF Inv, CancelInv
  <2>2. m_running
    BY <2>1 DEF Inv, CancelInv
  <2> QED
    BY <2>2 DEF Inv, CancelInv, Quiescent
<1>12. NoDangling'
  <2>1. /\ freed' = freed /\ freed \subseteq Job
        /\ \A j \in freed : ~Waits(m_jobQueue, j) /\ j \notin m_processing
        /\ \A v \in Worker : job[v] \intersect freed = {}
    BY DEF Inv, TypeOK, NoDangling, Queued
  <2>2. \A j \in freed : ~Waits(m_jobQueue', j)
    BY <1>5, <2>1
  <2>3. \A j \in freed : j \notin m_processing'
    BY <1>1, <1>6, <2>1
  <2>4. \A v \in Worker : job'[v] \intersect freed = {}
    BY <1>6, <1>7, <2>1
  <2> QED
    BY <1>5, <2>1, <2>2, <2>3, <2>4 DEF NoDangling, Queued
<1>13. OneWorkerPerJob'
  <2>1. \A v1, v2 \in Worker : v1 # v2 => job'[v1] \intersect job'[v2] = {}
    BY <1>6, <1>7 DEF Inv, OneWorkerPerJob
  <2>2. \A j \in Job : (\E v \in Worker : j \in job'[v] /\ pc'[v] # "free")
          <=> j = x \/ \E v \in Worker : j \in job[v] /\ pc[v] # "free"
    BY <1>7
  <2> QED
    BY <1>1, <2>1, <2>2 DEF Inv, OneWorkerPerJob
<1>14. NoJobLost'
  BY <1>5, <1>7 DEF Inv, NoJobLost, Queued
<1> QED
  BY <1>8, <1>9, <1>10, <1>11, <1>12, <1>13, <1>14 DEF Inv

\* EraseItem keeps the job in the worker's hands, FreeJob ends it there.
LEMMA FinishInv ==
  ASSUME Inv, NEW w \in Worker, EraseItem(w) \/ FreeJob(w)
  PROVE  Inv'
<1>1. UNCHANGED <<m_section, m_running, m_pauseJobs, m_jobQueue, m_workers,
                  m_jobEvent, cancelling, fresh, notified>>
  BY DEF EraseItem, FreeJob
<1>2. CASE EraseItem(w)
  <2>1. /\ pc[w] = "erase" /\ pc'[w] = "free" /\ pc' \in [Worker -> Location]
        /\ \A v \in Worker : v # w => pc'[v] = pc[v]
        /\ m_processing' = m_processing \ job[w]
        /\ m_callback' = m_callback \ job[w]
        /\ UNCHANGED <<job, freed>>
    BY <1>2 DEF Inv, TypeOK, EraseItem, Goto, Location, Busy
  <2>2. TypeOK'
    BY <1>1, <2>1 DEF Inv, TypeOK
  <2>3. WorkersInv'
    BY <1>1, <2>1 DEF Inv, WorkersInv, Busy
  <2>4. OneWorkerPerJob'
    <3>1. \A j \in Job : (\E v \in Worker : j \in job[v] /\ pc'[v] # "free")
            <=> j \notin job[w] /\ \E v \in Worker : j \in job[v] /\ pc[v] # "free"
      BY <2>1 DEF Inv, OneWorkerPerJob
    <3> QED
      BY <2>1, <3>1 DEF Inv, OneWorkerPerJob
  <2>5. PlacesInv' /\ CancelInv' /\ NoDangling' /\ NoJobLost'
    BY <1>1, <2>1 DEF Inv, PlacesInv, CancelInv, Quiescent, NoDangling,
                      NoJobLost, Queued
  <2> QED
    BY <2>2, <2>3, <2>4, <2>5 DEF Inv
<1>3. CASE FreeJob(w)
  <2>1. /\ pc[w] = "free" /\ pc'[w] = "get" /\ pc' \in [Worker -> Location]
        /\ \A v \in Worker : v # w => pc'[v] = pc[v] /\ job'[v] = job[v]
        /\ job' \in [Worker -> SUBSET Job] /\ job'[w] = {}
        /\ freed' = freed \union job[w]
        /\ UNCHANGED <<m_processing, m_callback>>
    BY <1>3 DEF Inv, TypeOK, FreeJob, Goto, Location, Busy
  <2>2. TypeOK'
    BY <1>1, <2>1 DEF Inv, TypeOK
  <2>3. WorkersInv'
    BY <1>1, <2>1 DEF Inv, WorkersInv, Busy
  <2>4. OneWorkerPerJob'
    <3>1. \A j \in Job : (\E v \in Worker : j \in job'[v] /\ pc'[v] # "free")
            <=> \E v \in Worker : j \in job[v] /\ pc[v] # "free"
      BY <2>1
    <3> QED
      BY <2>1, <3>1 DEF Inv, OneWorkerPerJob
  <2>5. \A j \in job[w] : j \in Job /\ j \notin m_processing /\ j \notin fresh
                           /\ ~Queued(j) /\ \A v \in Worker : v # w => j \notin job[v]
    BY <2>1 DEF Inv, TypeOK, OneWorkerPerJob, PlacesInv
  <2>6. PlacesInv'
    BY <1>1, <2>1, <2>5 DEF Inv, PlacesInv, Queued
  <2>7. CancelInv'
    BY <1>1, <2>1 DEF Inv, CancelInv, Quiescent
  <2>8. NoDangling'
    BY <1>1, <2>1, <2>5 DEF Inv, NoDangling, Queued
  <2>9. NoJobLost'
    BY <1>1, <2>1 DEF Inv, NoJobLost, Queued
  <2> QED
    BY <2>2, <2>3, <2>4, <2>6, <2>7, <2>8, <2>9 DEF Inv
<1> QED
  BY <1>2, <1>3

\* AddJob: a queued job and perhaps a new worker, or a deleted job.
LEMMA AddJobInv ==
  ASSUME Inv, NEW j \in Job, NEW t, AddJob(t, j)
  PROVE  Inv'
<1> USE DEF AddJob
<1>1. /\ j \in fresh /\ j \notin freed /\ ~Waits(m_jobQueue, j)
      /\ \A w \in Worker : j \notin job[w]
      /\ j \notin m_processing
      /\ m_jobQueue \in [Priority -> Seq(Job)] /\ NoneTwice(m_jobQueue)
      /\ PriorityOf[j] \in Priority
  BY ConstantsAssumption DEF Inv, TypeOK, PlacesInv, NoDangling, OneWorkerPerJob, Queued
<1>2. CASE m_running
  <2>1. /\ m_jobQueue' \in [Priority -> Seq(Job)] /\ NoneTwice(m_jobQueue')
        /\ \A k \in Job : Waits(m_jobQueue', k) <=> Waits(m_jobQueue, k) \/ k = j
    BY <1>1, <1>2, Enqueue
  <2>2. /\ m_jobEvent' \in BOOLEAN /\ m_workers' \subseteq Worker
        /\ pc' \in [Worker -> Location]
        /\ \A w \in Worker :
             \/ pc'[w] = pc[w] /\ (w \in m_workers' <=> w \in m_workers)
             \/ pc[w] = "none" /\ pc'[w] = "get" /\ w \in m_workers'
    <3>1. CASE UNCHANGED <<pc, m_workers>> /\ m_jobEvent' \in {m_jobEvent, TRUE}
      BY <3>1 DEF Inv, TypeOK
    <3>2. CASE /\ UNCHANGED m_jobEvent
               /\ \E w \in Worker \ m_workers :
                    m_workers' = m_workers \union {w} /\ Goto(w, "get")
      <4>1. PICK w \in Worker \ m_workers :
              m_workers' = m_workers \union {w} /\ Goto(w, "get")
        BY <3>2
      <4>2. pc[w] = "none"
        BY DEF Inv, WorkersInv
      <4> QED
        BY <3>2, <4>1, <4>2 DEF Inv, TypeOK, Goto, Location
    <3> QED
      BY <1>2, <3>1, <3>2 DEF StartWorkers
  <2>3. TypeOK'
    BY <1>2, <2>1, <2>2 DEF Inv, TypeOK
  <2>4. WorkersInv'
    BY <1>2, <2>2 DEF Inv, WorkersInv, Busy
  <2>5. PlacesInv' /\ NoDangling' /\ NoJobLost'
    BY <1>1, <1>2, <2>1 DEF Inv, TypeOK, PlacesInv, NoDangling, NoJobLost, Queued
  <2>6. OneWorkerPerJob'
    <3>1. \A w \in Worker : pc'[w] # pc[w] => job[w] = {}
      BY <2>2 DEF Inv, WorkersInv, Busy
    <3> QED
      BY <1>2, <3>1 DEF Inv, OneWorkerPerJob
  <2>7. CancelInv'
    BY <1>2 DEF Inv, CancelInv, Quiescent
  <2> QED
    BY <2>3, <2>4, <2>5, <2>6, <2>7 DEF Inv
<1>3. CASE ~m_running
  <2>1. TypeOK'
    BY <1>3 DEF Inv, TypeOK
  <2>2. WorkersInv' /\ OneWorkerPerJob' /\ CancelInv'
    BY <1>3 DEF Inv, WorkersInv, OneWorkerPerJob, CancelInv, Quiescent
  <2>3. PlacesInv' /\ NoDangling' /\ NoJobLost'
    BY <1>1, <1>3 DEF Inv, TypeOK, PlacesInv, NoDangling, NoJobLost, Queued
  <2> QED
    BY <2>1, <2>2, <2>3 DEF Inv
<1> QED
  BY <1>2, <1>3

\* A job that leaves its deque to be deleted.
LEMMA DiscardInv ==
  ASSUME Inv, NEW p \in Priority, NEW i \in DOMAIN m_jobQueue[p],
         NEW j \in Job, j = m_jobQueue[p][i],
         m_jobQueue' = Erased(m_jobQueue, p, i),
         freed' = freed \union {j}, m_callback' \subseteq Job,
         notified' \in [Job -> SUBSET Callback],
         UNCHANGED <<m_section, m_running, m_pauseJobs, m_processing, m_workers,
                     m_jobEvent, pc, job, cancelling, fresh>>
  PROVE  Inv'
<1>1. /\ m_jobQueue' \in [Priority -> Seq(Job)] /\ NoneTwice(m_jobQueue')
      /\ \A k \in Job : Waits(m_jobQueue', k) <=> Waits(m_jobQueue, k) /\ k # j
  BY Dequeue DEF Inv, TypeOK, NoDangling
<1>2. /\ Waits(m_jobQueue, j) /\ j \notin fresh /\ j \notin m_processing
      /\ \A w \in Worker : j \notin job[w]
  BY DEF Inv, Waits, Queued, PlacesInv, OneWorkerPerJob
<1>3. TypeOK'
  BY <1>1 DEF Inv, TypeOK
<1>4. WorkersInv' /\ OneWorkerPerJob'
  BY DEF Inv, WorkersInv, OneWorkerPerJob
<1>5. PlacesInv' /\ NoDangling' /\ NoJobLost'
  BY <1>1, <1>2 DEF Inv, TypeOK, PlacesInv, NoDangling, NoJobLost, Queued
<1>6. CancelInv'
  <2>1. m_running \/ cancelling = "queued"
    BY DEF Inv, CancelInv
  <2> QED
    BY <2>1 DEF Inv, CancelInv, Quiescent
<1> QED
  BY <1>3, <1>4, <1>5, <1>6 DEF Inv

\* Dropping the callback of an item touches nothing else of the invariant.
LEMMA DropCallbackInv ==
  ASSUME Inv, m_callback' \subseteq Job, notified' \in [Job -> SUBSET Callback],
         UNCHANGED <<m_section, m_running, m_pauseJobs, m_jobQueue, m_processing,
                     m_workers, m_jobEvent, pc, job, cancelling, fresh, freed>>
  PROVE  Inv'
<1>1. TypeOK'
  BY DEF Inv, TypeOK
<1> QED
  BY <1>1 DEF Inv, WorkersInv, OneWorkerPerJob, PlacesInv, NoDangling,
              NoJobLost, CancelInv, Quiescent, Queued

\* CancelJob keeps the invariant.
LEMMA CancelJobInv ==
  ASSUME Inv, NEW j \in Job, NEW t, CancelJob(t, j)
  PROVE  Inv'
<1>1. /\ notified' \in [Job -> SUBSET Callback] /\ m_callback \subseteq Job
      /\ UNCHANGED <<m_section, m_running, m_pauseJobs, m_processing, m_workers,
                     m_jobEvent, pc, job, cancelling, fresh>>
  BY DEF Inv, TypeOK, CancelJob
<1>2. CASE CancelQueued(j)
  <2>1. PICK p \in Priority :
          \E i \in DOMAIN m_jobQueue[p] :
            /\ m_jobQueue[p][i] = j
            /\ m_jobQueue' = Erased(m_jobQueue, p, i)
            /\ freed' = freed \union {j}
            /\ m_callback' = m_callback \ {j}
    BY <1>2 DEF CancelQueued
  <2>2. PICK i \in DOMAIN m_jobQueue[p] :
          /\ m_jobQueue[p][i] = j
          /\ m_jobQueue' = Erased(m_jobQueue, p, i)
          /\ freed' = freed \union {j}
          /\ m_callback' = m_callback \ {j}
    BY <2>1
  <2> QED
    BY <1>1, <2>2, DiscardInv
<1>3. CASE CancelProcessing(j) \/ UNCHANGED <<m_jobQueue, freed, m_callback>>
  <2>1. m_callback' \subseteq Job /\ UNCHANGED <<m_jobQueue, freed>>
    BY <1>1, <1>3 DEF CancelProcessing
  <2> QED
    BY <1>1, <2>1, DropCallbackInv
<1> QED
  BY <1>2, <1>3 DEF CancelJob

\* So does a callback of CancelJobs.
LEMMA OnJobAbortInv ==
  ASSUME Inv, NEW j \in Job, OnJobAbort(j)
  PROVE  Inv'
<1>1. /\ m_callback' \subseteq Job
      /\ UNCHANGED <<m_section, m_running, m_pauseJobs, m_processing, m_workers,
                     m_jobEvent, pc, job, cancelling, fresh>>
  BY DEF Inv, TypeOK, OnJobAbort, AbortQueued, AbortProcessing
<1>2. notified' \in [Job -> SUBSET Callback]
  BY DEF Inv, TypeOK, OnJobAbort, AbortQueued, AbortProcessing, NotifyAbort,
         Callback
<1>3. CASE AbortQueued(j)
  <2>1. PICK p \in Priority :
          /\ m_jobQueue[p] # <<>> /\ j = Head(m_jobQueue[p])
          /\ m_jobQueue' = [m_jobQueue EXCEPT ![p] = Tail(@)]
    BY <1>3 DEF AbortQueued, NextQueued
  <2>2. m_jobQueue[p] \in Seq(Job)
    BY DEF Inv, TypeOK
  <2>3. /\ 1 \in DOMAIN m_jobQueue[p] /\ j = m_jobQueue[p][1]
        /\ m_jobQueue' = Erased(m_jobQueue, p, 1)
    BY <2>1, <2>2, TailErases DEF Erased
  <2>4. freed' = freed \union {j}
    BY <1>3 DEF AbortQueued
  <2> QED
    BY <1>1, <1>2, <2>3, <2>4, DiscardInv
<1>4. CASE UNCHANGED <<m_jobQueue, freed>>
  BY <1>1, <1>2, <1>4, DropCallbackInv
<1> QED
  BY <1>3, <1>4 DEF OnJobAbort

\* Every step keeps the invariant.
LEMMA StepInv == Inv /\ [Next]_vars => Inv'
<1> SUFFICES ASSUME Inv, [Next]_vars PROVE Inv'
  OBVIOUS
<1>1. CASE Client
  <2>1. ASSUME NEW j \in Job, AddJob(Nobody, j) \/ CancelJob(Nobody, j)
        PROVE  Inv'
    BY <2>1, AddJobInv, CancelJobInv
  <2>2. CASE PauseJobs \/ UnPauseJobs
    BY <2>2, ControlStepInv DEF PauseJobs, UnPauseJobs
  <2> QED
    BY <1>1, <2>1, <2>2 DEF Client
<1>2. CASE CancelJobs \/ Restart
  <2>1. ASSUME NEW j \in Job, OnJobAbort(j)
        PROVE  Inv'
    BY <2>1, OnJobAbortInv
  <2> QED
    BY <1>2, <2>1, ControlStepInv DEF CancelJobs, CancelStep
<1>3. ASSUME NEW w \in Worker, CJobWorker(w)
      PROVE  Inv'
  <2>1. CASE GetNextJob(w)
    BY <2>1, PopInv, WorkerControlInv DEF GetNextJob
  <2>2. CASE GetLastJob(w)
    BY <2>2, PopInv, WorkerControlInv DEF GetLastJob
  <2>3. CASE EraseItem(w) \/ FreeJob(w)
    BY <2>3, FinishInv
  <2>4. CASE CopyItem(w) \/ RemoveWorker(w)
    BY <2>4, WorkerControlInv
  <2>5. CASE \/ WaitBegin(w) \/ WaitSignalled(w) \/ WaitTimeout(w)
             \/ OnJobProgress(w) \/ DoWork(w) \/ CallListener(w)
    BY <2>5, IdleStepInv
  <2> QED
    BY <1>3, <2>1, <2>2, <2>3, <2>4, <2>5 DEF CJobWorker, Serve
<1>4. CASE UNCHANGED vars
  BY <1>4, DropCallbackInv DEF vars, Inv, TypeOK
<1> QED
  BY <1>1, <1>2, <1>3, <1>4 DEF Next

\* Every variable of the job manager stays in its range.
THEOREM TypeCorrect == Spec => []TypeOK
<1>1. Inv => TypeOK
  BY DEF Inv
<1> QED
  BY InitInv, StepInv, <1>1, PTL DEF Spec

\* The inductive invariant holds.
THEOREM Invariance == Spec => []Inv
  BY InitInv, StepInv, PTL DEF Spec

\* No deque, no work item and no worker refers to a deleted job.
THEOREM MemorySafe == Spec => []NoDangling
<1>1. Inv => NoDangling
  BY DEF Inv
<1> QED
  BY Invariance, <1>1, PTL

\* No job runs on two workers, none is lost between deque, worker and deletion.
THEOREM JobsAccounted == Spec => [](OneWorkerPerJob /\ NoJobLost)
<1>1. Inv => OneWorkerPerJob /\ NoJobLost
  BY DEF Inv
<1> QED
  BY Invariance, <1>1, PTL

\* The invariant says what is left after CancelJobs.
LEMMA InvShutdown == Inv => ShutdownComplete
<1> SUFFICES ASSUME Inv, Quiescent
             PROVE  /\ m_workers = {} /\ m_processing = {}
                    /\ \A p \in Priority : m_jobQueue[p] = <<>>
                    /\ freed = Job \ fresh
  BY DEF ShutdownComplete
<1>1. m_workers = {} /\ \A p \in Priority : m_jobQueue[p] = <<>>
  BY DEF Inv, CancelInv, Quiescent
<1>2. \A w \in Worker : job[w] = {}
  BY <1>1 DEF Inv, WorkersInv, Busy
<1>3. m_processing = {}
  BY <1>2 DEF Inv, TypeOK, OneWorkerPerJob
<1>4. \A j \in Job : ~Queued(j)
  BY <1>1 DEF Queued, Waits
<1>5. freed = Job \ fresh
  BY <1>2, <1>4 DEF Inv, TypeOK, NoJobLost, PlacesInv
<1> QED
  BY <1>1, <1>3, <1>5

\* After CancelJobs nothing is left of what the manager had accepted.
THEOREM ShutdownCorrect == Spec => []ShutdownComplete
<1> QED
  BY Invariance, InvShutdown, PTL

-----------------------------------------------------------------------------
(* Limits.  What a step can do to the deques, to m_processing and to the   *)
(* pool, whichever action it is of.                                        *)

\* A step leaves the deques, pushes a job, or takes one out.
LEMMA QueueStep ==
  ASSUME Inv, [Next]_vars
  PROVE  \/ m_jobQueue' = m_jobQueue
         \/ \E j \in Job : m_jobQueue' = Pushed(m_jobQueue, PriorityOf[j], j)
         \/ \E p \in Priority : \E i \in DOMAIN m_jobQueue[p] :
              m_jobQueue' = Erased(m_jobQueue, p, i)
<1>1. ASSUME NEW p \in Priority, m_jobQueue[p] # <<>>,
             m_jobQueue' = [m_jobQueue EXCEPT ![p] = Tail(@)]
      PROVE  \E i \in DOMAIN m_jobQueue[p] : m_jobQueue' = Erased(m_jobQueue, p, i)
  <2>1. m_jobQueue[p] \in Seq(Job)
    BY DEF Inv, TypeOK
  <2> QED
    BY <1>1, <2>1, TailErases DEF Erased
<1>2. ASSUME NEW j \in Job, AddJob(Nobody, j)
      PROVE  m_jobQueue' = m_jobQueue \/ m_jobQueue' = Pushed(m_jobQueue, PriorityOf[j], j)
  BY <1>2 DEF AddJob
<1>3. ASSUME NEW j \in Job, CancelJob(Nobody, j)
      PROVE  \/ m_jobQueue' = m_jobQueue
             \/ \E p \in Priority : \E i \in DOMAIN m_jobQueue[p] :
                  m_jobQueue' = Erased(m_jobQueue, p, i)
  BY <1>3 DEF CancelJob, CancelQueued, CancelProcessing
<1>4. ASSUME NEW j \in Job, OnJobAbort(j)
      PROVE  \/ m_jobQueue' = m_jobQueue
             \/ \E p \in Priority : \E i \in DOMAIN m_jobQueue[p] :
                  m_jobQueue' = Erased(m_jobQueue, p, i)
  BY <1>1, <1>4 DEF OnJobAbort, AbortQueued, NextQueued
<1>5. ASSUME NEW w \in Worker, PopJob(w)
      PROVE  \E p \in Priority : \E i \in DOMAIN m_jobQueue[p] :
               m_jobQueue' = Erased(m_jobQueue, p, i)
  BY <1>1, <1>5 DEF PopJob, Eligible
<1>6. ASSUME NEW w \in Worker, CJobWorker(w), ~PopJob(w)
      PROVE  m_jobQueue' = m_jobQueue
  BY <1>6 DEF CJobWorker, Serve, GetNextJob, GetLastJob, PopNothing, WaitBegin,
     WaitSignalled, WaitTimeout, OnJobProgress, DoWork, CopyItem, CallListener,
     EraseItem, FreeJob, RemoveWorker
<1>7. CASE \/ PauseJobs \/ UnPauseJobs \/ Restart \/ CancelJobsBegin
           \/ CancelQueuedDone \/ CancelProcessingDone \/ Drain
           \/ UNCHANGED vars
  BY <1>7 DEF PauseJobs, UnPauseJobs, SetPause, Restart, CancelJobsBegin,
     CancelQueuedDone, CancelProcessingDone, Drain, vars
<1> QED
  BY <1>2, <1>3, <1>4, <1>5, <1>6, <1>7 DEF Next, Client, CancelJobs, CancelStep

\* A job comes into m_processing from a priority that may start one.
LEMMA ProcessingStep ==
  ASSUME [Next]_vars
  PROVE  \/ m_processing' \subseteq m_processing
         \/ \E p \in Priority :
              /\ Eligible(p)
              /\ m_processing' = m_processing \union {Head(m_jobQueue[p])}
<1>1. ASSUME NEW j \in Job, AddJob(Nobody, j) \/ CancelJob(Nobody, j) \/ OnJobAbort(j)
      PROVE  m_processing' = m_processing
  BY <1>1 DEF AddJob, CancelJob, OnJobAbort
<1>2. ASSUME NEW w \in Worker, PopJob(w)
      PROVE  \E p \in Priority :
               Eligible(p) /\ m_processing' = m_processing \union {Head(m_jobQueue[p])}
  BY <1>2 DEF PopJob
<1>3. ASSUME NEW w \in Worker, CJobWorker(w), ~PopJob(w)
      PROVE  m_processing' \subseteq m_processing
  BY <1>3 DEF CJobWorker, Serve, GetNextJob, GetLastJob, PopNothing, WaitBegin,
     WaitSignalled, WaitTimeout, OnJobProgress, DoWork, CopyItem, CallListener,
     EraseItem, FreeJob, RemoveWorker
<1>4. CASE \/ PauseJobs \/ UnPauseJobs \/ Restart \/ CancelJobsBegin
           \/ CancelQueuedDone \/ CancelProcessingDone \/ Drain
           \/ UNCHANGED vars
  BY <1>4 DEF PauseJobs, UnPauseJobs, SetPause, Restart, CancelJobsBegin,
     CancelQueuedDone, CancelProcessingDone, Drain, vars
<1> QED
  BY <1>1, <1>2, <1>3, <1>4 DEF Next, Client, CancelJobs, CancelStep

\* Every step keeps the jobs filed under their priority.
LEMMA FiledStep == Inv /\ FiledInv /\ [Next]_vars => FiledInv'
<1> SUFFICES ASSUME Inv, FiledInv, [Next]_vars PROVE FiledInv'
  OBVIOUS
<1>1. m_jobQueue \in [Priority -> Seq(Job)] /\ PriorityOf \in [Job -> Priority]
  BY ConstantsAssumption DEF Inv, TypeOK
<1>2. CASE m_jobQueue' = m_jobQueue
  BY <1>2 DEF FiledInv
<1>3. ASSUME NEW j \in Job, m_jobQueue' = Pushed(m_jobQueue, PriorityOf[j], j)
      PROVE  FiledInv'
  <2>1. \A p \in Priority : \A i \in DOMAIN m_jobQueue'[p] :
          \/ p = PriorityOf[j] /\ m_jobQueue'[p][i] = j
          \/ i \in DOMAIN m_jobQueue[p] /\ m_jobQueue'[p][i] = m_jobQueue[p][i]
    BY <1>1, <1>3 DEF Pushed
  <2> QED
    BY <2>1 DEF FiledInv
<1>4. ASSUME NEW p \in Priority, NEW i \in DOMAIN m_jobQueue[p],
             m_jobQueue' = Erased(m_jobQueue, p, i)
      PROVE  FiledInv'
  <2>1. m_jobQueue[p] \in Seq(Job) /\ DOMAIN m_jobQueue[p] = 1..Len(m_jobQueue[p])
        /\ Len(m_jobQueue[p]) \in Nat
    BY <1>1
  <2>2. \A k \in DOMAIN EraseAt(m_jobQueue[p], i) :
          \E l \in DOMAIN m_jobQueue[p] :
            EraseAt(m_jobQueue[p], i)[k] = m_jobQueue[p][l]
    <3>1. \A k \in DOMAIN EraseAt(m_jobQueue[p], i) :
            /\ k \in 1..(Len(m_jobQueue[p]) - 1)
            /\ EraseAt(m_jobQueue[p], i)[k] =
                 IF k < i THEN m_jobQueue[p][k] ELSE m_jobQueue[p][k + 1]
      BY <2>1, EraseAtSeq
    <3>2. \A k \in 1..(Len(m_jobQueue[p]) - 1) :
            k \in DOMAIN m_jobQueue[p] /\ k + 1 \in DOMAIN m_jobQueue[p]
      BY <2>1
    <3> QED
      BY <3>1, <3>2
  <2>3. \A q \in Priority : \A k \in DOMAIN m_jobQueue'[q] :
          \E l \in DOMAIN m_jobQueue[q] : m_jobQueue'[q][k] = m_jobQueue[q][l]
    BY <1>1, <1>4, <2>2 DEF Erased
  <2> QED
    BY <2>3 DEF FiledInv
<1> QED
  BY <1>2, <1>3, <1>4, QueueStep

\* GetMaxWorkers grows with the priority and leaves a slot to each.
LEMMA LimitsMonotone ==
  /\ \A p \in Priority : GetMaxWorkers(p) \in Nat /\ GetMaxWorkers(p) > 0
  /\ \A p, q \in Priority : p <= q => GetMaxWorkers(p) <= GetMaxWorkers(q)
  BY ConstantsAssumption DEF GetMaxWorkers, Priority, HIGH, DEDICATED, LOW_PAUSABLE

\* Every step leaves the reserved slots to the higher priorities.
LEMMA ReserveStep == Inv /\ FiledInv /\ PriorityReserve /\ [Next]_vars => PriorityReserve'
<1> SUFFICES ASSUME Inv, FiledInv, PriorityReserve, [Next]_vars,
                    NEW q \in Priority
             PROVE  Cardinality({j \in m_processing' : PriorityOf[j] <= q})
                      <= GetMaxWorkers(q)
  BY DEF PriorityReserve
<1> DEFINE Below  == {j \in m_processing : PriorityOf[j] <= q}
           Below2 == {j \in m_processing' : PriorityOf[j] <= q}
<1>1. IsFiniteSet(m_processing) /\ Cardinality(m_processing) \in Nat
  BY ConstantsAssumption, FS_Subset, FS_CardinalityType DEF Inv, TypeOK
<1>2. /\ IsFiniteSet(Below) /\ Cardinality(Below) \in Nat
      /\ Cardinality(Below) <= Cardinality(m_processing)
  BY <1>1, FS_Subset, FS_CardinalityType
<1>3. Cardinality(Below) <= GetMaxWorkers(q)
  BY DEF PriorityReserve
<1>4. ASSUME Below2 \subseteq Below
      PROVE  Cardinality(Below2) <= GetMaxWorkers(q)
  <2>1. Cardinality(Below2) <= Cardinality(Below) /\ Cardinality(Below2) \in Nat
    BY <1>2, <1>4, FS_Subset, FS_CardinalityType
  <2> QED
    BY <1>2, <1>3, <2>1, LimitsMonotone
<1>5. ASSUME NEW p \in Priority, Eligible(p),
             m_processing' = m_processing \union {Head(m_jobQueue[p])}
      PROVE  Cardinality(Below2) <= GetMaxWorkers(q)
  <2> DEFINE x == Head(m_jobQueue[p])
  <2>1. x = m_jobQueue[p][1] /\ 1 \in DOMAIN m_jobQueue[p]
    <3>1. m_jobQueue[p] \in Seq(Job) /\ m_jobQueue[p] # <<>>
      BY <1>5 DEF Inv, TypeOK, Eligible
    <3> QED
      BY <3>1
  <2>2. PriorityOf[x] = p
    BY <2>1 DEF FiledInv
  <2>3. CASE p <= q
    <3>1. Below2 = Below \union {x}
      BY <1>5, <2>2, <2>3
    <3>2. Cardinality(Below2) <= Cardinality(m_processing) + 1
      <4>1. Cardinality(Below \union {x})
              = IF x \in Below THEN Cardinality(Below) ELSE Cardinality(Below) + 1
        BY <1>2, FS_AddElement
      <4> HIDE DEF Below, Below2
      <4> QED
        BY <1>1, <1>2, <3>1, <4>1
    <3>3. Cardinality(m_processing) + 1 <= GetMaxWorkers(p)
      BY <1>1, <1>5, LimitsMonotone DEF Eligible
    <3>4. Cardinality(Below2) \in Nat
      BY <1>2, <3>1, FS_AddElement, FS_CardinalityType
    <3> QED
      BY <1>1, <2>3, <3>2, <3>3, <3>4, LimitsMonotone
  <2>4. CASE ~(p <= q)
    <3>1. Below2 \subseteq Below
      BY <1>5, <2>2, <2>4
    <3> QED
      BY <1>4, <3>1
  <2> QED
    BY <2>3, <2>4
<1>6. CASE m_processing' \subseteq m_processing
  BY <1>4, <1>6
<1> QED
  BY <1>5, <1>6, ProcessingStep

\* However clients add jobs and workers come and go, the jobs of priority p and
\* below never hold more than GetMaxWorkers(p) workers.
THEOREM ReserveCorrect == Spec => []PriorityReserve
<1>1. Init => FiledInv /\ PriorityReserve
  <2> SUFFICES ASSUME Init PROVE FiledInv /\ PriorityReserve
    OBVIOUS
  <2>1. FiledInv
    BY DEF Init, FiledInv
  <2>2. \A p \in Priority : {j \in m_processing : PriorityOf[j] <= p} = {}
    BY DEF Init
  <2>3. PriorityReserve
    BY <2>2, FS_EmptySet, LimitsMonotone DEF PriorityReserve
  <2> QED
    BY <2>1, <2>3
<1>2. Inv /\ FiledInv /\ PriorityReserve /\ [Next]_vars
        => Inv' /\ FiledInv' /\ PriorityReserve'
  BY StepInv, FiledStep, ReserveStep
<1> QED
  BY InitInv, <1>1, <1>2, PTL DEF Spec

\* A worker is only ever created by AddJob, when every worker is busy.
LEMMA PoolStep ==
  ASSUME Inv, [Next]_vars
  PROVE  /\ fresh' \subseteq fresh
         /\ \/ m_workers' \subseteq m_workers
            \/ \E j \in fresh \ fresh' : \E w \in Worker :
                 /\ Cardinality(m_workers) <= Cardinality(m_processing)
                 /\ Cardinality(m_processing) < GetMaxWorkers(PriorityOf[j])
                 /\ m_workers' = m_workers \union {w}
<1>1. ASSUME NEW j \in Job, AddJob(Nobody, j)
      PROVE  /\ fresh' \subseteq fresh
             /\ \/ m_workers' \subseteq m_workers
                \/ /\ j \in fresh \ fresh'
                   /\ \E w \in Worker :
                        /\ Cardinality(m_workers) <= Cardinality(m_processing)
                        /\ Cardinality(m_processing) < GetMaxWorkers(PriorityOf[j])
                        /\ m_workers' = m_workers \union {w}
  <2>1. IsFiniteSet(m_workers) /\ IsFiniteSet(m_processing)
    BY ConstantsAssumption, FS_Subset DEF Inv, TypeOK
  <2>2. Cardinality(m_workers) \in Nat /\ Cardinality(m_processing) \in Nat
    BY <2>1, FS_CardinalityType
  <2>3. CASE StartWorkers(PriorityOf[j])
    BY <1>1, <2>2, <2>3 DEF AddJob, StartWorkers
  <2> QED
    BY <1>1, <2>3 DEF AddJob
<1>2. ASSUME NEW j \in Job, CancelJob(Nobody, j) \/ OnJobAbort(j)
      PROVE  UNCHANGED <<fresh, m_workers>>
  BY <1>2 DEF CancelJob, OnJobAbort
<1>3. ASSUME NEW w \in Worker, CJobWorker(w)
      PROVE  fresh' = fresh /\ m_workers' \subseteq m_workers
  BY <1>3 DEF CJobWorker, Serve, GetNextJob, GetLastJob, WaitBegin,
     WaitSignalled, WaitTimeout, OnJobProgress, DoWork, CopyItem, CallListener,
     EraseItem, FreeJob, RemoveWorker
<1>4. CASE \/ PauseJobs \/ UnPauseJobs \/ Restart \/ CancelJobsBegin
           \/ CancelQueuedDone \/ CancelProcessingDone \/ Drain
           \/ UNCHANGED vars
  BY <1>4 DEF PauseJobs, UnPauseJobs, SetPause, Restart, CancelJobsBegin,
     CancelQueuedDone, CancelProcessingDone, Drain, vars
<1> QED
  BY <1>1, <1>2, <1>3, <1>4 DEF Next, Client, CancelJobs, CancelStep

\* Every step keeps the pool within its limits.
LEMMA PoolBoundStep == Inv /\ PoolBound /\ [Next]_vars => PoolBound'
<1> SUFFICES ASSUME Inv, PoolBound, [Next]_vars, NEW p \in Priority,
                    \A j \in Job \ fresh' : PriorityOf[j] <= p
             PROVE  Cardinality(m_workers') <= GetMaxWorkers(p)
  BY DEF PoolBound
<1>1. IsFiniteSet(m_workers) /\ Cardinality(m_workers) \in Nat
  BY ConstantsAssumption, FS_Subset, FS_CardinalityType DEF Inv, TypeOK
<1>2. Cardinality(m_processing) \in Nat
  BY ConstantsAssumption, FS_Subset, FS_CardinalityType DEF Inv, TypeOK
<1>3. GetMaxWorkers(p) \in Nat
  BY LimitsMonotone
<1>4. CASE m_workers' \subseteq m_workers
  <2>1. Cardinality(m_workers) <= GetMaxWorkers(p)
    BY PoolStep DEF PoolBound
  <2>2. Cardinality(m_workers') <= Cardinality(m_workers)
        /\ Cardinality(m_workers') \in Nat
    BY <1>1, <1>4, FS_Subset, FS_CardinalityType
  <2> QED
    BY <1>1, <1>3, <2>1, <2>2
<1>5. ASSUME NEW j \in fresh \ fresh', NEW w \in Worker,
             Cardinality(m_workers) <= Cardinality(m_processing),
             Cardinality(m_processing) < GetMaxWorkers(PriorityOf[j]),
             m_workers' = m_workers \union {w}
      PROVE  Cardinality(m_workers') <= GetMaxWorkers(p)
  <2>1. j \in Job /\ PriorityOf[j] \in Priority /\ PriorityOf[j] <= p
    BY ConstantsAssumption, <1>5 DEF Inv, TypeOK
  <2>2. GetMaxWorkers(PriorityOf[j]) <= GetMaxWorkers(p)
        /\ GetMaxWorkers(PriorityOf[j]) \in Nat
    BY <2>1, LimitsMonotone
  <2>3. Cardinality(m_workers') <= Cardinality(m_workers) + 1
        /\ Cardinality(m_workers') \in Nat
    <3>1. /\ IsFiniteSet(m_workers \union {w})
          /\ Cardinality(m_workers \union {w}) = IF w \in m_workers
               THEN Cardinality(m_workers) ELSE Cardinality(m_workers) + 1
      BY <1>1, FS_AddElement
    <3> QED
      BY <1>1, <1>5, <3>1
  <2> QED
    BY <1>1, <1>2, <1>3, <1>5, <2>2, <2>3
<1> QED
  BY <1>4, <1>5, PoolStep

\* The pool is never larger than the most urgent job so far justifies.
THEOREM PoolBounded == Spec => []PoolBound
<1>1. Init => PoolBound
  <2> SUFFICES ASSUME Init PROVE PoolBound
    OBVIOUS
  <2>1. Cardinality(m_workers) = 0
    BY FS_EmptySet DEF Init
  <2> QED
    BY <2>1, LimitsMonotone DEF PoolBound
<1> QED
  BY InitInv, StepInv, PoolBoundStep, <1>1, PTL DEF Spec

-----------------------------------------------------------------------------
(* JobManager implements JobService.                                       *)

\* A step that takes one job from a stage to another, seen from the service.
LEMMA MoveJob ==
  ASSUME NEW j \in Job, NEW to, StageOf(j)' = to,
         \A k \in Job \ {j} : StageOf(k)' = StageOf(k),
         m_running' = m_running
  PROVE  Service!Move(j, StageOf(j), to)
<1>1. [k \in Job |-> StageOf(k)]' = [[k \in Job |-> StageOf(k)] EXCEPT ![j] = to]
  OBVIOUS
<1> QED
  BY <1>1 DEF Service!Move

\* A step that leaves every job in its stage is a stutter of the service.
LEMMA NoMove ==
  ASSUME \A k \in Job : StageOf(k)' = StageOf(k), m_running' = m_running
  PROVE  UNCHANGED Service!vars
<1>1. [k \in Job |-> StageOf(k)]' = [k \in Job |-> StageOf(k)]
  OBVIOUS
<1> QED
  BY <1>1 DEF Service!vars

\* Who is not moved keeps its stage.
LEMMA SameStages ==
  ASSUME UNCHANGED <<m_jobQueue, m_processing, fresh>>
  PROVE  \A k \in Job : StageOf(k)' = StageOf(k)
  BY DEF StageOf, Queued

\* A queued job that is discarded is withdrawn.
LEMMA DiscardService ==
  ASSUME Inv, NEW p \in Priority, NEW i \in DOMAIN m_jobQueue[p],
         NEW j \in Job, j = m_jobQueue[p][i],
         m_jobQueue' = Erased(m_jobQueue, p, i),
         UNCHANGED <<m_running, m_processing, fresh>>
  PROVE  Service!Withdraw(j)
<1>1. \A k \in Job : Waits(m_jobQueue', k) <=> Waits(m_jobQueue, k) /\ k # j
  BY Dequeue DEF Inv, TypeOK, NoDangling
<1>2. /\ Waits(m_jobQueue, j) /\ j \notin fresh /\ j \notin m_processing
  BY DEF Inv, Waits, Queued, PlacesInv, OneWorkerPerJob
<1>3. StageOf(j) = "queued" /\ StageOf(j)' = "gone"
  BY <1>1, <1>2 DEF StageOf, Queued
<1>4. \A k \in Job \ {j} : StageOf(k)' = StageOf(k)
  BY <1>1 DEF StageOf, Queued
<1> QED
  BY <1>3, <1>4, MoveJob DEF Service!Withdraw

\* AddJob submits a job, or rejects it after CancelJobs.
LEMMA AddJobService ==
  ASSUME Inv, NEW j \in Job, NEW t, AddJob(t, j)
  PROVE  Service!Submit(j) \/ Service!Reject(j)
<1>1. j \in fresh /\ fresh' = fresh \ {j} /\ m_processing' = m_processing
      /\ j \notin m_processing /\ m_running' = m_running
      /\ ~Waits(m_jobQueue, j) /\ StageOf(j) = "fresh"
  BY DEF AddJob, Inv, PlacesInv, OneWorkerPerJob, Queued, StageOf
<1>2. CASE m_running
  <2>1. m_jobQueue' = Pushed(m_jobQueue, PriorityOf[j], j)
    BY <1>2 DEF AddJob
  <2>2. m_jobQueue \in [Priority -> Seq(Job)] /\ NoneTwice(m_jobQueue)
        /\ PriorityOf[j] \in Priority
    BY ConstantsAssumption DEF Inv, TypeOK, NoDangling
  <2>3. \A k \in Job : Waits(m_jobQueue', k) <=> Waits(m_jobQueue, k) \/ k = j
    BY <1>1, <2>1, <2>2, Enqueue
  <2>4. StageOf(j)' = "queued" /\ \A k \in Job \ {j} : StageOf(k)' = StageOf(k)
    BY <1>1, <2>3 DEF StageOf, Queued
  <2> QED
    BY <1>1, <1>2, <2>4, MoveJob DEF Service!Submit
<1>3. CASE ~m_running
  <2>1. m_jobQueue' = m_jobQueue
    BY <1>3 DEF AddJob
  <2>2. StageOf(j)' = "gone" /\ \A k \in Job \ {j} : StageOf(k)' = StageOf(k)
    BY <1>1, <2>1 DEF StageOf, Queued
  <2> QED
    BY <1>1, <1>3, <2>2, MoveJob DEF Service!Reject
<1> QED
  BY <1>2, <1>3

\* PopJob starts a job.
LEMMA PopService ==
  ASSUME Inv, FiledInv, NEW w \in Worker, PopJob(w),
         UNCHANGED <<m_running, fresh>>
  PROVE  \E j \in Job : Service!Start(j)
<1>1. PICK p \in Priority :
        /\ Eligible(p)
        /\ m_jobQueue[p] # <<>>
        /\ m_jobQueue' = [m_jobQueue EXCEPT ![p] = Tail(@)]
        /\ m_processing' = m_processing \union {Head(m_jobQueue[p])}
  BY DEF PopJob, Eligible
<1>2. /\ m_jobQueue \in [Priority -> Seq(Job)] /\ NoneTwice(m_jobQueue)
      /\ m_jobQueue[p] \in Seq(Job)
  BY DEF Inv, TypeOK, NoDangling
<1>3. PICK x \in Job :
        /\ 1 \in DOMAIN m_jobQueue[p] /\ x = m_jobQueue[p][1]
        /\ m_jobQueue' = Erased(m_jobQueue, p, 1)
        /\ m_processing' = m_processing \union {x}
  <2>1. /\ 1 \in DOMAIN m_jobQueue[p] /\ m_jobQueue[p][1] \in Job
        /\ Head(m_jobQueue[p]) = m_jobQueue[p][1]
        /\ Tail(m_jobQueue[p]) = EraseAt(m_jobQueue[p], 1)
    BY <1>1, <1>2, TailErases
  <2> QED
    BY <1>1, <2>1 DEF Erased
<1>4. \A j \in Job : Waits(m_jobQueue', j) <=> Waits(m_jobQueue, j) /\ j # x
  BY <1>2, <1>3, Dequeue
<1>5. Waits(m_jobQueue, x) /\ x \notin fresh /\ x \notin m_processing
  BY <1>3 DEF Inv, Waits, Queued, PlacesInv, OneWorkerPerJob
<1>6. PriorityOf[x] = p
  BY <1>3 DEF FiledInv
<1>7. Service!Running = m_processing
  <2>1. \A j \in m_processing : j \in Job /\ j \notin fresh
    BY DEF Inv, TypeOK, OneWorkerPerJob, PlacesInv
  <2> QED
    BY <2>1 DEF Service!Running, StageOf
<1>8. StageOf(x) = "queued" /\ StageOf(x)' = "running"
      /\ \A k \in Job \ {x} : StageOf(k)' = StageOf(k)
  BY <1>3, <1>4, <1>5 DEF StageOf, Queued
<1>9. Service!Move(x, "queued", "running")
  BY <1>3, <1>8, MoveJob
<1>10. Cardinality(Service!Running)
         < [j \in Job |-> GetMaxWorkers(PriorityOf[j])][x]
  BY <1>1, <1>6, <1>7 DEF Eligible
<1>11. Service!Start(x)
  BY <1>9, <1>10 DEF Service!Start, Service!Cardinality, Cardinality
<1> QED
  BY <1>11

\* A worker starts a job, finishes one, or does nothing the service can see.
LEMMA WorkerService ==
  ASSUME Inv, FiledInv, NEW w \in Worker, CJobWorker(w)
  PROVE  UNCHANGED Service!vars \/ \E j \in Job : Service!Start(j) \/ Service!Finish(j)
<1>1. UNCHANGED <<m_running, fresh>>
  BY DEF CJobWorker, Serve, GetNextJob, GetLastJob, WaitBegin, WaitSignalled,
     WaitTimeout, OnJobProgress, DoWork, CopyItem, CallListener, EraseItem,
     FreeJob, RemoveWorker
<1>2. CASE PopJob(w)
  BY <1>1, <1>2, PopService
<1>3. CASE EraseItem(w)
  <2>1. pc[w] = "erase" /\ m_processing' = m_processing \ job[w]
        /\ m_jobQueue' = m_jobQueue
    BY <1>3 DEF EraseItem
  <2>2. PICK j \in Job : job[w] = {j}
    BY <2>1 DEF Inv, WorkersInv, Busy
  <2>3. j \in m_processing /\ j \notin fresh /\ ~Waits(m_jobQueue, j)
    BY <2>1, <2>2 DEF Inv, OneWorkerPerJob, PlacesInv, Queued
  <2>4. StageOf(j) = "running" /\ StageOf(j)' = "gone"
        /\ \A k \in Job \ {j} : StageOf(k)' = StageOf(k)
    BY <1>1, <2>1, <2>2, <2>3 DEF StageOf, Queued
  <2> QED
    BY <1>1, <2>4, MoveJob DEF Service!Finish
<1>4. CASE ~PopJob(w) /\ ~EraseItem(w)
  <2>1. UNCHANGED <<m_jobQueue, m_processing>>
    BY <1>4 DEF CJobWorker, Serve, GetNextJob, GetLastJob, PopNothing,
       WaitBegin, WaitSignalled, WaitTimeout, OnJobProgress, DoWork, CopyItem,
       CallListener, FreeJob, RemoveWorker
  <2> QED
    BY <1>1, <2>1, SameStages, NoMove
<1> QED
  BY <1>2, <1>3, <1>4

\* Every step of the job manager is a step of the service, or none.
LEMMA ServiceStep ==
  ASSUME Inv, FiledInv, [Next]_vars
  PROVE  [Service!Next]_(Service!vars)
<1>1. ASSUME NEW j \in Job, AddJob(Nobody, j)
      PROVE  [Service!Next]_(Service!vars)
  BY <1>1, AddJobService DEF Service!Next
<1>2. ASSUME NEW j \in Job, CancelJob(Nobody, j)
      PROVE  [Service!Next]_(Service!vars)
  <2>1. UNCHANGED <<m_running, m_processing, fresh>>
    BY <1>2 DEF CancelJob
  <2>2. CASE CancelQueued(j)
    <3>1. PICK p \in Priority :
            \E i \in DOMAIN m_jobQueue[p] :
              m_jobQueue[p][i] = j /\ m_jobQueue' = Erased(m_jobQueue, p, i)
      BY <2>2 DEF CancelQueued
    <3> QED
      BY <2>1, <3>1, DiscardService DEF Service!Next
  <2>3. CASE UNCHANGED m_jobQueue
    BY <2>1, <2>3, SameStages, NoMove
  <2> QED
    BY <1>2, <2>2, <2>3 DEF CancelJob, CancelProcessing
<1>3. ASSUME NEW j \in Job, OnJobAbort(j)
      PROVE  [Service!Next]_(Service!vars)
  <2>1. UNCHANGED <<m_running, m_processing, fresh>>
    BY <1>3 DEF OnJobAbort
  <2>2. CASE AbortQueued(j)
    <3>1. PICK p \in Priority :
            /\ m_jobQueue[p] # <<>> /\ j = Head(m_jobQueue[p])
            /\ m_jobQueue' = [m_jobQueue EXCEPT ![p] = Tail(@)]
      BY <2>2 DEF AbortQueued, NextQueued
    <3>2. m_jobQueue[p] \in Seq(Job)
      BY DEF Inv, TypeOK
    <3>3. /\ 1 \in DOMAIN m_jobQueue[p] /\ j = m_jobQueue[p][1]
          /\ m_jobQueue' = Erased(m_jobQueue, p, 1)
      BY <3>1, <3>2, TailErases DEF Erased
    <3> QED
      BY <2>1, <3>3, DiscardService DEF Service!Next
  <2>3. CASE UNCHANGED m_jobQueue
    BY <2>1, <2>3, SameStages, NoMove
  <2> QED
    BY <1>3, <2>2, <2>3 DEF OnJobAbort
<1>4. ASSUME NEW w \in Worker, CJobWorker(w)
      PROVE  [Service!Next]_(Service!vars)
  BY <1>4, WorkerService DEF Service!Next
<1>5. CASE CancelJobsBegin
  <2>1. UNCHANGED <<m_jobQueue, m_processing, fresh>> /\ m_running' = FALSE
    BY <1>5 DEF CancelJobsBegin
  <2>2. [k \in Job |-> StageOf(k)]' = [k \in Job |-> StageOf(k)]
    BY <2>1, SameStages
  <2> QED
    BY <2>1, <2>2 DEF Service!Next, Service!Close
<1>6. CASE Restart
  <2>1. UNCHANGED <<m_jobQueue, m_processing, fresh>> /\ m_running' = TRUE
        /\ Quiescent
    BY <1>6 DEF Restart, Quiescent
  <2>2. m_workers = {} /\ \A p \in Priority : m_jobQueue[p] = <<>>
    BY <2>1 DEF Inv, CancelInv, Quiescent
  <2>3. \A w \in Worker : job[w] = {}
    BY <2>2 DEF Inv, WorkersInv, Busy
  <2>4. m_processing = {} /\ \A j \in Job : ~Queued(j)
    BY <2>2, <2>3 DEF Inv, TypeOK, OneWorkerPerJob, Queued, Waits
  <2>5. \A j \in Job : StageOf(j) \in {"fresh", "gone"}
    BY <2>4 DEF StageOf
  <2>6. [k \in Job |-> StageOf(k)]' = [k \in Job |-> StageOf(k)]
    BY <2>1, SameStages
  <2> QED
    BY <2>1, <2>5, <2>6 DEF Service!Next, Service!Reopen
<1>7. CASE \/ PauseJobs \/ UnPauseJobs \/ CancelQueuedDone
           \/ CancelProcessingDone \/ Drain \/ UNCHANGED vars
  <2>1. UNCHANGED <<m_running, m_jobQueue, m_processing, fresh>>
    BY <1>7 DEF PauseJobs, UnPauseJobs, SetPause, CancelQueuedDone,
       CancelProcessingDone, Drain, vars
  <2> QED
    BY <2>1, SameStages, NoMove
<1> QED
  BY <1>1, <1>2, <1>3, <1>4, <1>5, <1>6, <1>7 DEF Next, Client, CancelJobs, CancelStep

\* CJobManager implements the abstract service: every job it accepts runs at
\* most once, within its limit, and never after it was withdrawn.
THEOREM Implementation == Spec => ImplementsService
<1>1. Init => Service!Init
  BY DEF Init, Service!Init, StageOf
<1>2. Init => FiledInv
  BY DEF Init, FiledInv
<1> QED
  BY InitInv, StepInv, FiledStep, <1>1, <1>2, ServiceStep, PTL
     DEF Spec, ImplementsService, Service!Spec

-----------------------------------------------------------------------------
(* JobQueue: the queue, its jobs' callbacks and the manager together.      *)

HIDE DEF Canceller, Nobody

\* The threads of a queue are apart.
LEMMA CallersApart ==
  /\ Worker \subseteq Caller /\ Thread \subseteq Caller /\ Canceller \in Caller
  /\ Nobody \notin Caller /\ Canceller \notin Worker /\ Canceller \notin Thread
  /\ \A w \in Worker : w \notin Thread
  BY QueueAssumption DEF Caller, Nobody, Canceller

-----------------------------------------------------------------------------
(* The deque of a queue.                                                   *)

Listed(s)   == {s[i] : i \in DOMAIN s}
Distinct(s) == \A i, k \in DOMAIN s : s[i] = s[k] => i = k

\* What a push at either end makes of the deque.
LEMMA PushProperties ==
  ASSUME NEW s \in Seq(Job), Distinct(s), NEW j \in Job, j \notin Listed(s),
         NEW r, r = IF m_lifo THEN Append(s, j) ELSE <<j>> \o s
  PROVE  /\ r \in Seq(Job) /\ Distinct(r) /\ Listed(r) = Listed(s) \union {j}
         /\ Len(r) = Len(s) + 1
<1> DEFINE n == Len(s)
<1>1. n \in Nat /\ DOMAIN s = 1 .. n /\ \A i \in 1 .. n : s[i] \in Job
  OBVIOUS
<1>2. CASE m_lifo
  <2>1. /\ r \in Seq(Job) /\ Len(r) = n + 1 /\ DOMAIN r = 1 .. (n + 1)
        /\ r[n + 1] = j /\ \A i \in 1 .. n : r[i] = s[i]
    BY <1>1, <1>2, AppendProperties
  <2> HIDE DEF n
  <2>2. \A i \in 1 .. (n + 1) : i = n + 1 \/ i \in 1 .. n
    BY <1>1
  <2>3. n + 1 \in 1 .. (n + 1) /\ \A i \in 1 .. n : i \in 1 .. (n + 1) /\ i # n + 1
    BY <1>1
  <2>4. Listed(r) = Listed(s) \union {j}
    BY <1>1, <2>1, <2>2, <2>3 DEF Listed
  <2>5. \A i \in 1 .. n : r[i] # j
    BY <1>1, <2>1 DEF Listed
  <2>6. \A i, k \in 1 .. n : r[i] = r[k] => i = k
    BY <1>1, <2>1 DEF Distinct
  <2>7. ASSUME NEW i \in 1 .. (n + 1), NEW k \in 1 .. (n + 1), r[i] = r[k]
        PROVE  i = k
    <3>1. CASE i = n + 1
      BY <2>1, <2>2, <2>5, <2>7, <3>1
    <3>2. CASE k = n + 1
      BY <2>1, <2>2, <2>5, <2>7, <3>2
    <3> QED
      BY <2>2, <2>6, <2>7, <3>1, <3>2
  <2>8. Distinct(r)
    BY <2>1, <2>7 DEF Distinct
  <2> QED
    BY <2>1, <2>4, <2>8 DEF n
<1>3. CASE ~m_lifo
  <2>1. <<j>> \in Seq(Job) /\ Len(<<j>>) = 1 /\ <<j>>[1] = j
    OBVIOUS
  <2>2. /\ r \in Seq(Job) /\ Len(r) = 1 + n
        /\ \A i \in 1 .. (1 + n) : r[i] = IF i <= 1 THEN <<j>>[i] ELSE s[i - 1]
    BY <1>3, <2>1, ConcatProperties
  <2>3. DOMAIN r = 1 .. (1 + n)
    BY <2>2
  <2> HIDE DEF n
  <2>4. /\ r[1] = j /\ 1 \in 1 .. (1 + n)
        /\ \A i \in 1 .. (1 + n) : i # 1 => i - 1 \in 1 .. n /\ r[i] = s[i - 1]
        /\ \A i \in 1 .. n : i + 1 \in 1 .. (1 + n) /\ r[i + 1] = s[i]
    BY <1>1, <2>1, <2>2
  <2>5. Listed(r) = Listed(s) \union {j}
    <3>1. ASSUME NEW i \in 1 .. (1 + n) PROVE r[i] \in Listed(s) \union {j}
      <4>1. CASE i = 1
        BY <2>4, <4>1
      <4>2. CASE i # 1
        <5>1. i - 1 \in DOMAIN s /\ r[i] = s[i - 1]
          BY <1>1, <2>4, <4>2
        <5> QED
          BY <5>1 DEF Listed
      <4> QED
        BY <4>1, <4>2
    <3>2. ASSUME NEW i \in 1 .. n PROVE \E k \in 1 .. (1 + n) : r[k] = s[i]
      BY <2>4
    <3>3. \E k \in 1 .. (1 + n) : r[k] = j
      BY <2>4
    <3> QED
      BY ONLY <1>1, <2>3, <3>1, <3>2, <3>3 DEF Listed
  <2>6. Distinct(r)
    <3>1. SUFFICES ASSUME NEW i \in 1 .. (1 + n), NEW k \in 1 .. (1 + n), r[i] = r[k]
                   PROVE  i = k
      BY <2>3 DEF Distinct
    <3>2. ASSUME NEW l \in 1 .. (1 + n), l # 1 PROVE r[l] # j
      <4>1. l - 1 \in DOMAIN s /\ r[l] = s[l - 1]
        BY <1>1, <2>4, <3>2
      <4> QED
        BY <4>1 DEF Listed
    <3>3. CASE i # 1 /\ k # 1
      <4>1. i - 1 \in DOMAIN s /\ k - 1 \in DOMAIN s /\ s[i - 1] = s[k - 1]
        BY <1>1, <2>4, <3>1, <3>3
      <4>2. i - 1 = k - 1
        BY <4>1 DEF Distinct
      <4> QED
        BY <1>1, <4>2
    <3> QED
      BY <2>4, <3>1, <3>2, <3>3
  <2> QED
    BY <1>1, <2>2, <2>5, <2>6 DEF n
<1> QED
  BY <1>2, <1>3

\* What an erase makes of it.
LEMMA EraseProperties ==
  ASSUME NEW s \in Seq(Job), Distinct(s), NEW i \in DOMAIN s
  PROVE  /\ EraseAt(s, i) \in Seq(Job) /\ Distinct(EraseAt(s, i))
         /\ Listed(EraseAt(s, i)) = Listed(s) \ {s[i]}
         /\ Len(EraseAt(s, i)) = Len(s) - 1 /\ s[i] \in Listed(s) /\ s[i] \in Job
<1> DEFINE n == Len(s)
           r == EraseAt(s, i)
<1>1. n \in Nat /\ DOMAIN s = 1 .. n /\ i \in 1 .. n /\ \A k \in 1 .. n : s[k] \in Job
  OBVIOUS
<1>2. /\ r \in Seq(Job) /\ DOMAIN r = 1 .. (n - 1)
      /\ \A k \in 1 .. (n - 1) : r[k] = IF k < i THEN s[k] ELSE s[k + 1]
  BY EraseAtSeq
<1>3. Len(r) = n - 1
  <2> HIDE DEF r, n
  <2>1. Len(r) \in Nat /\ DOMAIN r = 1 .. Len(r) /\ n - 1 \in Nat
    BY <1>1, <1>2
  <2> QED
    BY <1>2, <2>1
<1> HIDE DEF n, r
<1>4. /\ \A k \in 1 .. (n - 1) : k < i => k \in 1 .. n /\ k # i /\ r[k] = s[k]
      /\ \A k \in 1 .. (n - 1) : ~(k < i) => k + 1 \in 1 .. n /\ k + 1 # i /\ r[k] = s[k + 1]
      /\ \A k \in 1 .. n : k < i => k \in 1 .. (n - 1)
      /\ \A k \in 1 .. n : ~(k < i) /\ k # i => k - 1 \in 1 .. (n - 1) /\ ~(k - 1 < i)
                                                  /\ r[k - 1] = s[k]
  BY <1>1, <1>2
<1>5. \A k \in 1 .. n : k # i => s[k] # s[i]
  BY <1>1 DEF Distinct
<1>6. \A k \in 1 .. (n - 1) : \E l \in 1 .. n : l # i /\ r[k] = s[l]
  BY <1>4
<1>7. \A l \in 1 .. n : l # i => \E k \in 1 .. (n - 1) : r[k] = s[l]
  BY <1>4
<1>8. Listed(r) = Listed(s) \ {s[i]}
  <2>1. ASSUME NEW k \in 1 .. (n - 1) PROVE r[k] \in Listed(s) /\ r[k] # s[i]
    BY ONLY <1>1, <1>5, <1>6, <2>1 DEF Listed
  <2>2. ASSUME NEW l \in 1 .. n, s[l] # s[i] PROVE \E k \in 1 .. (n - 1) : r[k] = s[l]
    BY <1>7, <2>2
  <2>3. ASSUME NEW x \in Listed(r) PROVE x \in Listed(s) \ {s[i]}
    <3>1. PICK k \in 1 .. (n - 1) : x = r[k]
      BY <1>2, <2>3 DEF Listed
    <3> QED
      BY ONLY <2>1, <3>1
  <2>4. ASSUME NEW x \in Listed(s) \ {s[i]} PROVE x \in Listed(r)
    <3>1. PICK l \in 1 .. n : x = s[l]
      BY <1>1, <2>4 DEF Listed
    <3>2. PICK k \in 1 .. (n - 1) : r[k] = s[l]
      BY <2>2, <2>4, <3>1
    <3> QED
      BY <1>2, <3>1, <3>2 DEF Listed
  <2> QED
    BY ONLY <2>3, <2>4
<1>9. Distinct(r)
  <2>1. SUFFICES ASSUME NEW k \in 1 .. (n - 1), NEW l \in 1 .. (n - 1), r[k] = r[l]
                 PROVE  k = l
    BY <1>2 DEF Distinct
  <2> DEFINE old(x) == IF x < i THEN x ELSE x + 1
  <2>2. \A x \in 1 .. (n - 1) : old(x) \in 1 .. n /\ r[x] = s[old(x)]
    BY <1>4
  <2>3. old(k) = old(l)
    <3> HIDE DEF old
    <3> QED
      BY <1>1, <2>1, <2>2 DEF Distinct
  <2> QED
    BY <1>1, <2>3
<1> QED
  BY <1>1, <1>2, <1>3, <1>8, <1>9 DEF r, n, Listed

\* What QueueNextJob leaves when it takes the last one.
LEMMA FrontProperties ==
  ASSUME NEW s \in Seq(Job), Distinct(s), s # <<>>
  PROVE  /\ Front(s) \in Seq(Job) /\ Distinct(Front(s))
         /\ Listed(Front(s)) = Listed(s) \ {s[Len(s)]}
         /\ Len(Front(s)) = Len(s) - 1 /\ s[Len(s)] \in Listed(s) /\ s[Len(s)] \in Job
<1> DEFINE n == Len(s)
<1>1. n \in Nat /\ n # 0 /\ DOMAIN s = 1 .. n /\ n \in DOMAIN s
  BY EmptySeq
<1>2. 1 \in Int /\ n - 1 \in Int /\ \A k \in 1 .. (n - 1) : s[k] \in Job
  BY <1>1
<1>3. /\ Front(s) \in Seq(Job) /\ Len(Front(s)) = n - 1
      /\ \A k \in 1 .. (n - 1) : Front(s)[k] = s[k]
  <2>1. /\ Front(s) \in Seq(Job)
        /\ Len(Front(s)) = IF 1 <= n - 1 THEN (n - 1) - 1 + 1 ELSE 0
        /\ \A k \in 1 .. (n - 1) - 1 + 1 : Front(s)[k] = s[1 + k - 1]
    BY <1>2, SubSeqProperties DEF Front
  <2> HIDE DEF n
  <2> QED
    BY <1>1, <2>1
<1>4. /\ EraseAt(s, n) \in Seq(Job) /\ DOMAIN EraseAt(s, n) = 1 .. (n - 1)
      /\ \A k \in 1 .. (n - 1) : EraseAt(s, n)[k] = s[k]
  <2>1. /\ EraseAt(s, n) \in Seq(Job) /\ DOMAIN EraseAt(s, n) = 1 .. (n - 1)
        /\ \A k \in 1 .. (n - 1) : EraseAt(s, n)[k] = IF k < n THEN s[k] ELSE s[k + 1]
    BY <1>1, EraseAtSeq
  <2> HIDE DEF n
  <2> QED
    BY <1>1, <2>1
<1>5. DOMAIN Front(s) = 1 .. (n - 1)
  BY <1>3
<1>6. Front(s) = EraseAt(s, n)
  <2>1. Len(EraseAt(s, n)) = n - 1
    BY <1>1, EraseProperties
  <2> QED
    BY <1>3, <1>4, <2>1, SeqEqual
<1> QED
  BY <1>1, <1>6, EraseProperties DEF n

-----------------------------------------------------------------------------
(* The inductive invariant.                                                *)

Notifying(w) == at[w] \in {"next", "done"}

\* What waits was offered and is not given to the manager yet; what is processing
\* was, and the manager still owes the queue its callback.
EntryInv ==
  /\ Job \ offered \subseteq fresh
  /\ Waiting \subseteq fresh /\ Waiting \subseteq offered /\ Distinct(q_jobQueue)
  /\ q_processing \subseteq m_callback
  /\ q_processing \intersect fresh = {} /\ q_processing \intersect freed = {}

\* One thread at a time is in an operation that calls the manager.
SectionInv ==
  /\ \A t \in Caller : at[t] \in {"next", "cancel", "cancelAll"} => q_section = t
  /\ \A t \in Caller : at[t] = "next" => HasNext(q_jobQueue, q_processing)
  /\ \A t \in Caller : at[t] = "cancel" => \E j \in Job : target[t] = {j}

\* The queue has no entry of a job that it was called back for.
NotifyInv ==
  /\ \A w \in Worker : Notifying(w) => pc[w] = "callback"
  /\ \A w \in Worker : Notifying(w) \/ pc[w] \in {"erase", "free"}
                         => job[w] \intersect q_processing = {}
  /\ at[Canceller] \in {"idle", "done"}
  /\ at[Canceller] = "done" =>
       \E j \in Job : target[Canceller] = {j} /\ j \notin q_processing /\ j \notin fresh

\* The manager has a callback only for what is queued or processing there.
CallbackInv == \A j \in m_callback : Queued(j) \/ j \in m_processing

\* And calls it back for what is processing in the queue, or is about to forget it.
OwedInv ==
  \A j \in m_callback \intersect Alone :
    \/ j \in q_processing
    \/ at[Canceller] = "done" /\ j \in target[Canceller]
    \/ \E w \in Worker : j \in job[w] /\ (Notifying(w) \/ pc[w] = "erase")

\* Without a CancelJob the slots are full or one short.
SlotsInv ==
  cancelled = {} =>
    /\ q_section = Nobody /\ q_jobQueue # <<>> => Cardinality(q_processing) >= m_jobsAtOnce
    /\ \A t \in Caller : at[t] = "next" /\ Len(q_jobQueue) > 1
         => Cardinality(q_processing) >= m_jobsAtOnce - 1

QInv ==
  /\ Inv /\ QTypeOK /\ EntriesUnique /\ EntryInv /\ SectionInv /\ NotifyInv
  /\ CallbackInv /\ OwedInv /\ SlotsInv

\* The invariant holds at the beginning.
LEMMA QInitInv == QInit => QInv
<1> SUFFICES ASSUME QInit PROVE QInv
  OBVIOUS
<1>1. Inv
  BY InitInv DEF QInit
<1>2. /\ q_jobQueue = <<>> /\ q_processing = {} /\ Waiting = {} /\ m_callback = {}
      /\ fresh = Job /\ freed = {} /\ offered = {} /\ cancelled = {}
      /\ q_section = Nobody
      /\ at = [t \in Caller |-> "idle"] /\ target = [t \in Caller |-> {}]
      /\ pc = [w \in Worker |-> "none"]
  BY DEF QInit, Init, Waiting
<1>3. <<>> \in Seq(Job) /\ DOMAIN <<>> = {}
  OBVIOUS
<1>4. QTypeOK
  BY <1>1, <1>2, <1>3 DEF QTypeOK, Inv
<1>5. EntriesUnique /\ EntryInv
  BY <1>2, <1>3 DEF EntriesUnique, EntryInv, Distinct
<1>6. SectionInv /\ NotifyInv
  BY <1>2, CallersApart DEF SectionInv, NotifyInv, Notifying
<1>7. CallbackInv /\ OwedInv /\ SlotsInv
  BY <1>2 DEF CallbackInv, OwedInv, SlotsInv
<1> QED
  BY <1>1, <1>4, <1>5, <1>6, <1>7 DEF QInv

-----------------------------------------------------------------------------
(* What a step of the manager alone changes.                               *)

\* The steps of the manager and its workers that make no callback.
Manages ==
  \/ CancelStep \/ Restart
  \/ \E w \in Worker : Serve(w) \/ WaitTimeout(w) \/ DoWork(w)

\* They keep the manager's invariant.
LEMMA ManagesInv == Inv /\ Manages => Inv'
<1> SUFFICES ASSUME Inv, Manages PROVE Inv'
  OBVIOUS
<1>1. CASE CancelStep
  BY <1>1, StepInv DEF Next, CancelJobs
<1>2. CASE Restart
  BY <1>2, StepInv DEF Next
<1>3. ASSUME NEW w \in Worker, Serve(w) \/ WaitTimeout(w) \/ DoWork(w)
      PROVE  Inv'
  BY <1>3, StepInv DEF Next, CJobWorker
<1> QED
  BY <1>1, <1>2, <1>3 DEF Manages

\* What such a step can change of a worker whose callback is made or was made.
Calm(v) ==
  /\ pc[v] = "callback" => pc'[v] = "callback" /\ job'[v] = job[v]
  /\ pc[v] = "erase" =>
       /\ job'[v] = job[v]
       /\ \/ pc'[v] = "erase"
          \/ pc'[v] = "free" /\ m_callback' = m_callback \ job[v]
  /\ pc'[v] = "erase" =>
       /\ job'[v] = job[v]
       /\ pc[v] = "erase" \/ job[v] \intersect m_callback = {}
  /\ pc'[v] = "free" => job'[v] = job[v] /\ pc[v] \in {"erase", "free"}

\* Nothing is given to the manager; what is freed or forgotten was called back for.
LEMMA ManagesFacts ==
  ASSUME Inv, Manages
  PROVE  /\ fresh' = fresh
         /\ \/ freed' = freed
            \/ \E w \in Worker : pc[w] = "free" /\ freed' = freed \union job[w]
         /\ \/ m_callback' = m_callback
            \/ \E w \in Worker : pc[w] = "erase" /\ m_callback' = m_callback \ job[w]
         /\ \A v \in Worker : Calm(v)
<1>1. pc \in [Worker -> Location] /\ job \in [Worker -> SUBSET Job]
  BY DEF Inv, TypeOK
<1>2. CASE CancelStep \/ Restart
  <2>1. UNCHANGED <<fresh, freed, m_callback, pc, job>>
    BY <1>2 DEF CancelStep, Restart, CancelJobsBegin, CancelQueuedDone,
                CancelProcessingDone, Drain
  <2> QED
    BY <2>1 DEF Calm
<1>3. ASSUME NEW w \in Worker, Serve(w) \/ WaitTimeout(w) \/ DoWork(w)
      PROVE  /\ fresh' = fresh
             /\ \/ freed' = freed
                \/ pc[w] = "free" /\ freed' = freed \union job[w]
             /\ \/ m_callback' = m_callback
                \/ pc[w] = "erase" /\ m_callback' = m_callback \ job[w]
             /\ \A v \in Worker : Calm(v)
  <2>1. ASSUME pc[w] \notin {"callback", "erase"}, pc'[w] \notin {"erase", "free"},
               \A v \in Worker : v # w => pc'[v] = pc[v] /\ job'[v] = job[v]
        PROVE  \A v \in Worker : Calm(v)
    BY <2>1 DEF Calm
  <2>2. CASE GetNextJob(w) \/ GetLastJob(w)
    <3>1. /\ UNCHANGED <<fresh, freed, m_callback>>
          /\ pc[w] \in {"get", "last"}
          /\ \E l \in {"work", "towait", "exit"} : pc' = [pc EXCEPT ![w] = l]
      BY <2>2 DEF GetNextJob, GetLastJob, Goto
    <3>2. \A v \in Worker : v # w => job'[v] = job[v]
      BY <1>1, <2>2 DEF GetNextJob, GetLastJob, PopJob, PopNothing
    <3> QED
      BY <1>1, <2>1, <3>1, <3>2
  <2>3. CASE \/ WaitBegin(w) \/ WaitSignalled(w) \/ WaitTimeout(w) \/ DoWork(w)
             \/ RemoveWorker(w)
    <3>1. /\ UNCHANGED <<fresh, freed, m_callback, job>>
          /\ pc[w] \in {"towait", "wait", "work", "exit"}
          /\ \E l \in {"wait", "get", "last", "complete", "none"} :
               pc' = [pc EXCEPT ![w] = l]
      BY <2>3 DEF WaitBegin, WaitSignalled, WaitTimeout, DoWork, RemoveWorker, Goto
    <3> QED
      BY <1>1, <2>1, <3>1
  <2>4. CASE CopyItem(w)
    <3>1. /\ UNCHANGED <<fresh, freed, m_callback>> /\ pc[w] = "complete"
          /\ \/ /\ job' = job /\ job[w] \subseteq m_callback
                /\ pc' = [pc EXCEPT ![w] = "callback"]
             \/ /\ job' = job /\ ~(job[w] \subseteq m_callback)
                /\ pc' = [pc EXCEPT ![w] = "erase"]
             \/ job' = [job EXCEPT ![w] = {}] /\ pc' = [pc EXCEPT ![w] = "get"]
      BY <2>4 DEF CopyItem, Goto
    <3>2. PICK j \in Job : job[w] = {j}
      BY <3>1 DEF Inv, WorkersInv, Busy
    <3>3. CASE job' = job /\ ~(job[w] \subseteq m_callback) /\ pc' = [pc EXCEPT ![w] = "erase"]
      <4>1. job[w] \intersect m_callback = {}
        BY <3>2, <3>3
      <4> QED
        BY <1>1, <3>1, <3>3, <4>1 DEF Calm
    <3>4. CASE \/ job' = job /\ pc' = [pc EXCEPT ![w] = "callback"]
               \/ job' = [job EXCEPT ![w] = {}] /\ pc' = [pc EXCEPT ![w] = "get"]
      BY <1>1, <2>1, <3>1, <3>4
    <3> QED
      BY <3>1, <3>3, <3>4
  <2>5. CASE EraseItem(w)
    BY <1>1, <2>5 DEF EraseItem, Goto, Calm
  <2>6. CASE FreeJob(w)
    <3>1. /\ UNCHANGED <<fresh, m_callback>> /\ pc[w] = "free"
          /\ freed' = freed \union job[w] /\ job' = [job EXCEPT ![w] = {}]
          /\ pc' = [pc EXCEPT ![w] = "get"]
      BY <2>6 DEF FreeJob, Goto
    <3> QED
      BY <1>1, <2>1, <3>1
  <2> QED
    BY <1>3, <2>2, <2>3, <2>4, <2>5, <2>6 DEF Serve
<1> QED
  BY <1>2, <1>3 DEF Manages
-----------------------------------------------------------------------------
(* What the calls that the queue makes change of the manager.              *)

\* Deleting jobs that the manager has not seen keeps its invariant.
LEMMA DeleteFreshInv ==
  ASSUME Inv, NEW S, S \subseteq fresh,
         fresh' = fresh \ S, freed' = freed \union S,
         UNCHANGED <<m_section, m_running, m_pauseJobs, m_jobQueue, m_processing,
                     m_callback, m_workers, m_jobEvent, pc, job, cancelling, notified>>
  PROVE  Inv'
<1>1. TypeOK'
  BY DEF Inv, TypeOK
<1>2. PlacesInv'
  BY DEF Inv, PlacesInv, Queued
<1>3. \A j \in S : ~Queued(j) /\ j \notin m_processing /\ \A w \in Worker : j \notin job[w]
  BY DEF Inv, TypeOK, PlacesInv, OneWorkerPerJob
<1>4. NoDangling'
  BY <1>3 DEF Inv, NoDangling, Queued
<1>5. NoJobLost'
  BY DEF Inv, NoJobLost, Queued
<1>6. WorkersInv' /\ OneWorkerPerJob' /\ CancelInv'
  BY DEF Inv, WorkersInv, OneWorkerPerJob, CancelInv, Quiescent
<1> QED
  BY <1>1, <1>2, <1>4, <1>5, <1>6 DEF Inv

\* AddJob of the manager.
LEMMA AddJobFacts ==
  ASSUME Inv, NEW t, NEW j \in Job, AddJob(t, j)
  PROVE  /\ Inv' /\ j \in fresh /\ fresh' = fresh \ {j} /\ job' = job
         /\ m_processing' = m_processing
         /\ \A v \in Worker : pc'[v] = pc[v] \/ (pc'[v] = "get" /\ pc[v] = "none")
         /\ IF m_running
            THEN /\ freed' = freed /\ m_callback' = m_callback \union {j}
                 /\ \A k \in Job : Queued(k)' <=> Queued(k) \/ k = j
            ELSE freed' = freed \union {j} /\ m_callback' = m_callback /\ m_jobQueue' = m_jobQueue
<1>1. Inv' /\ j \in fresh /\ fresh' = fresh \ {j} /\ job' = job /\ m_processing' = m_processing
  BY AddJobInv DEF AddJob
<1>2. ASSUME NEW v \in Worker PROVE pc'[v] = pc[v] \/ (pc'[v] = "get" /\ pc[v] = "none")
  <2>1. \/ pc' = pc
        \/ \E w \in Worker \ m_workers : pc' = [pc EXCEPT ![w] = "get"]
    BY DEF AddJob, StartWorkers, Goto
  <2>2. \A w \in Worker \ m_workers : pc[w] = "none"
    BY DEF Inv, WorkersInv
  <2> QED
    BY <2>1, <2>2 DEF Inv, TypeOK
<1>3. CASE m_running
  <2>1. /\ freed' = freed /\ m_callback' = m_callback \union ({j} \intersect Listened)
        /\ m_jobQueue' = Pushed(m_jobQueue, PriorityOf[j], j)
    BY <1>3 DEF AddJob
  <2>2. {j} \intersect Listened = {j}
    BY QueueAssumption
  <2>3. /\ m_jobQueue \in [Priority -> Seq(Job)] /\ NoneTwice(m_jobQueue)
        /\ PriorityOf[j] \in Priority /\ ~Waits(m_jobQueue, j)
    BY <1>1, ConstantsAssumption DEF Inv, TypeOK, NoDangling, PlacesInv, Queued
  <2>4. \A k \in Job : Waits(Pushed(m_jobQueue, PriorityOf[j], j), k)
                         <=> Waits(m_jobQueue, k) \/ k = j
    BY <2>3, Enqueue
  <2>5. \A k \in Job : Queued(k)' <=> Queued(k) \/ k = j
    BY <2>1, <2>4 DEF Queued
  <2> QED
    BY <1>1, <1>2, <1>3, <2>1, <2>2, <2>5
<1>4. CASE ~m_running
  BY <1>1, <1>2, <1>4 DEF AddJob
<1> QED
  BY <1>3, <1>4

\* CancelJob of the manager.
LEMMA CancelJobFacts ==
  ASSUME Inv, CallbackInv, NEW t, NEW j \in Job, CancelJob(t, j)
  PROVE  /\ Inv' /\ UNCHANGED <<fresh, job, pc, m_processing>>
         /\ freed' \in {freed, freed \union {j}} /\ m_callback' = m_callback \ {j}
         /\ \A k \in Job : k # j => (Queued(k)' <=> Queued(k))
<1>1. Inv' /\ UNCHANGED <<fresh, job, pc, m_processing>>
  BY CancelJobInv DEF CancelJob
<1>2. CASE CancelQueued(j)
  <2>1. PICK p \in Priority : \E i \in DOMAIN m_jobQueue[p] :
          /\ m_jobQueue[p][i] = j
          /\ m_jobQueue' = Erased(m_jobQueue, p, i)
    BY <1>2 DEF CancelQueued
  <2>2. PICK i \in DOMAIN m_jobQueue[p] :
          m_jobQueue[p][i] = j /\ m_jobQueue' = Erased(m_jobQueue, p, i)
    BY <2>1
  <2>3. m_jobQueue \in [Priority -> Seq(Job)] /\ NoneTwice(m_jobQueue)
    BY DEF Inv, TypeOK, NoDangling
  <2>4. \A k \in Job : Waits(Erased(m_jobQueue, p, i), k) <=> Waits(m_jobQueue, k) /\ k # j
    BY <2>2, <2>3, Dequeue
  <2>5. \A k \in Job : k # j => (Queued(k)' <=> Queued(k))
    BY <2>2, <2>4 DEF Queued
  <2> QED
    BY <1>1, <1>2, <2>5 DEF CancelQueued
<1>3. CASE CancelProcessing(j)
  BY <1>1, <1>3 DEF CancelProcessing, Queued
<1>4. CASE /\ ~Queued(j) /\ j \notin m_processing
           /\ UNCHANGED <<m_jobQueue, freed, m_callback>>
  BY <1>1, <1>4 DEF CallbackInv, Queued
<1> QED
  BY <1>2, <1>3, <1>4 DEF CancelJob

\* OnJobAbort of CancelJobs.
LEMMA OnJobAbortFacts ==
  ASSUME Inv, NEW j \in Job, OnJobAbort(j)
  PROVE  /\ Inv' /\ UNCHANGED <<fresh, job, pc, m_processing>>
         /\ freed' \in {freed, freed \union {j}} /\ m_callback' = m_callback \ {j}
         /\ \A k \in Job : k # j => (Queued(k)' <=> Queued(k))
<1>1. Inv' /\ UNCHANGED <<fresh, job, pc, m_processing>>
  BY OnJobAbortInv DEF OnJobAbort
<1>2. CASE AbortQueued(j)
  <2>1. PICK p \in Priority : /\ NextQueued(p, j)
                              /\ m_jobQueue' = [m_jobQueue EXCEPT ![p] = Tail(@)]
    BY <1>2 DEF AbortQueued
  <2>2. m_jobQueue \in [Priority -> Seq(Job)] /\ NoneTwice(m_jobQueue)
    BY DEF Inv, TypeOK, NoDangling
  <2>3. /\ 1 \in DOMAIN m_jobQueue[p] /\ j = m_jobQueue[p][1]
        /\ Tail(m_jobQueue[p]) = EraseAt(m_jobQueue[p], 1)
    BY <2>1, <2>2, TailErases DEF NextQueued
  <2>4. m_jobQueue' = Erased(m_jobQueue, p, 1)
    BY <2>1, <2>3 DEF Erased
  <2>5. \A k \in Job : Waits(Erased(m_jobQueue, p, 1), k) <=> Waits(m_jobQueue, k) /\ k # j
    BY <2>2, <2>3, Dequeue
  <2>6. \A k \in Job : k # j => (Queued(k)' <=> Queued(k))
    BY <2>4, <2>5 DEF Queued
  <2> QED
    BY <1>1, <1>2, <2>6 DEF AbortQueued
<1>3. CASE AbortProcessing(j) /\ UNCHANGED <<m_jobQueue, freed>>
  BY <1>1, <1>3 DEF AbortProcessing, Queued
<1> QED
  BY <1>2, <1>3 DEF OnJobAbort

\* The steps of the manager alone keep its callbacks to what it has.
LEMMA ManagesCallbacks == Inv /\ CallbackInv /\ Manages => CallbackInv'
<1> SUFFICES ASSUME Inv, CallbackInv, Manages PROVE CallbackInv'
  OBVIOUS
<1>1. CASE CancelStep \/ Restart
  <2>1. UNCHANGED <<m_callback, m_jobQueue, m_processing>>
    BY <1>1 DEF CancelStep, Restart, CancelJobsBegin, CancelQueuedDone,
                CancelProcessingDone, Drain
  <2> QED
    BY <2>1 DEF CallbackInv, Queued
<1>2. ASSUME NEW w \in Worker, Serve(w) \/ WaitTimeout(w) \/ DoWork(w)
      PROVE  CallbackInv'
  <2>1. ASSUME UNCHANGED <<m_callback, m_jobQueue, m_processing>> PROVE CallbackInv'
    BY <2>1 DEF CallbackInv, Queued
  <2>2. CASE EraseItem(w)
    <3>1. /\ m_callback' = m_callback \ job[w] /\ m_processing' = m_processing \ job[w]
          /\ m_jobQueue' = m_jobQueue
      BY <2>2 DEF EraseItem
    <3> QED
      BY <3>1 DEF CallbackInv, Queued
  <2>3. CASE PopJob(w) /\ m_callback' = m_callback
    <3>1. PICK p \in Priority :
            /\ m_jobQueue[p] # <<>>
            /\ m_jobQueue' = [m_jobQueue EXCEPT ![p] = Tail(@)]
            /\ m_processing' = m_processing \union {Head(m_jobQueue[p])}
      BY <2>3 DEF PopJob, Eligible
    <3> DEFINE x == Head(m_jobQueue[p])
    <3>2. m_jobQueue \in [Priority -> Seq(Job)] /\ NoneTwice(m_jobQueue) /\ m_callback \subseteq Job
      BY DEF Inv, TypeOK, NoDangling
    <3>3. /\ 1 \in DOMAIN m_jobQueue[p] /\ x = m_jobQueue[p][1]
          /\ Tail(m_jobQueue[p]) = EraseAt(m_jobQueue[p], 1)
      BY <3>1, <3>2, TailErases
    <3>4. m_jobQueue' = Erased(m_jobQueue, p, 1)
      BY <3>1, <3>3 DEF Erased
    <3>5. \A k \in Job : Waits(Erased(m_jobQueue, p, 1), k) <=> Waits(m_jobQueue, k) /\ k # x
      BY <3>2, <3>3, Dequeue
    <3> HIDE DEF x
    <3> QED
      BY <2>3, <3>1, <3>2, <3>4, <3>5 DEF CallbackInv, Queued, x
  <2>4. CASE GetNextJob(w) \/ GetLastJob(w)
    <3>1. /\ m_callback' = m_callback
          /\ PopJob(w) \/ UNCHANGED <<m_jobQueue, m_processing>>
      BY <2>4 DEF GetNextJob, GetLastJob, PopNothing
    <3> QED
      BY <2>1, <2>3, <3>1
  <2>5. CASE \/ WaitBegin(w) \/ WaitSignalled(w) \/ WaitTimeout(w) \/ DoWork(w)
             \/ RemoveWorker(w) \/ CopyItem(w) \/ FreeJob(w)
    BY <2>1, <2>5 DEF WaitBegin, WaitSignalled, WaitTimeout, DoWork, RemoveWorker,
                      CopyItem, FreeJob
  <2> QED
    BY <1>2, <2>2, <2>4, <2>5 DEF Serve
<1> QED
  BY <1>1, <1>2 DEF Manages
-----------------------------------------------------------------------------
(* What the operations of the queue change, apart from the manager's lists. *)

\* The parts of the invariant in terms of sets.
LEMMA Ranges ==
  ASSUME QInv
  PROVE  /\ Waiting = Listed(q_jobQueue) /\ q_jobQueue \in Seq(Job) /\ Distinct(q_jobQueue)
         /\ Waiting \subseteq Job /\ q_processing \subseteq Job
         /\ q_section \in Caller \union {Nobody}
         /\ at \in [Caller -> {"idle", "next", "done", "cancel", "cancelAll"}]
         /\ target \in [Caller -> SUBSET Job]
         /\ fresh \subseteq Job /\ freed \subseteq Job /\ offered \subseteq Job
         /\ cancelled \subseteq Job /\ m_callback \subseteq Job
         /\ fresh \intersect freed = {}
  BY DEF QInv, QTypeOK, Inv, TypeOK, PlacesInv, EntryInv, Waiting, Listed

\* While a thread has the queue's section or nobody has, no other is in a call.
LEMMA OthersRest ==
  ASSUME QInv, NEW t \in Caller, q_section \in {Nobody, t}
  PROVE  \A v \in Caller : v # t => at[v] \in {"idle", "done"}
<1> SUFFICES ASSUME NEW v \in Caller, v # t, at[v] \notin {"idle", "done"} PROVE FALSE
  OBVIOUS
<1>1. at[v] \in {"next", "cancel", "cancelAll"}
  BY Ranges
<1> QED
  BY <1>1, CallersApart DEF QInv, SectionInv

\* How QueueNextJob is entered.
LEMMA ThenFacts ==
  ASSUME QInv, NEW t \in Caller, NEW rest, ThenQueueNext(t, rest)
  PROVE  /\ \A v \in Caller : v # t => at'[v] = at[v]
         /\ \/ q_section' = t /\ at'[t] = "next" /\ HasNext(q_jobQueue', q_processing')
            \/ /\ q_section' = Nobody /\ at'[t] = rest
               /\ ~HasNext(q_jobQueue', q_processing')
         /\ rest \in {"idle", "done"} =>
              at' \in [Caller -> {"idle", "next", "done", "cancel", "cancelAll"}]
  BY Ranges DEF ThenQueueNext, MoveTo

\* AddJob of the queue.
LEMMA QAddFacts ==
  ASSUME QInv, NEW t \in Thread, NEW j \in Job, QAddJob(t, j)
  PROVE  /\ q_section = Nobody /\ at[t] = "idle"
         /\ j \notin offered /\ offered' = offered \union {j}
         /\ j \in fresh /\ j \notin Waiting /\ j \notin q_processing
         /\ UNCHANGED <<q_processing, target, cancelled, m_section, m_running, m_pauseJobs,
                        m_jobQueue, m_processing, m_callback, m_workers, m_jobEvent, pc, job,
                        cancelling, notified>>
         /\ \/ /\ freed' = freed \union {j} /\ fresh' = fresh \ {j}
               /\ UNCHANGED <<q_section, q_jobQueue, at>>
            \/ /\ Equal(j) \intersect (Waiting \union q_processing) = {}
               /\ q_jobQueue' \in Seq(Job) /\ Distinct(q_jobQueue')
               /\ Listed(q_jobQueue') = Waiting \union {j}
               /\ Len(q_jobQueue') = Len(q_jobQueue) + 1
               /\ UNCHANGED <<freed, fresh>>
               /\ ThenQueueNext(t, "idle")
<1>1. /\ q_section = Nobody /\ at[t] = "idle"
      /\ j \notin offered /\ offered' = offered \union {j}
      /\ UNCHANGED <<q_processing, target, cancelled, m_section, m_running, m_pauseJobs,
                     m_jobQueue, m_processing, m_callback, m_workers, m_jobEvent, pc, job,
                     cancelling, notified>>
  BY DEF QAddJob, Enter
<1>2. j \in fresh /\ j \notin Waiting /\ j \notin q_processing
  BY <1>1 DEF QInv, EntryInv
<1>3. CASE Equal(j) \intersect (Waiting \union q_processing) # {}
  BY <1>1, <1>2, <1>3 DEF QAddJob
<1>4. CASE Equal(j) \intersect (Waiting \union q_processing) = {}
  <2>1. /\ q_jobQueue' = IF m_lifo THEN Append(q_jobQueue, j) ELSE <<j>> \o q_jobQueue
        /\ UNCHANGED <<freed, fresh>> /\ ThenQueueNext(t, "idle")
    BY <1>4 DEF QAddJob
  <2> DEFINE r == IF m_lifo THEN Append(q_jobQueue, j) ELSE <<j>> \o q_jobQueue
  <2>2. /\ r \in Seq(Job) /\ Distinct(r) /\ Listed(r) = Listed(q_jobQueue) \union {j}
        /\ Len(r) = Len(q_jobQueue) + 1
    BY <1>2, PushProperties, Ranges
  <2> HIDE DEF r
  <2>3. q_jobQueue' = r
    BY <2>1 DEF r
  <2> QED
    BY <1>1, <1>2, <1>4, <2>1, <2>2, <2>3, Ranges
<1> QED
  BY <1>3, <1>4

\* One turn of QueueNextJob.
LEMMA QNextFacts ==
  ASSUME QInv, NEW t \in Caller, QueueNextJob(t)
  PROVE  /\ q_section = t /\ at[t] = "next" /\ HasNext(q_jobQueue, q_processing)
         /\ UNCHANGED <<target, offered, cancelled>>
         /\ \E j \in Job :
              /\ AddJob(t, j) /\ j \in Waiting /\ j \in fresh
              /\ q_jobQueue' \in Seq(Job) /\ Distinct(q_jobQueue')
              /\ Listed(q_jobQueue') = Waiting \ {j}
              /\ Len(q_jobQueue') = Len(q_jobQueue) - 1
              /\ IF m_running
                 THEN /\ q_processing' = q_processing \union {j}
                      /\ q_section' = Nobody /\ MoveTo(t, Rest(t))
                 ELSE q_processing' = q_processing /\ ThenQueueNext(t, Rest(t))
<1>1. /\ at[t] = "next" /\ UNCHANGED <<target, offered, cancelled>>
  BY DEF QueueNextJob
<1>2. q_section = t /\ HasNext(q_jobQueue, q_processing)
  BY <1>1 DEF QInv, SectionInv
<1> DEFINE j == q_jobQueue[Len(q_jobQueue)]
<1>3. q_jobQueue # <<>>
  BY <1>2 DEF HasNext
<1>4. /\ AddJob(t, j) /\ q_jobQueue' = Front(q_jobQueue)
      /\ IF m_running
         THEN /\ q_processing' = q_processing \union {j}
              /\ q_section' = Nobody /\ MoveTo(t, Rest(t))
         ELSE q_processing' = q_processing /\ ThenQueueNext(t, Rest(t))
  BY DEF QueueNextJob
<1>5. /\ Front(q_jobQueue) \in Seq(Job) /\ Distinct(Front(q_jobQueue))
      /\ Listed(Front(q_jobQueue)) = Listed(q_jobQueue) \ {j}
      /\ Len(Front(q_jobQueue)) = Len(q_jobQueue) - 1 /\ j \in Listed(q_jobQueue) /\ j \in Job
  BY <1>3, FrontProperties, Ranges
<1>6. j \in Waiting /\ j \in fresh
  BY <1>5, Ranges DEF QInv, EntryInv
<1> HIDE DEF j
<1> QED
  BY <1>1, <1>2, <1>4, <1>5, <1>6, Ranges

\* CancelJob of a job that the queue holds or does not know.
LEMMA QCancelQueuedFacts ==
  ASSUME QInv, NEW t \in Thread, NEW j \in Job, QCancelQueued(t, j)
  PROVE  /\ q_section = Nobody /\ at[t] = "idle"
         /\ UNCHANGED <<q_section, q_processing, at, target, offered, cancelled, m_section,
                        m_running, m_pauseJobs, m_jobQueue, m_processing, m_callback,
                        m_workers, m_jobEvent, pc, job, cancelling, notified>>
         /\ q_jobQueue' \in Seq(Job) /\ Distinct(q_jobQueue')
         /\ q_jobQueue' # <<>> => q_jobQueue # <<>>
         /\ \E K \in SUBSET Waiting :
              /\ Listed(q_jobQueue') = Waiting \ K
              /\ freed' = freed \union K /\ fresh' = fresh \ K
<1>1. /\ q_section = Nobody /\ at[t] = "idle"
      /\ UNCHANGED <<q_section, q_processing, at, target, offered, cancelled, m_section,
                     m_running, m_pauseJobs, m_jobQueue, m_processing, m_callback,
                     m_workers, m_jobEvent, pc, job, cancelling, notified>>
  BY DEF QCancelQueued, Enter
<1>2. ASSUME NEW i \in DOMAIN q_jobQueue, q_jobQueue' = EraseAt(q_jobQueue, i),
             freed' = freed \union {q_jobQueue[i]}, fresh' = fresh \ {q_jobQueue[i]}
      PROVE  /\ q_jobQueue' \in Seq(Job) /\ Distinct(q_jobQueue') /\ q_jobQueue # <<>>
             /\ \E K \in SUBSET Waiting :
                  /\ Listed(q_jobQueue') = Waiting \ K
                  /\ freed' = freed \union K /\ fresh' = fresh \ K
  <2> DEFINE k == q_jobQueue[i]
  <2>1. /\ EraseAt(q_jobQueue, i) \in Seq(Job) /\ Distinct(EraseAt(q_jobQueue, i))
        /\ Listed(EraseAt(q_jobQueue, i)) = Listed(q_jobQueue) \ {k}
        /\ k \in Listed(q_jobQueue)
    BY EraseProperties, Ranges
  <2>2. q_jobQueue # <<>>
    BY <1>2
  <2> HIDE DEF k
  <2>3. {k} \in SUBSET Waiting
    BY <2>1, Ranges
  <2> QED
    BY <1>2, <2>1, <2>2, <2>3, Ranges DEF k
<1>3. CASE UNCHANGED <<q_jobQueue, freed, fresh>>
  <2>1. {} \in SUBSET Waiting
    OBVIOUS
  <2> QED
    BY <1>1, <1>3, <2>1, Ranges
<1> QED
  BY <1>1, <1>2, <1>3 DEF QCancelQueued

\* What the queue has given to the manager can be counted.
LEMMA ProcessingFinite ==
  ASSUME QInv
  PROVE  IsFiniteSet(q_processing) /\ Cardinality(q_processing) \in Nat
<1>1. IsFiniteSet(Job) /\ q_processing \subseteq Job
  BY Ranges, ConstantsAssumption
<1> QED
  BY <1>1, FS_Subset, FS_CardinalityType

-----------------------------------------------------------------------------
(* Each step keeps the invariant.                                          *)

\* The entries of the queue stay unequal when none is new.
LEMMA UniqueKept ==
  ASSUME EntriesUnique, Waiting' \subseteq Waiting,
         q_processing' \subseteq q_processing \union (Waiting \ Waiting')
  PROVE  EntriesUnique'
<1>1. Waiting' \union q_processing' \subseteq Waiting \union q_processing
  OBVIOUS
<1>2. Waiting' \intersect q_processing' = {}
  BY DEF EntriesUnique
<1>3. ASSUME NEW j \in Waiting' \union q_processing'
      PROVE  Equal(j) \intersect (Waiting' \union q_processing') = {j}
  <2>1. Equal(j) \intersect (Waiting \union q_processing) = {j}
    BY <1>1, <1>3 DEF EntriesUnique
  <2> QED
    BY <1>1, <1>3, <2>1
<1> QED
  BY <1>2, <1>3 DEF EntriesUnique, Equal

\* The invariants of the callbacks depend on this part of the state only.
LEMMA OwedKept ==
  ASSUME QInv, m_callback' \subseteq m_callback,
         m_callback' \intersect q_processing \intersect Alone \subseteq q_processing',
         UNCHANGED <<pc, job>>, at'[Canceller] = at[Canceller],
         target'[Canceller] = target[Canceller],
         \A w \in Worker : Notifying(w) => Notifying(w)'
  PROVE  OwedInv'
<1> SUFFICES ASSUME NEW j \in m_callback', j \in Alone
             PROVE  \/ j \in q_processing'
                    \/ at'[Canceller] = "done" /\ j \in target'[Canceller]
                    \/ \E w \in Worker : j \in job'[w] /\ (Notifying(w)' \/ pc'[w] = "erase")
  BY DEF OwedInv, Alone, Equal
<1>1. \/ j \in q_processing
      \/ at[Canceller] = "done" /\ j \in target[Canceller]
      \/ \E w \in Worker : j \in job[w] /\ (Notifying(w) \/ pc[w] = "erase")
  BY DEF QInv, OwedInv
<1> QED
  BY <1>1

\* AddJob of the queue.
LEMMA QAddInv ==
  ASSUME QInv, NEW t \in Thread, NEW j \in Job, QAddJob(t, j)
  PROVE  QInv'
<1>1. /\ q_section = Nobody /\ at[t] = "idle"
      /\ j \notin offered /\ offered' = offered \union {j}
      /\ j \in fresh /\ j \notin Waiting /\ j \notin q_processing
      /\ UNCHANGED <<q_processing, target, cancelled, m_section, m_running, m_pauseJobs,
                     m_jobQueue, m_processing, m_callback, m_workers, m_jobEvent, pc, job,
                     cancelling, notified>>
  BY QAddFacts
<1>2. /\ t \in Caller /\ t # Canceller /\ t # Nobody /\ \A w \in Worker : w # t
      /\ \A v \in Caller : v # t => at[v] \in {"idle", "done"}
  BY <1>1, CallersApart, OthersRest
<1>3. CASE /\ freed' = freed \union {j} /\ fresh' = fresh \ {j}
           /\ UNCHANGED <<q_section, q_jobQueue, at>>
  <2>1. Inv'
    BY <1>1, <1>3, DeleteFreshInv DEF QInv
  <2>2. QTypeOK'
    BY <1>1, <1>3, <2>1 DEF QInv, QTypeOK, Inv
  <2>3. Waiting' = Waiting
    BY <1>3 DEF Waiting
  <2>4. EntriesUnique' /\ EntryInv'
    BY <1>1, <1>3, <2>3, UniqueKept DEF QInv, EntryInv
  <2>5. SectionInv' /\ NotifyInv'
    BY <1>1, <1>3 DEF QInv, SectionInv, NotifyInv, Notifying, HasNext
  <2>6. CallbackInv'
    BY <1>1 DEF QInv, CallbackInv, Queued
  <2>7. OwedInv'
    BY <1>1, <1>3, OwedKept DEF Notifying
  <2>8. SlotsInv'
    BY <1>1, <1>3 DEF QInv, SlotsInv
  <2> QED
    BY <2>1, <2>2, <2>4, <2>5, <2>6, <2>7, <2>8 DEF QInv
<1>4. CASE /\ Equal(j) \intersect (Waiting \union q_processing) = {}
           /\ q_jobQueue' \in Seq(Job) /\ Distinct(q_jobQueue')
           /\ Listed(q_jobQueue') = Waiting \union {j}
           /\ Len(q_jobQueue') = Len(q_jobQueue) + 1
           /\ UNCHANGED <<freed, fresh>>
           /\ ThenQueueNext(t, "idle")
  <2>1. Inv'
    BY <1>1, <1>4, StepInv DEF QInv, vars
  <2>2. /\ \A v \in Caller : v # t => at'[v] = at[v]
        /\ \/ q_section' = t /\ at'[t] = "next" /\ HasNext(q_jobQueue', q_processing')
           \/ q_section' = Nobody /\ at'[t] = "idle" /\ ~HasNext(q_jobQueue', q_processing')
        /\ at' \in [Caller -> {"idle", "next", "done", "cancel", "cancelAll"}]
    BY <1>2, <1>4, ThenFacts
  <2>3. Waiting' = Waiting \union {j}
    BY <1>4 DEF Waiting, Listed
  <2>4. QTypeOK'
    BY <1>1, <1>2, <1>4, <2>1, <2>2 DEF QInv, QTypeOK, Inv
  <2>5. EntriesUnique'
    <3>1. Waiting' \intersect q_processing' = {}
      BY <1>1, <2>3 DEF QInv, EntriesUnique
    <3>2. ASSUME NEW k \in Waiting' \union q_processing'
          PROVE  Equal(k) \intersect (Waiting' \union q_processing') = {k}
      <4>1. CASE k = j
        BY <1>1, <1>4, <2>3, <4>1 DEF Equal
      <4>2. CASE k # j
        <5>1. k \in Waiting \union q_processing
          BY <1>1, <2>3, <3>2, <4>2
        <5>2. k \in Job /\ k \notin Equal(j)
          BY <1>4, <5>1, Ranges
        <5>3. j \notin Equal(k)
          BY <5>2 DEF Equal
        <5>4. Equal(k) \intersect (Waiting \union q_processing) = {k}
          BY <5>1 DEF QInv, EntriesUnique
        <5> QED
          BY <1>1, <2>3, <5>3, <5>4
      <4> QED
        BY <4>1, <4>2
    <3> QED
      BY <3>1, <3>2 DEF EntriesUnique, Equal
  <2>6. EntryInv'
    BY <1>1, <1>4, <2>3 DEF QInv, EntryInv
  <2>7. SectionInv'
    BY <1>1, <1>2, <2>2 DEF QInv, SectionInv
  <2>8. at'[Canceller] = at[Canceller] /\ \A w \in Worker : at'[w] = at[w]
    BY <1>2, <2>2, CallersApart
  <2>9. NotifyInv'
    BY <1>1, <1>4, <2>8 DEF QInv, NotifyInv, Notifying
  <2>10. CallbackInv'
    BY <1>1 DEF QInv, CallbackInv, Queued
  <2>11. OwedInv'
    BY <1>1, <2>8, OwedKept DEF Notifying
  <2>12. SlotsInv'
    <3>1. SUFFICES ASSUME cancelled = {}
                   PROVE  /\ q_section' = Nobody /\ q_jobQueue' # <<>>
                               => Cardinality(q_processing) >= m_jobsAtOnce
                          /\ \A v \in Caller : at'[v] = "next" /\ Len(q_jobQueue') > 1
                               => Cardinality(q_processing) >= m_jobsAtOnce - 1
      BY <1>1 DEF SlotsInv
    <3>2. Cardinality(q_processing) \in Nat /\ m_jobsAtOnce \in Nat
      BY ProcessingFinite, QueueAssumption
    <3>3. q_jobQueue # <<>> => Cardinality(q_processing) >= m_jobsAtOnce
      BY <1>1, <3>1 DEF QInv, SlotsInv
    <3>4. q_section' = Nobody /\ q_jobQueue' # <<>> => Cardinality(q_processing) >= m_jobsAtOnce
      BY <1>1, <1>2, <2>2, <3>2 DEF HasNext
    <3>5. Len(q_jobQueue') > 1 => q_jobQueue # <<>>
      BY <1>4
    <3>6. ASSUME NEW v \in Caller, at'[v] = "next", Len(q_jobQueue') > 1
          PROVE  Cardinality(q_processing) >= m_jobsAtOnce - 1
      BY <3>2, <3>3, <3>5, <3>6
    <3> QED
      BY <3>4, <3>6
  <2> QED
    BY <2>1, <2>4, <2>5, <2>6, <2>7, <2>9, <2>10, <2>11, <2>12 DEF QInv
<1> QED
  BY <1>1, <1>3, <1>4, QAddFacts

\* One turn of QueueNextJob.
LEMMA QNextInv ==
  ASSUME QInv, NEW t \in Thread \union Worker, QueueNextJob(t)
  PROVE  QInv'
<1>1. /\ t \in Caller /\ t # Canceller /\ t # Nobody
  BY CallersApart
<1>2. /\ q_section = t /\ at[t] = "next" /\ HasNext(q_jobQueue, q_processing)
      /\ UNCHANGED <<target, offered, cancelled>>
  BY <1>1, QNextFacts
<1>3. PICK j \in Job :
        /\ AddJob(t, j) /\ j \in Waiting /\ j \in fresh
        /\ q_jobQueue' \in Seq(Job) /\ Distinct(q_jobQueue')
        /\ Listed(q_jobQueue') = Waiting \ {j}
        /\ Len(q_jobQueue') = Len(q_jobQueue) - 1
        /\ IF m_running
           THEN /\ q_processing' = q_processing \union {j}
                /\ q_section' = Nobody /\ MoveTo(t, Rest(t))
           ELSE q_processing' = q_processing /\ ThenQueueNext(t, Rest(t))
  BY <1>1, QNextFacts
<1>4. /\ Inv' /\ fresh' = fresh \ {j} /\ job' = job /\ m_processing' = m_processing
      /\ \A v \in Worker : pc'[v] = pc[v] \/ (pc'[v] = "get" /\ pc[v] = "none")
      /\ IF m_running
         THEN /\ freed' = freed /\ m_callback' = m_callback \union {j}
              /\ \A k \in Job : Queued(k)' <=> Queued(k) \/ k = j
         ELSE freed' = freed \union {j} /\ m_callback' = m_callback /\ m_jobQueue' = m_jobQueue
  BY <1>3, AddJobFacts DEF QInv
<1>5. Waiting' = Waiting \ {j}
  BY <1>3 DEF Waiting, Listed
<1>6. /\ Rest(t) \in {"idle", "done"} /\ (t \in Worker => Rest(t) = "done")
  BY DEF Rest
<1>7. /\ at' \in [Caller -> {"idle", "next", "done", "cancel", "cancelAll"}]
      /\ \A v \in Caller : v # t => at'[v] = at[v] /\ at[v] \in {"idle", "done"}
      /\ \/ /\ q_section' = t /\ at'[t] = "next"
            /\ HasNext(q_jobQueue', q_processing') /\ q_processing' = q_processing
         \/ q_section' = Nobody /\ at'[t] = Rest(t)
  <2>1. \A v \in Caller : v # t => at[v] \in {"idle", "done"}
    BY <1>1, <1>2, OthersRest
  <2>2. CASE m_running
    BY <1>1, <1>3, <1>6, <2>1, <2>2, Ranges DEF MoveTo
  <2>3. CASE ~m_running
    <3>1. q_processing' = q_processing /\ ThenQueueNext(t, Rest(t))
      BY <1>3, <2>3
    <3> QED
      BY <1>1, <1>6, <2>1, <3>1, ThenFacts
  <2> QED
    BY <2>2, <2>3
<1>8. /\ at'[Canceller] = at[Canceller]
      /\ \A w \in Worker : Notifying(w) <=> Notifying(w)'
  BY <1>1, <1>2, <1>6, <1>7, CallersApart DEF Notifying
<1>9. q_processing' \subseteq q_processing \union {j}
  BY <1>3
<1>10. QTypeOK'
  BY <1>1, <1>2, <1>3, <1>4, <1>7, <1>9, Ranges DEF QInv, QTypeOK, Inv
<1>11. EntriesUnique'
  BY <1>3, <1>5, <1>9, UniqueKept DEF QInv
<1>12. EntryInv'
  <2>1. j \in offered /\ j \notin freed
    BY <1>3, Ranges DEF QInv, EntryInv
  <2>2. /\ Job \ offered' \subseteq fresh' /\ Waiting' \subseteq fresh'
        /\ Waiting' \subseteq offered' /\ Distinct(q_jobQueue')
    BY <1>2, <1>3, <1>4, <1>5, <2>1 DEF QInv, EntryInv
  <2>3. CASE m_running
    BY <1>3, <1>4, <2>1, <2>2, <2>3 DEF QInv, EntryInv
  <2>4. CASE ~m_running
    BY <1>3, <1>4, <2>1, <2>2, <2>4 DEF QInv, EntryInv
  <2> QED
    BY <2>3, <2>4
<1>13. SectionInv'
  BY <1>1, <1>2, <1>6, <1>7 DEF QInv, SectionInv
<1>14. NotifyInv'
  <2>1. \A w \in Worker : j \notin job[w]
    BY <1>3 DEF QInv, Inv, PlacesInv
  <2>2. \A w \in Worker : /\ pc'[w] = "callback" <=> pc[w] = "callback"
                          /\ pc'[w] \in {"erase", "free"} <=> pc[w] \in {"erase", "free"}
    BY <1>4
  <2>3. \A w \in Worker : Notifying(w)' => pc'[w] = "callback"
    BY <1>8, <2>2 DEF QInv, NotifyInv
  <2>4. \A w \in Worker : Notifying(w)' \/ pc'[w] \in {"erase", "free"}
                            => job'[w] \intersect q_processing' = {}
    BY <1>4, <1>8, <1>9, <2>1, <2>2 DEF QInv, NotifyInv
  <2>5. /\ at'[Canceller] \in {"idle", "done"}
        /\ at'[Canceller] = "done" =>
             \E k \in Job : target'[Canceller] = {k} /\ k \notin q_processing' /\ k \notin fresh'
    BY <1>2, <1>3, <1>4, <1>8, <1>9 DEF QInv, NotifyInv
  <2> QED
    BY <2>3, <2>4, <2>5 DEF NotifyInv, Notifying
<1>15. CallbackInv'
  <2>1. CASE m_running
    <3>1. SUFFICES ASSUME NEW k \in m_callback' PROVE Queued(k)' \/ k \in m_processing'
      BY DEF CallbackInv
    <3>2. k \in Job /\ (k \in m_callback \/ k = j)
      BY <1>4, <2>1, Ranges
    <3> QED
      BY <1>4, <2>1, <3>2 DEF QInv, CallbackInv
  <2>2. CASE ~m_running
    BY <1>4, <2>2 DEF QInv, CallbackInv, Queued
  <2> QED
    BY <2>1, <2>2
<1>16. OwedInv'
  <2>1. SUFFICES ASSUME NEW k \in m_callback', k \in Alone
                 PROVE  \/ k \in q_processing'
                        \/ at'[Canceller] = "done" /\ k \in target'[Canceller]
                        \/ \E w \in Worker : k \in job'[w] /\ (Notifying(w)' \/ pc'[w] = "erase")
    BY DEF OwedInv, Alone, Equal
  <2>2. CASE k \in m_callback
    <3>1. \/ k \in q_processing
          \/ at[Canceller] = "done" /\ k \in target[Canceller]
          \/ \E w \in Worker : k \in job[w] /\ (Notifying(w) \/ pc[w] = "erase")
      BY <2>1, <2>2 DEF QInv, OwedInv
    <3>2. q_processing \subseteq q_processing'
      BY <1>3
    <3>3. \A w \in Worker : pc[w] = "erase" => pc'[w] = "erase"
      BY <1>4
    <3> QED
      BY <1>2, <1>4, <1>8, <3>1, <3>2, <3>3
  <2>3. CASE k \notin m_callback
    BY <1>3, <1>4, <2>1, <2>3
  <2> QED
    BY <2>2, <2>3
<1>17. SlotsInv'
  <2>1. SUFFICES ASSUME cancelled = {}
                 PROVE  /\ q_section' = Nobody /\ q_jobQueue' # <<>>
                             => Cardinality(q_processing') >= m_jobsAtOnce
                        /\ \A v \in Caller : at'[v] = "next" /\ Len(q_jobQueue') > 1
                             => Cardinality(q_processing') >= m_jobsAtOnce - 1
    BY <1>2 DEF SlotsInv
  <2>2. /\ Cardinality(q_processing) \in Nat /\ m_jobsAtOnce \in Nat
        /\ Len(q_jobQueue) \in Nat /\ Len(q_jobQueue') \in Nat
    BY <1>3, ProcessingFinite, Ranges, QueueAssumption
  <2>3. Len(q_jobQueue) > 1 => Cardinality(q_processing) >= m_jobsAtOnce - 1
    BY <1>1, <1>2, <2>1 DEF QInv, SlotsInv
  <2>4. CASE m_running
    <3>1. Cardinality(q_processing') = Cardinality(q_processing) + 1
      <4>1. j \notin q_processing
        BY <1>3 DEF QInv, EntryInv
      <4> QED
        BY <1>3, <2>4, <4>1, ProcessingFinite, FS_AddElement
    <3>2. q_jobQueue' # <<>> => Len(q_jobQueue') > 0
      BY <1>3, EmptySeq
    <3>3. \A v \in Caller : at'[v] # "next"
      BY <1>1, <1>3, <1>6, <1>7, <2>4, Ranges DEF MoveTo
    <3>4. q_jobQueue' # <<>> => Cardinality(q_processing') >= m_jobsAtOnce
      BY <1>3, <2>2, <2>3, <3>1, <3>2
    <3> QED
      BY <3>3, <3>4
  <2>5. CASE ~m_running
    <3>1. q_processing' = q_processing /\ ThenQueueNext(t, Rest(t))
      BY <1>3, <2>5
    <3>2. q_section' = Nobody => ~HasNext(q_jobQueue', q_processing')
      BY <1>1, <3>1, ThenFacts
    <3>3. q_section' = Nobody /\ q_jobQueue' # <<>>
            => Cardinality(q_processing) >= m_jobsAtOnce
      BY <2>2, <3>1, <3>2 DEF HasNext
    <3>4. Len(q_jobQueue') > 1 => Cardinality(q_processing) >= m_jobsAtOnce - 1
      BY <1>3, <2>2, <2>3
    <3> QED
      BY <3>1, <3>3, <3>4
  <2> QED
    BY <2>4, <2>5
<1> QED
  BY <1>4, <1>10, <1>11, <1>12, <1>13, <1>14, <1>15, <1>16, <1>17 DEF QInv

\* CancelJob of a job that the queue holds or does not know.
LEMMA QCancelQueuedInv ==
  ASSUME QInv, NEW t \in Thread, NEW j \in Job, QCancelQueued(t, j)
  PROVE  QInv'
<1>1. /\ q_section = Nobody /\ at[t] = "idle"
      /\ UNCHANGED <<q_section, q_processing, at, target, offered, cancelled, m_section,
                     m_running, m_pauseJobs, m_jobQueue, m_processing, m_callback,
                     m_workers, m_jobEvent, pc, job, cancelling, notified>>
      /\ q_jobQueue' \in Seq(Job) /\ Distinct(q_jobQueue')
      /\ q_jobQueue' # <<>> => q_jobQueue # <<>>
  BY QCancelQueuedFacts
<1>2. PICK K \in SUBSET Waiting :
        /\ Listed(q_jobQueue') = Waiting \ K
        /\ freed' = freed \union K /\ fresh' = fresh \ K
  BY QCancelQueuedFacts
<1>3. K \subseteq fresh /\ Waiting' = Waiting \ K
  BY <1>2 DEF QInv, EntryInv, Waiting, Listed
<1>4. \A v \in Caller : at[v] # "next"
  BY <1>1, CallersApart DEF QInv, SectionInv
<1>5. Inv'
  BY <1>1, <1>2, <1>3, DeleteFreshInv DEF QInv
<1>6. QTypeOK'
  BY <1>1, <1>5 DEF QInv, QTypeOK, Inv
<1>7. EntriesUnique'
  BY <1>1, <1>3, UniqueKept DEF QInv
<1>8. EntryInv'
  BY <1>1, <1>2, <1>3 DEF QInv, EntryInv
<1>9. SectionInv' /\ NotifyInv'
  BY <1>1, <1>2, <1>4 DEF QInv, SectionInv, NotifyInv, Notifying
<1>10. CallbackInv'
  BY <1>1 DEF QInv, CallbackInv, Queued
<1>11. OwedInv'
  BY <1>1, OwedKept DEF Notifying
<1>12. SlotsInv'
  BY <1>1, <1>4 DEF QInv, SlotsInv
<1> QED
  BY <1>5, <1>6, <1>7, <1>8, <1>9, <1>10, <1>11, <1>12 DEF QInv

\* CancelJob and CancelJobs enter the section of the queue.
LEMMA QCancelEnterInv ==
  ASSUME QInv, NEW t \in Thread,
         QCancelJobsBegin(t) \/ \E j \in Job : QCancelBegin(t, j)
  PROVE  QInv'
<1>1. /\ q_section = Nobody /\ at[t] = "idle" /\ q_section' = t
      /\ UNCHANGED <<vars, q_jobQueue, q_processing, offered, cancelled>>
      /\ \/ /\ target' = [target EXCEPT ![t] = q_processing] /\ MoveTo(t, "cancelAll")
         \/ /\ \E k \in q_processing : target' = [target EXCEPT ![t] = {k}]
            /\ MoveTo(t, "cancel")
  BY DEF QCancelJobsBegin, QCancelBegin, Enter
<1>2. /\ t \in Caller /\ t # Canceller /\ t # Nobody /\ \A w \in Worker : w # t
      /\ \A v \in Caller : v # t => at[v] \in {"idle", "done"}
  BY <1>1, CallersApart, OthersRest
<1>3. /\ at' \in [Caller -> {"idle", "next", "done", "cancel", "cancelAll"}]
      /\ target' \in [Caller -> SUBSET Job]
      /\ \A v \in Caller : v # t => at'[v] = at[v] /\ target'[v] = target[v]
      /\ \/ at'[t] = "cancelAll"
         \/ at'[t] = "cancel" /\ \E k \in Job : target'[t] = {k}
  BY <1>1, <1>2, Ranges DEF MoveTo
<1>4. /\ at'[Canceller] = at[Canceller] /\ target'[Canceller] = target[Canceller]
      /\ \A w \in Worker : at'[w] = at[w]
  BY <1>2, <1>3, CallersApart
<1>5. Inv'
  BY <1>1, StepInv DEF QInv
<1>6. Waiting' = Waiting
  BY <1>1 DEF Waiting
<1>7. QTypeOK'
  BY <1>1, <1>2, <1>3, <1>5 DEF QInv, QTypeOK, Inv
<1>8. EntriesUnique' /\ EntryInv'
  BY <1>1, <1>6, UniqueKept DEF QInv, EntryInv, vars
<1>9. SectionInv'
  BY <1>1, <1>2, <1>3 DEF SectionInv
<1>10. NotifyInv'
  BY <1>1, <1>4 DEF QInv, NotifyInv, Notifying, vars
<1>11. CallbackInv'
  BY <1>1 DEF QInv, CallbackInv, Queued, vars
<1>12. OwedInv'
  BY <1>1, <1>4, OwedKept DEF Notifying, vars
<1>13. SlotsInv'
  BY <1>1, <1>2, <1>3 DEF SlotsInv
<1> QED
  BY <1>5, <1>7, <1>8, <1>9, <1>10, <1>11, <1>12, <1>13 DEF QInv

\* CancelJob of a job that the queue has given to the manager.
LEMMA QCancelProcessingInv ==
  ASSUME QInv, NEW t \in Thread, QCancelProcessing(t)
  PROVE  QInv'
<1>1. /\ at[t] = "cancel" /\ q_processing' = q_processing \ target[t]
      /\ cancelled' = cancelled \union target[t]
      /\ target' = [target EXCEPT ![t] = {}] /\ q_section' = Nobody /\ MoveTo(t, "idle")
      /\ UNCHANGED <<q_jobQueue, offered>>
      /\ \E j \in target[t] : CancelJob(t, j)
  BY DEF QCancelProcessing
<1>2. /\ t \in Caller /\ t # Canceller /\ t # Nobody /\ \A w \in Worker : w # t
  BY CallersApart
<1>3. PICK j \in Job : target[t] = {j}
  BY <1>1, <1>2 DEF QInv, SectionInv
<1>4. CancelJob(t, j)
  BY <1>1, <1>3
<1>5. /\ Inv' /\ UNCHANGED <<fresh, job, pc, m_processing>>
      /\ freed' \subseteq freed \union {j} /\ m_callback' = m_callback \ {j}
      /\ \A k \in Job : k # j => (Queued(k)' <=> Queued(k))
  BY <1>4, CancelJobFacts DEF QInv
<1>6. j \notin fresh
  BY <1>4 DEF CancelJob
<1>7. /\ at' \in [Caller -> {"idle", "next", "done", "cancel", "cancelAll"}]
      /\ target' \in [Caller -> SUBSET Job]
      /\ at'[t] = "idle"
      /\ \A v \in Caller : v # t => at'[v] = at[v] /\ target'[v] = target[v]
  BY <1>1, <1>2, Ranges DEF MoveTo
<1>8. /\ at'[Canceller] = at[Canceller] /\ target'[Canceller] = target[Canceller]
      /\ \A w \in Worker : at'[w] = at[w]
  BY <1>2, <1>7, CallersApart
<1>9. \A v \in Caller : at'[v] \in {"idle", "done"}
  <2>1. q_section = t
    BY <1>1, <1>2 DEF QInv, SectionInv
  <2> QED
    BY <1>2, <1>7, <2>1, OthersRest
<1>10. Waiting' = Waiting
  BY <1>1 DEF Waiting
<1>11. QTypeOK'
  BY <1>1, <1>3, <1>5, <1>7 DEF QInv, QTypeOK, Inv
<1>12. EntriesUnique'
  BY <1>1, <1>10, UniqueKept DEF QInv
<1>13. EntryInv'
  BY <1>1, <1>3, <1>5, <1>6, <1>10 DEF QInv, EntryInv
<1>14. SectionInv'
  BY <1>9 DEF SectionInv
<1>15. NotifyInv'
  BY <1>1, <1>5, <1>8 DEF QInv, NotifyInv, Notifying
<1>16. CallbackInv'
  <2>1. SUFFICES ASSUME NEW k \in m_callback' PROVE Queued(k)' \/ k \in m_processing'
    BY DEF CallbackInv
  <2>2. k \in Job /\ k # j /\ k \in m_callback
    BY <1>5, Ranges
  <2> QED
    BY <1>5, <2>2 DEF QInv, CallbackInv
<1>17. OwedInv'
  BY <1>1, <1>3, <1>5, <1>8, OwedKept DEF Notifying
<1>18. SlotsInv'
  BY <1>1, <1>3 DEF SlotsInv
<1> QED
  BY <1>5, <1>11, <1>12, <1>13, <1>14, <1>15, <1>16, <1>17, <1>18 DEF QInv

\* CancelJobs withdraws one of the jobs it has given to the manager.
LEMMA QCancelJobsNextInv ==
  ASSUME QInv, NEW t \in Thread, QCancelJobsNext(t)
  PROVE  QInv'
<1>1. /\ at[t] = "cancelAll"
      /\ UNCHANGED <<q_section, q_jobQueue, at, target, offered, cancelled>>
      /\ \E j \in q_processing : CancelJob(t, j) /\ q_processing' = q_processing \ {j}
  BY DEF QCancelJobsNext
<1>2. PICK j \in q_processing : CancelJob(t, j) /\ q_processing' = q_processing \ {j}
  BY <1>1
<1>3. j \in Job /\ j \notin fresh
  BY Ranges DEF QInv, EntryInv
<1>4. /\ Inv' /\ UNCHANGED <<fresh, job, pc, m_processing>>
      /\ freed' \subseteq freed \union {j} /\ m_callback' = m_callback \ {j}
      /\ \A k \in Job : k # j => (Queued(k)' <=> Queued(k))
  BY <1>2, <1>3, CancelJobFacts DEF QInv
<1>5. q_section = t /\ t \in Caller /\ t # Nobody
  BY <1>1, CallersApart DEF QInv, SectionInv
<1>6. \A v \in Caller : at[v] # "next"
  BY <1>1, <1>5, OthersRest
<1>7. Waiting' = Waiting
  BY <1>1 DEF Waiting
<1>8. QTypeOK'
  BY <1>1, <1>2, <1>4 DEF QInv, QTypeOK, Inv
<1>9. EntriesUnique'
  BY <1>2, <1>7, UniqueKept DEF QInv
<1>10. EntryInv'
  BY <1>1, <1>2, <1>4, <1>7 DEF QInv, EntryInv
<1>11. SectionInv'
  BY <1>1, <1>6 DEF QInv, SectionInv
<1>12. NotifyInv'
  BY <1>1, <1>2, <1>4 DEF QInv, NotifyInv, Notifying
<1>13. CallbackInv'
  <2>1. SUFFICES ASSUME NEW k \in m_callback' PROVE Queued(k)' \/ k \in m_processing'
    BY DEF CallbackInv
  <2>2. k \in Job /\ k # j /\ k \in m_callback
    BY <1>4, Ranges
  <2> QED
    BY <1>4, <2>2 DEF QInv, CallbackInv
<1>14. OwedInv'
  BY <1>1, <1>2, <1>4, OwedKept DEF Notifying
<1>15. SlotsInv'
  BY <1>1, <1>5, <1>6 DEF SlotsInv
<1> QED
  BY <1>4, <1>8, <1>9, <1>10, <1>11, <1>12, <1>13, <1>14, <1>15 DEF QInv

\* CancelJobs deletes what waits, and leaves.
LEMMA QCancelJobsEndInv ==
  ASSUME QInv, NEW t \in Thread, QCancelJobsEnd(t)
  PROVE  QInv'
<1>1. /\ at[t] = "cancelAll" /\ q_jobQueue' = <<>>
      /\ freed' = freed \union Waiting /\ fresh' = fresh \ Waiting
      /\ cancelled' = cancelled \union target[t]
      /\ target' = [target EXCEPT ![t] = {}] /\ q_section' = Nobody /\ MoveTo(t, "idle")
      /\ UNCHANGED <<m_section, m_running, m_pauseJobs, m_jobQueue, m_processing,
                     m_callback, m_workers, m_jobEvent, pc, job, cancelling, notified,
                     q_processing, offered>>
  BY DEF QCancelJobsEnd
<1>2. /\ t \in Caller /\ t # Canceller /\ t # Nobody /\ \A w \in Worker : w # t
  BY CallersApart
<1>3. Waiting \subseteq fresh /\ Waiting' = {} /\ <<>> \in Seq(Job)
  BY <1>1 DEF QInv, EntryInv, Waiting
<1>4. /\ at' \in [Caller -> {"idle", "next", "done", "cancel", "cancelAll"}]
      /\ target' \in [Caller -> SUBSET Job]
      /\ at'[t] = "idle"
      /\ \A v \in Caller : v # t => at'[v] = at[v] /\ target'[v] = target[v]
  BY <1>1, <1>2, Ranges DEF MoveTo
<1>5. /\ at'[Canceller] = at[Canceller] /\ target'[Canceller] = target[Canceller]
      /\ \A w \in Worker : at'[w] = at[w]
  BY <1>2, <1>4, CallersApart
<1>6. \A v \in Caller : at'[v] \in {"idle", "done"}
  <2>1. q_section = t
    BY <1>1, <1>2 DEF QInv, SectionInv
  <2> QED
    BY <1>2, <1>4, <2>1, OthersRest
<1>7. Inv'
  BY <1>1, <1>3, DeleteFreshInv DEF QInv
<1>8. QTypeOK'
  BY <1>1, <1>2, <1>3, <1>4, <1>7, Ranges DEF QInv, QTypeOK, Inv
<1>9. EntriesUnique'
  BY <1>1, <1>3, UniqueKept DEF QInv
<1>10. EntryInv'
  <2>1. Distinct(q_jobQueue')
    BY <1>1 DEF Distinct
  <2>2. Job \ offered' \subseteq fresh'
    BY <1>1 DEF QInv, EntryInv
  <2>3. q_processing' \intersect fresh' = {} /\ q_processing' \intersect freed' = {}
    BY <1>1, <1>3 DEF QInv, EntryInv
  <2> QED
    BY <1>1, <1>3, <2>1, <2>2, <2>3 DEF QInv, EntryInv
<1>11. SectionInv'
  BY <1>6 DEF SectionInv
<1>12. NotifyInv'
  BY <1>1, <1>5 DEF QInv, NotifyInv, Notifying
<1>13. CallbackInv'
  BY <1>1 DEF QInv, CallbackInv, Queued
<1>14. OwedInv'
  BY <1>1, <1>5, OwedKept DEF Notifying
<1>15. SlotsInv'
  BY <1>1, <1>6 DEF SlotsInv
<1> QED
  BY <1>7, <1>8, <1>9, <1>10, <1>11, <1>12, <1>13, <1>14, <1>15 DEF QInv

\* A notification takes at most one entry from what is processing.
LEMMA EraseEqual ==
  ASSUME QInv, NEW j \in Job
  PROVE  /\ j \in Equal(j) /\ (j \in Alone => Equal(j) = {j})
         /\ \A k \in Alone : k \in Equal(j) => k = j
         /\ Cardinality(q_processing \ Equal(j)) \in Nat
         /\ Cardinality(q_processing \ Equal(j)) >= Cardinality(q_processing) - 1
<1>1. j \in Equal(j) /\ (j \in Alone => Equal(j) = {j})
  BY DEF Equal, Alone
<1>2. ASSUME NEW k \in Alone, k \in Equal(j) PROVE k = j
  <2>1. j \in Equal(k) /\ Equal(k) = {k}
    BY <1>2 DEF Equal, Alone
  <2> QED
    BY <2>1
<1>3. IsFiniteSet(q_processing) /\ Cardinality(q_processing) \in Nat
  BY ProcessingFinite
<1>4. CASE q_processing \intersect Equal(j) = {}
  <2>1. q_processing \ Equal(j) = q_processing
    BY <1>4
  <2> QED
    BY <1>1, <1>2, <1>3, <2>1
<1>5. ASSUME NEW k \in q_processing, k \in Equal(j)
      PROVE  /\ Cardinality(q_processing \ Equal(j)) \in Nat
             /\ Cardinality(q_processing \ Equal(j)) >= Cardinality(q_processing) - 1
  <2>1. Equal(j) = Equal(k)
    BY <1>5 DEF Equal
  <2>2. Equal(k) \intersect (Waiting \union q_processing) = {k}
    BY DEF QInv, EntriesUnique
  <2>3. q_processing \ Equal(j) = q_processing \ {k}
    BY <1>5, <2>1, <2>2
  <2>4. /\ IsFiniteSet(q_processing \ {k})
        /\ Cardinality(q_processing \ {k}) = Cardinality(q_processing) - 1
    BY <1>3, <1>5, FS_RemoveElement
  <2>5. Cardinality(q_processing \ {k}) \in Nat
    BY <2>4, FS_CardinalityType
  <2> QED
    BY <1>3, <2>3, <2>4, <2>5
<1> QED
  BY <1>1, <1>2, <1>4, <1>5

\* OnJobNotify, up to the next job it asks for.
LEMMA OnJobNotifyInv ==
  ASSUME QInv, NEW w \in Worker, OnJobNotify(w)
  PROVE  QInv'
<1>1. /\ pc[w] = "callback" /\ q_section = Nobody /\ at[w] = "idle"
      /\ q_processing' = q_processing \ UNION {Equal(k) : k \in job[w]}
      /\ UNCHANGED <<vars, q_jobQueue, target, offered, cancelled>>
      /\ ThenQueueNext(w, "done")
  BY DEF OnJobNotify, Enter
<1>2. PICK j \in Job : job[w] = {j}
  BY <1>1 DEF QInv, Inv, WorkersInv, Busy
<1>3. q_processing' = q_processing \ Equal(j)
  BY <1>1, <1>2
<1>4. /\ w \in Caller /\ w # Canceller /\ w # Nobody /\ Canceller \in Caller
      /\ \A v \in Caller : v # w => at[v] \in {"idle", "done"}
  BY <1>1, CallersApart, OthersRest
<1>5. /\ \A v \in Caller : v # w => at'[v] = at[v]
      /\ \/ q_section' = w /\ at'[w] = "next" /\ HasNext(q_jobQueue', q_processing')
         \/ q_section' = Nobody /\ at'[w] = "done" /\ ~HasNext(q_jobQueue', q_processing')
      /\ at' \in [Caller -> {"idle", "next", "done", "cancel", "cancelAll"}]
  BY <1>1, <1>4, ThenFacts
<1>6. /\ at'[Canceller] = at[Canceller] /\ Notifying(w)'
      /\ \A v \in Worker : v # w => (Notifying(v)' <=> Notifying(v))
  BY <1>4, <1>5, CallersApart DEF Notifying
<1>7. Inv'
  BY <1>1, StepInv DEF QInv
<1>8. Waiting' = Waiting
  BY <1>1 DEF Waiting
<1>9. QTypeOK'
  BY <1>1, <1>3, <1>4, <1>5, <1>7, Ranges DEF QInv, QTypeOK, Inv
<1>10. EntriesUnique'
  BY <1>3, <1>8, UniqueKept DEF QInv
<1>11. EntryInv'
  BY <1>1, <1>3, <1>8 DEF QInv, EntryInv, vars
<1>12. SectionInv'
  BY <1>1, <1>4, <1>5 DEF QInv, SectionInv
<1>13. NotifyInv'
  <2>1. UNCHANGED <<pc, job, fresh>>
    BY <1>1 DEF vars
  <2>2. j \notin q_processing'
    BY <1>3, EraseEqual
  <2>3. \A v \in Worker : Notifying(v)' => pc'[v] = "callback"
    BY <1>1, <1>6, <2>1 DEF QInv, NotifyInv
  <2>4. \A v \in Worker : Notifying(v)' \/ pc'[v] \in {"erase", "free"}
                            => job'[v] \intersect q_processing' = {}
    BY <1>2, <1>3, <1>6, <2>1, <2>2 DEF QInv, NotifyInv
  <2>5. /\ at'[Canceller] \in {"idle", "done"}
        /\ at'[Canceller] = "done" =>
             \E k \in Job : target'[Canceller] = {k} /\ k \notin q_processing' /\ k \notin fresh'
    BY <1>1, <1>3, <1>6, <2>1 DEF QInv, NotifyInv
  <2> QED
    BY <2>3, <2>4, <2>5 DEF NotifyInv, Notifying
<1>14. CallbackInv'
  BY <1>1 DEF QInv, CallbackInv, Queued, vars
<1>15. OwedInv'
  <2>1. SUFFICES ASSUME NEW k \in m_callback', k \in Alone
                 PROVE  \/ k \in q_processing'
                        \/ at'[Canceller] = "done" /\ k \in target'[Canceller]
                        \/ \E v \in Worker : k \in job'[v] /\ (Notifying(v)' \/ pc'[v] = "erase")
    BY DEF OwedInv, Alone, Equal
  <2>2. UNCHANGED <<pc, job, m_callback>>
    BY <1>1 DEF vars
  <2>3. \/ k \in q_processing
        \/ at[Canceller] = "done" /\ k \in target[Canceller]
        \/ \E v \in Worker : k \in job[v] /\ (Notifying(v) \/ pc[v] = "erase")
    BY <2>1, <2>2 DEF QInv, OwedInv
  <2>4. k \in q_processing => k \in q_processing' \/ k = j
    BY <1>3, <2>1, EraseEqual
  <2> QED
    BY <1>1, <1>2, <1>6, <2>2, <2>3, <2>4
<1>16. SlotsInv'
  <2>1. SUFFICES ASSUME cancelled = {}
                 PROVE  /\ q_section' = Nobody /\ q_jobQueue # <<>>
                             => Cardinality(q_processing') >= m_jobsAtOnce
                        /\ \A v \in Caller : at'[v] = "next" /\ Len(q_jobQueue) > 1
                             => Cardinality(q_processing') >= m_jobsAtOnce - 1
    BY <1>1 DEF SlotsInv
  <2>2. /\ Cardinality(q_processing') \in Nat /\ Cardinality(q_processing) \in Nat
        /\ m_jobsAtOnce \in Nat
        /\ Cardinality(q_processing') >= Cardinality(q_processing) - 1
    BY <1>3, EraseEqual, ProcessingFinite, QueueAssumption
  <2>3. q_section' = Nobody /\ q_jobQueue # <<>> => Cardinality(q_processing') >= m_jobsAtOnce
    BY <1>1, <1>4, <1>5, <2>2 DEF HasNext
  <2>4. q_jobQueue # <<>> => Cardinality(q_processing) >= m_jobsAtOnce
    BY <1>1, <2>1 DEF QInv, SlotsInv
  <2>5. Len(q_jobQueue) > 1 => q_jobQueue # <<>>
    OBVIOUS
  <2>6. Len(q_jobQueue) > 1 => Cardinality(q_processing') >= m_jobsAtOnce - 1
    BY <2>2, <2>4, <2>5
  <2> QED
    BY <2>3, <2>6
<1> QED
  BY <1>7, <1>9, <1>10, <1>11, <1>12, <1>13, <1>14, <1>15, <1>16 DEF QInv

\* The callback returns to the manager's worker.
LEMMA OnJobNotifiedInv ==
  ASSUME QInv, NEW w \in Worker, OnJobNotified(w)
  PROVE  QInv'
<1>1. /\ at[w] = "done" /\ CallListener(w) /\ MoveTo(w, "idle")
      /\ UNCHANGED <<q_section, q_jobQueue, q_processing, target, offered, cancelled>>
  BY DEF OnJobNotified
<1>2. /\ pc[w] = "callback" /\ pc' = [pc EXCEPT ![w] = "erase"]
      /\ UNCHANGED <<m_jobQueue, m_processing, m_callback, job, fresh, freed>>
  BY <1>1 DEF CallListener, Goto
<1>3. w \in Caller /\ w # Canceller /\ w # Nobody /\ Canceller \in Caller
  BY CallersApart
<1>4. /\ at' \in [Caller -> {"idle", "next", "done", "cancel", "cancelAll"}]
      /\ at'[w] = "idle" /\ \A v \in Caller : v # w => at'[v] = at[v]
  BY <1>1, <1>3, Ranges DEF MoveTo
<1>5. /\ at'[Canceller] = at[Canceller] /\ Notifying(w) /\ ~Notifying(w)'
      /\ \A v \in Worker : v # w => (Notifying(v)' <=> Notifying(v))
  BY <1>1, <1>3, <1>4, CallersApart DEF Notifying
<1>6. pc'[w] = "erase" /\ \A v \in Worker : v # w => pc'[v] = pc[v]
  BY <1>2 DEF QInv, Inv, TypeOK
<1>7. Inv'
  BY <1>1, IdleStepInv DEF QInv
<1>8. Waiting' = Waiting
  BY <1>1 DEF Waiting
<1>9. QTypeOK'
  BY <1>1, <1>4, <1>7 DEF QInv, QTypeOK, Inv
<1>10. EntriesUnique' /\ EntryInv'
  BY <1>1, <1>2, <1>8, UniqueKept DEF QInv, EntryInv
<1>11. SectionInv'
  BY <1>1, <1>4 DEF QInv, SectionInv
<1>12. NotifyInv'
  <2>1. \A v \in Worker : Notifying(v)' => pc'[v] = "callback"
    BY <1>5, <1>6 DEF QInv, NotifyInv
  <2>2. \A v \in Worker : Notifying(v)' \/ pc'[v] \in {"erase", "free"}
                            => job'[v] \intersect q_processing' = {}
    BY <1>1, <1>2, <1>5, <1>6 DEF QInv, NotifyInv
  <2>3. /\ at'[Canceller] \in {"idle", "done"}
        /\ at'[Canceller] = "done" =>
             \E k \in Job : target'[Canceller] = {k} /\ k \notin q_processing' /\ k \notin fresh'
    BY <1>1, <1>2, <1>5 DEF QInv, NotifyInv
  <2> QED
    BY <2>1, <2>2, <2>3 DEF NotifyInv, Notifying
<1>13. CallbackInv'
  BY <1>2 DEF QInv, CallbackInv, Queued
<1>14. OwedInv'
  <2>1. SUFFICES ASSUME NEW k \in m_callback', k \in Alone
                 PROVE  \/ k \in q_processing'
                        \/ at'[Canceller] = "done" /\ k \in target'[Canceller]
                        \/ \E v \in Worker : k \in job'[v] /\ (Notifying(v)' \/ pc'[v] = "erase")
    BY DEF OwedInv, Alone, Equal
  <2>2. \/ k \in q_processing
        \/ at[Canceller] = "done" /\ k \in target[Canceller]
        \/ \E v \in Worker : k \in job[v] /\ (Notifying(v) \/ pc[v] = "erase")
    BY <1>2, <2>1 DEF QInv, OwedInv
  <2>3. \A v \in Worker : Notifying(v) \/ pc[v] = "erase" => Notifying(v)' \/ pc'[v] = "erase"
    BY <1>5, <1>6
  <2> QED
    BY <1>1, <1>2, <1>5, <2>2, <2>3
<1>15. SlotsInv'
  BY <1>1, <1>4 DEF QInv, SlotsInv
<1> QED
  BY <1>7, <1>9, <1>10, <1>11, <1>12, <1>13, <1>14, <1>15 DEF QInv

\* What CancelJobs aborts is no new job.
LEMMA AbortDueFacts ==
  ASSUME Inv, NEW j \in Job, AbortDue(j)
  PROVE  j \notin fresh
<1>1. CASE \E p \in Priority : NextQueued(p, j)
  <2>1. PICK p \in Priority : m_jobQueue[p] # <<>> /\ j = Head(m_jobQueue[p])
    BY <1>1 DEF NextQueued
  <2>2. m_jobQueue[p] \in Seq(Job)
    BY DEF Inv, TypeOK
  <2>3. 1 \in DOMAIN m_jobQueue[p] /\ m_jobQueue[p][1] = j
    BY <2>1, <2>2, TailErases
  <2>4. Queued(j)
    BY <2>3 DEF Queued, Waits
  <2> QED
    BY <2>4 DEF Inv, PlacesInv
<1>2. CASE j \in m_processing
  <2>1. \E w \in Worker : j \in job[w]
    BY <1>2 DEF Inv, OneWorkerPerJob
  <2> QED
    BY <2>1 DEF Inv, PlacesInv
<1> QED
  BY <1>1, <1>2 DEF AbortDue

\* OnJobAbort in the queue: the stopped manager takes nothing that it offers.
LEMMA NotifyAbortedInv ==
  ASSUME QInv, NEW j \in Job, NotifyAborted(j)
  PROVE  QInv'
<1> DEFINE all == HasNext(q_jobQueue, q_processing')
           K   == IF all THEN Waiting ELSE {}
<1>1. /\ q_section = Nobody /\ at[Canceller] = "idle" /\ AbortDue(j)
      /\ q_processing' = q_processing \ Equal(j)
      /\ q_jobQueue' = IF all THEN <<>> ELSE q_jobQueue
      /\ freed' = (IF all THEN freed \union Waiting ELSE freed)
      /\ fresh' = (IF all THEN fresh \ Waiting ELSE fresh)
      /\ target' = [target EXCEPT ![Canceller] = {j}] /\ MoveTo(Canceller, "done")
      /\ UNCHANGED <<m_section, m_running, m_pauseJobs, m_jobQueue, m_processing,
                     m_callback, m_workers, m_jobEvent, pc, job, cancelling, notified,
                     q_section, offered, cancelled>>
  BY DEF NotifyAborted, Enter
<1>2. j \notin fresh
  BY <1>1, AbortDueFacts DEF QInv
<1>3. freed' = freed \union K /\ fresh' = fresh \ K
  BY <1>1
<1>4. /\ q_jobQueue' \in Seq(Job) /\ Distinct(q_jobQueue') /\ Waiting' = Waiting \ K
  <2>1. CASE all
    <3>1. q_jobQueue' = <<>> /\ Waiting' = {} /\ <<>> \in Seq(Job)
      BY <1>1, <2>1 DEF Waiting
    <3> QED
      BY <2>1, <3>1 DEF Distinct
  <2>2. CASE ~all
    <3>1. q_jobQueue' = q_jobQueue /\ Waiting' = Waiting
      BY <1>1, <2>2 DEF Waiting
    <3> QED
      BY <2>2, <3>1, Ranges
  <2> QED
    BY <2>1, <2>2
<1>5. K \subseteq Waiting /\ K \subseteq fresh
  BY DEF QInv, EntryInv
<1>6. q_jobQueue' # <<>> => q_jobQueue # <<>> /\ ~HasNext(q_jobQueue, q_processing')
  BY <1>1
<1> HIDE DEF all, K
<1>7. Canceller \in Caller /\ \A w \in Worker : w \in Caller /\ w # Canceller
  BY CallersApart
<1>8. /\ at' \in [Caller -> {"idle", "next", "done", "cancel", "cancelAll"}]
      /\ target' \in [Caller -> SUBSET Job]
      /\ at'[Canceller] = "done" /\ target'[Canceller] = {j}
      /\ \A v \in Caller : v # Canceller => at'[v] = at[v] /\ target'[v] = target[v]
  BY <1>1, <1>7, Ranges DEF MoveTo
<1>9. \A w \in Worker : Notifying(w)' <=> Notifying(w)
  BY <1>7, <1>8 DEF Notifying
<1>10. \A v \in Caller : at'[v] \in {"idle", "done"}
  BY <1>1, <1>7, <1>8, OthersRest
<1>11. Inv'
  BY <1>1, <1>3, <1>5, DeleteFreshInv DEF QInv
<1>12. QTypeOK'
  BY <1>1, <1>4, <1>8, <1>11, Ranges DEF QInv, QTypeOK, Inv
<1>13. EntriesUnique'
  BY <1>1, <1>4, UniqueKept DEF QInv
<1>14. EntryInv'
  BY <1>1, <1>3, <1>4, <1>5 DEF QInv, EntryInv
<1>15. SectionInv'
  BY <1>10 DEF SectionInv
<1>16. NotifyInv'
  <2>1. j \notin q_processing' /\ j \notin fresh'
    BY <1>1, <1>2, <1>3, EraseEqual
  <2>2. \A w \in Worker : Notifying(w)' => pc'[w] = "callback"
    BY <1>1, <1>9 DEF QInv, NotifyInv
  <2>3. \A w \in Worker : Notifying(w)' \/ pc'[w] \in {"erase", "free"}
                            => job'[w] \intersect q_processing' = {}
    BY <1>1, <1>9 DEF QInv, NotifyInv
  <2> QED
    BY <1>8, <2>1, <2>2, <2>3 DEF NotifyInv, Notifying
<1>17. CallbackInv'
  BY <1>1 DEF QInv, CallbackInv, Queued
<1>18. OwedInv'
  <2>1. SUFFICES ASSUME NEW k \in m_callback', k \in Alone
                 PROVE  \/ k \in q_processing'
                        \/ at'[Canceller] = "done" /\ k \in target'[Canceller]
                        \/ \E w \in Worker : k \in job'[w] /\ (Notifying(w)' \/ pc'[w] = "erase")
    BY DEF OwedInv, Alone, Equal
  <2>2. \/ k \in q_processing
        \/ \E w \in Worker : k \in job[w] /\ (Notifying(w) \/ pc[w] = "erase")
    BY <1>1, <2>1 DEF QInv, OwedInv
  <2>3. k \in q_processing => k \in q_processing' \/ k = j
    BY <1>1, <2>1, EraseEqual
  <2> QED
    BY <1>1, <1>8, <1>9, <2>2, <2>3
<1>19. SlotsInv'
  <2>1. SUFFICES ASSUME cancelled = {}, q_jobQueue' # <<>>
                 PROVE  Cardinality(q_processing') >= m_jobsAtOnce
    BY <1>1, <1>10 DEF SlotsInv
  <2>2. Cardinality(q_processing') \in Nat /\ m_jobsAtOnce \in Nat
    BY <1>1, EraseEqual, QueueAssumption
  <2> QED
    BY <1>6, <2>1, <2>2 DEF HasNext
<1> QED
  BY <1>11, <1>12, <1>13, <1>14, <1>15, <1>16, <1>17, <1>18, <1>19 DEF QInv

\* The manager forgets or deletes the aborted job.
LEMMA AbortedInv ==
  ASSUME QInv, NEW j \in Job, Aborted(j)
  PROVE  QInv'
<1>1. /\ at[Canceller] = "done" /\ j \in target[Canceller] /\ OnJobAbort(j)
      /\ target' = [target EXCEPT ![Canceller] = {}] /\ MoveTo(Canceller, "idle")
      /\ UNCHANGED <<q_section, q_jobQueue, q_processing, offered, cancelled>>
  BY DEF Aborted
<1>2. j \notin q_processing /\ j \notin fresh /\ target[Canceller] = {j}
  BY <1>1 DEF QInv, NotifyInv
<1>3. /\ Inv' /\ UNCHANGED <<fresh, job, pc, m_processing>>
      /\ freed' \subseteq freed \union {j} /\ m_callback' = m_callback \ {j}
      /\ \A k \in Job : k # j => (Queued(k)' <=> Queued(k))
  BY <1>1, OnJobAbortFacts DEF QInv
<1>4. Canceller \in Caller /\ \A w \in Worker : w \in Caller /\ w # Canceller
  BY CallersApart
<1>5. /\ at' \in [Caller -> {"idle", "next", "done", "cancel", "cancelAll"}]
      /\ target' \in [Caller -> SUBSET Job]
      /\ at'[Canceller] = "idle"
      /\ \A v \in Caller : v # Canceller => at'[v] = at[v] /\ target'[v] = target[v]
  BY <1>1, <1>4, Ranges DEF MoveTo
<1>6. \A w \in Worker : Notifying(w)' <=> Notifying(w)
  BY <1>4, <1>5 DEF Notifying
<1>7. Waiting' = Waiting
  BY <1>1 DEF Waiting
<1>8. QTypeOK'
  BY <1>1, <1>3, <1>5 DEF QInv, QTypeOK, Inv
<1>9. EntriesUnique'
  BY <1>1, <1>7, UniqueKept DEF QInv
<1>10. EntryInv'
  BY <1>1, <1>2, <1>3, <1>7 DEF QInv, EntryInv
<1>11. SectionInv'
  BY <1>1, <1>5 DEF QInv, SectionInv
<1>12. NotifyInv'
  BY <1>1, <1>3, <1>5, <1>6 DEF QInv, NotifyInv, Notifying
<1>13. CallbackInv'
  <2>1. SUFFICES ASSUME NEW k \in m_callback' PROVE Queued(k)' \/ k \in m_processing'
    BY DEF CallbackInv
  <2>2. k \in Job /\ k # j /\ k \in m_callback
    BY <1>3, Ranges
  <2> QED
    BY <1>3, <2>2 DEF QInv, CallbackInv
<1>14. OwedInv'
  <2>1. SUFFICES ASSUME NEW k \in m_callback', k \in Alone
                 PROVE  \/ k \in q_processing'
                        \/ \E w \in Worker : k \in job'[w] /\ (Notifying(w)' \/ pc'[w] = "erase")
    BY DEF OwedInv, Alone, Equal
  <2>2. k # j /\ k \in m_callback
    BY <1>3
  <2>3. \/ k \in q_processing
        \/ \E w \in Worker : k \in job[w] /\ (Notifying(w) \/ pc[w] = "erase")
    BY <1>2, <2>1, <2>2 DEF QInv, OwedInv
  <2> QED
    BY <1>1, <1>3, <1>6, <2>3
<1>15. SlotsInv'
  BY <1>1, <1>5 DEF QInv, SlotsInv
<1> QED
  BY <1>3, <1>8, <1>9, <1>10, <1>11, <1>12, <1>13, <1>14, <1>15 DEF QInv

\* The steps of the manager and its workers that call nobody back.
LEMMA QManagesInv ==
  ASSUME QInv, Manages, UNCHANGED qvars
  PROVE  QInv'
<1>1. UNCHANGED <<q_section, q_jobQueue, q_processing, at, target, offered, cancelled>>
  BY DEF qvars
<1>2. Inv' /\ CallbackInv'
  BY ManagesInv, ManagesCallbacks DEF QInv
<1>3. /\ fresh' = fresh
      /\ \/ freed' = freed
         \/ \E w \in Worker : pc[w] = "free" /\ freed' = freed \union job[w]
      /\ \/ m_callback' = m_callback
         \/ \E w \in Worker : pc[w] = "erase" /\ m_callback' = m_callback \ job[w]
      /\ \A v \in Worker : Calm(v)
  BY ManagesFacts DEF QInv
<1>4. \A w \in Worker : pc[w] \in {"erase", "free"} => job[w] \intersect q_processing = {}
  BY DEF QInv, NotifyInv
<1>5. Waiting' = Waiting /\ \A w \in Worker : Notifying(w)' <=> Notifying(w)
  BY <1>1 DEF Waiting, Notifying
<1>6. QTypeOK'
  BY <1>1, <1>2 DEF QInv, QTypeOK, Inv
<1>7. EntriesUnique' /\ SectionInv' /\ SlotsInv'
  BY <1>1, <1>5, UniqueKept DEF QInv, SectionInv, SlotsInv
<1>8. EntryInv'
  <2>1. q_processing \subseteq m_callback'
    BY <1>3, <1>4 DEF QInv, EntryInv
  <2>2. q_processing \intersect freed' = {}
    BY <1>3, <1>4 DEF QInv, EntryInv
  <2> QED
    BY <1>1, <1>3, <1>5, <2>1, <2>2 DEF QInv, EntryInv
<1>9. NotifyInv'
  <2>1. ASSUME NEW w \in Worker, Notifying(w)'
        PROVE  pc'[w] = "callback" /\ job'[w] \intersect q_processing = {}
    <3>1. pc[w] = "callback" /\ job[w] \intersect q_processing = {}
      BY <1>5, <2>1 DEF QInv, NotifyInv
    <3> QED
      BY <1>3, <3>1 DEF Calm
  <2>2. ASSUME NEW w \in Worker, pc'[w] \in {"erase", "free"}
        PROVE  job'[w] \intersect q_processing = {}
    <3>1. /\ job'[w] = job[w]
          /\ pc[w] \in {"erase", "free"} \/ job[w] \intersect m_callback = {}
      BY <1>3, <2>2 DEF Calm
    <3>2. job[w] \intersect m_callback = {} => job[w] \intersect q_processing = {}
      BY DEF QInv, EntryInv
    <3> QED
      BY <1>4, <3>1, <3>2
  <2>3. /\ at'[Canceller] \in {"idle", "done"}
        /\ at'[Canceller] = "done" =>
             \E j \in Job : target'[Canceller] = {j} /\ j \notin q_processing' /\ j \notin fresh'
    BY <1>1, <1>3 DEF QInv, NotifyInv
  <2> QED
    BY <1>1, <2>1, <2>2, <2>3 DEF NotifyInv, Notifying
<1>10. OwedInv'
  <2>1. SUFFICES ASSUME NEW k \in m_callback', k \in Alone
                 PROVE  \/ k \in q_processing'
                        \/ at'[Canceller] = "done" /\ k \in target'[Canceller]
                        \/ \E w \in Worker : k \in job'[w] /\ (Notifying(w)' \/ pc'[w] = "erase")
    BY DEF OwedInv, Alone, Equal
  <2>2. k \in m_callback
    BY <1>3, <2>1
  <2>3. \/ k \in q_processing
        \/ at[Canceller] = "done" /\ k \in target[Canceller]
        \/ \E w \in Worker : k \in job[w] /\ (Notifying(w) \/ pc[w] = "erase")
    BY <2>1, <2>2 DEF QInv, OwedInv
  <2>4. ASSUME NEW w \in Worker, k \in job[w], Notifying(w) \/ pc[w] = "erase"
        PROVE  k \in job'[w] /\ (Notifying(w)' \/ pc'[w] = "erase")
    <3>1. CASE Notifying(w)
      <4>1. pc[w] = "callback"
        BY <3>1 DEF QInv, NotifyInv
      <4> QED
        BY <1>3, <1>5, <2>4, <3>1, <4>1 DEF Calm
    <3>2. CASE pc[w] = "erase"
      BY <1>3, <2>1, <2>4, <3>2 DEF Calm
    <3> QED
      BY <2>4, <3>1, <3>2
  <2> QED
    BY <1>1, <2>3, <2>4
<1> QED
  BY <1>2, <1>6, <1>7, <1>8, <1>9, <1>10 DEF QInv

\* Every step keeps the invariant.
LEMMA QStepInv == QInv /\ [QNext]_allvars => QInv'
<1> SUFFICES ASSUME QInv, [QNext]_allvars PROVE QInv'
  OBVIOUS
<1>1. ASSUME NEW t \in Thread, QCall(t) PROVE QInv'
  BY <1>1, QAddInv, QCancelQueuedInv, QCancelEnterInv DEF QCall
<1>2. ASSUME NEW t \in Thread, QClient(t) PROVE QInv'
  BY <1>2, QNextInv, QCancelProcessingInv, QCancelJobsNextInv, QCancelJobsEndInv DEF QClient
<1>3. ASSUME NEW w \in Worker, QWorker(w) PROVE QInv'
  BY <1>3, QNextInv, OnJobNotifyInv, OnJobNotifiedInv DEF QWorker
<1>4. CASE QCanceller
  BY <1>4, NotifyAbortedInv, AbortedInv DEF QCanceller
<1>5. CASE Manages /\ UNCHANGED qvars
  BY <1>5, QManagesInv
<1>6. CASE UNCHANGED allvars
  <2>1. UNCHANGED vars /\ UNCHANGED qvars
    BY <1>6 DEF allvars
  <2>2. Inv'
    BY <2>1, StepInv DEF QInv
  <2> QED
    BY <2>1, <2>2 DEF QInv, QTypeOK, Inv, EntriesUnique, EntryInv, SectionInv, NotifyInv,
                      Notifying, CallbackInv, OwedInv, SlotsInv, Waiting, Queued, HasNext,
                      Distinct, vars, qvars
<1> QED
  BY <1>1, <1>2, <1>3, <1>4, <1>5, <1>6 DEF QNext, Manages

-----------------------------------------------------------------------------
(* The theorems.                                                           *)

\* QInv is an invariant of the queue and the manager together.
THEOREM QInvariance == QSpec => []QInv
<1> QED
  BY QInitInv, QStepInv, PTL DEF QSpec

\* The entries of the queue are unlike and alive (JobManager.h:55,
\* JobManager.cpp:94), whatever the threads, workers and CancelJobs do.
THEOREM EntriesAlwaysSound == QSpec => []EntriesSound
<1>1. QInv => EntriesSound
  <2> SUFFICES ASSUME QInv PROVE EntriesSound
    OBVIOUS
  <2>1. PointersAlive
    BY Ranges DEF QInv, EntryInv, PointersAlive
  <2> QED
    BY <2>1 DEF QInv, EntriesSound
<1> QED
  BY <1>1, QInvariance, PTL

\* Every completion hands the next waiting job to a free slot (JobManager.cpp:129).
THEOREM SlotsAlwaysFilled == QSpec => []SlotsFilled
<1>1. QInv => SlotsFilled
  BY DEF QInv, SlotsInv, SlotsFilled
<1> QED
  BY <1>1, QInvariance, PTL

\* The queue and the manager agree on which callbacks are due (JobManager.cpp:134).
THEOREM CallbacksAgree == QSpec => []CallbacksOwed
<1>1. QInv => CallbacksOwed
  <2> SUFFICES ASSUME QInv, q_section = Nobody, at[Canceller] = "idle"
               PROVE  Owed \intersect Alone = q_processing \intersect Alone
    BY DEF CallbacksOwed
  <2>1. ASSUME NEW j \in Owed \intersect Alone PROVE j \in q_processing
    BY <2>1 DEF QInv, OwedInv, Owed, Notifying
  <2>2. ASSUME NEW j \in q_processing PROVE j \in Owed
    BY <2>2 DEF QInv, EntryInv, NotifyInv, Notifying, Owed
  <2> QED
    BY <2>1, <2>2
<1> QED
  BY <1>1, QInvariance, PTL

\* The manager keeps its promises under the callbacks of the queue too: no pointer
\* dangles, no job runs twice or is lost, and CancelJobs leaves nothing
\* (JobManager.cpp:251, JobManager.h:281).
THEOREM QueueKeepsManager ==
  QSpec => [](NoDangling /\ OneWorkerPerJob /\ NoJobLost /\ ShutdownComplete)
<1>1. QInv => NoDangling /\ OneWorkerPerJob /\ NoJobLost /\ ShutdownComplete
  BY InvShutdown DEF QInv, Inv
<1> QED
  BY <1>1, QInvariance, PTL
=============================================================================
