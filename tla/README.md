# Verification of the Easy-TV / Kodi core

Easy-TV is a fork of Kodi. This directory holds TLA+ models of the parts of the
C++ core (`src/xbmc`) whose correctness rests on the order in which threads,
callbacks and messages meet, the TLC configurations that check the models on
small instances, and TLAPS proofs of the safety of every component modelled, for
every value of its constants.

## The system and its components

| Component | State | Operations | Hard behaviour | What makes it correct |
|---|---|---|---|---|
| Job manager (`utils/JobManager.cpp`) | deques per priority, `m_processing`, `m_workers`, `m_jobEvent`, `m_running` | AddJob, CancelJob, CancelJobs, Restart, Pause/UnPauseJobs; workers: GetNextJob, OnJobProgress, OnJobComplete, RemoveWorker | self-deleting workers that time out, callbacks outside the lock, shutdown while jobs run | no use of a deleted job, one worker per job, reserve of priorities, nothing left after shutdown |
| Job queue (`CJobQueue`, same file) | `m_jobQueue`, `m_processing`, `m_section` | AddJob, CancelJob, CancelJobs, OnJobNotify, OnJobAbort | called back by workers and by CancelJobs of the manager; equality of jobs is not identity | its entries are the jobs the manager owes a callback for; no dead pointers; no two equal entries |
| Message queue of a stream player (`cores/VideoPlayer/DVDMessageQueue.cpp`) | two lists, sizes and times, `m_hEvent`, abort and drain flags | Init, Put, PutBack, Get, Flush, Abort, End, WaitUntilEmpty, GetLevel | event reset and wait outside the lock, priorities, packets put back | no lost wake-up, order of delivery, sizes and times fit the lists, abort ends Get |
| Stream players and flushing (`VideoPlayer.cpp`, `VideoPlayerAudio.cpp`, `VideoPlayerVideo.cpp`, `DVDMessage.cpp`) | the queues, each thread's packet in hand, codec contents, recovery list | OpenStream, CloseStream, FlushBuffers, WaitUntilEmpty; the loops of the players | a barrier of three threads with time-outs, flush while a packet is in hand | the barrier means flushed; nothing stale stays; FlushBuffers and CloseStream return |
| File cache (`filesystem/FileCache.cpp`, `CircularCache.cpp`, `CacheStrategy.cpp`) | ring buffer positions, read and write position, seek and seek-ended events | Open, Read, Seek, Close; the caching thread | seek handshake, writer and reader in one ring | bytes read at a position are the bytes of the source at that position |
| Player synchronisation and caching (`VideoPlayer.cpp` HandlePlaySpeed) | sync state of each stream, caching state | HandleMessages, CheckContinuity, SetCaching | streams that start, stall and are flushed independently | both streams end up in sync; caching ends |
| Render manager (`VideoRenderers/RenderManager.cpp`) | free, queued, discarded and presented buffers, present step, render state, overlays per buffer | player: Configure, WaitForBuffer, AddOverlay, AddVideoPicture, DiscardBuffer; application: FrameMove, Render, Flush, PreInit, UnInit | decoder and render thread, handshakes with time-outs, a GUI that is not rendered | every buffer is in exactly one place; pictures keep their order, overlays and a renderer that fits |
| Application messenger (`messaging/ApplicationMessenger.cpp`) | two queues, `m_bStop` | SendMsg, PostMsg, ProcessMessages, ProcessWindowMessages, Stop, Cleanup | handlers that run the pump again, senders that hold the graphics lock, shutdown by a message | a message's sender still waits while it is handled; every sender is answered |
| Actor protocol (`utils/ActorProtocol.cpp`) | in, out and free queues, messages with two owners | SendOutMessage, SendOutMessageSync, ReceiveIn/OutMessage, Reply, Release, Purge, PurgeOut | time-out against late reply, messages used again | one holder, no leak, the answer to the own call, no message left behind |
| Thread primitives (`threads/Thread.cpp`, `Timer.cpp`) | `m_thread`, its promise, stop flag; time-out, end time, event of the timer | Create, StopThread, Join; Start, Stop, Restart, RestartAsync, Process | fields read and written without a lock, callbacks that restart their timer | one thread, joined once; never early; a started timer fires |
| Announcements, play lists, RetroPlayer rewind, settings, audio engine, libraries, PVR, add-ons, GUI | | | mostly callbacks, data and I/O | not modelled, see below |
| Easy-TV front end (`tools/android/packaging/xbmc/src/*.java.in`) and add-ons (`addons/plugin.autostart`, `addons/skin.easytv`) | preferences, downloaded archives, copied settings | boot, update, backup and restore, web view | I/O of one thread at a time | not modelled |

How they interact: `CJobQueue` is a callback of `CJobManager` and calls it back
under its own lock. `CVideoPlayer` puts packets and control messages into the
queues of its stream players, which read them on their own threads; it waits
for them on a shared synchronize message. `CFileCache` sits between the demuxer
that `CVideoPlayer` reads and the source file. The video player hands pictures
to the render manager, whose flush and configure steps run on the application
thread and are requested through the application messenger. A job may send a
message to the application and wait for it, while the application, in the
handler of the message that stops it, waits for the jobs. The audio sink, the
audio engine and the hardware decoders are actors behind an `Actor::Protocol`.

## Modules

| Module | Models |
|---|---|
| `JobManager` | `CJobManager` and `CJobWorker`. One action per critical section; the section itself is a variable because `CancelJobs` calls out while it holds it. Worker threads go through the locations of `GetNextJob`, `DoWork`, `OnJobComplete` and the destructor. |
| `JobService` | What the job manager promises: a job is submitted, started once within its limit, withdrawn or finished; closed means nothing starts. |
| `JobManagerProofs` | The theorems about `JobManager`, its refinement of `JobService`, and the theorems about `JobQueue` on top of it. |
| `JobQueue` | `CJobQueue`, extending `JobManager`: its lock, its deque, the callbacks of workers and of `CancelJobs`. A job's `operator==` is the constant `KeyOf`. |
| `MessageList` | The data of a `CDVDMessageQueue` as a record and its operations as functions of it: priority insertion, sizes, times, flush, level with its `int` arithmetic. |
| `DVDMessageQueue` | One queue, the thread that gets and the threads that put. |
| `StreamPlayers` | `CVideoPlayer`'s thread and the two stream players over two such queues: opening, packets, flush, barrier, drain, close, decoder recovery. |
| `CircularCache` | The ring buffer of `CCircularCache` as operators on a record. A cell holds the source position its byte came from, so that a byte in the wrong place is seen. |
| `DoubleCache` | `CDoubleCache`: two rings, which one a reset takes. Without `READ_MULTI_STREAM` the same operators work on the one ring. |
| `FileCache` | `CFileCache`: the reader (`Read`, `Seek`, `Close`) and the cache thread (`Process`, `OnExit`), their two events and the source. |
| `RenderManager` | `CRenderManager` between the video player's thread (the loop of `CVideoPlayerVideo::OutputPicture`) and the application's. One action per critical section of `m_presentlock` or `m_statelock`; a time-out is an action beside the wait it ends. `buffer` remembers which picture a buffer holds, `overlays` whose overlays. |
| `ActorProtocol` | `Actor::Protocol` and `Actor::Message` between clients and one actor, whose loop is that of `CActiveAESink::Process`. A message is a number with the members of the C++ object; `signal` names the call it is for. |
| `AppMessenger` | `CApplicationMessenger` with the application's thread as a stack of frames: a loop of a pump, a handler, a dialog's loop in a handler. `CApplication::Stop` is the three steps messenger stopped, jobs waited for, queues emptied. |
| `Timer` | `CTimer` and the `CThread` it derives from. Times are relative to now, `Tick` is the clock; `Process` may be held up by `MaxAge` after each read of the clock. Each read and each write of `m_timeout` and `m_endTime` is a step of its own: the fields have no lock. The callback is a caller (`Callback`) that runs `RestartAsync` while the thread is in it. |
| `Subsequences` | What `std::list::remove_if` and the like leave of a list, without recursion, so that proofs can expand it. |
| `SequenceProofs` | Lemmas about the operators on sequences that the proofs share, and induction over a set of numbers. |
| `MessageQueueProofs` | The inductive invariants and the theorems of `DVDMessageQueue` and of `StreamPlayers`, over the same lemmas about `MessageList`. |
| `FileCacheProofs`, `RenderManagerProofs`, `ActorProtocolProofs`, `AppMessengerProofs`, `TimerProofs` | The inductive invariant and the theorems of each of these modules. |
| `MC*` | The instances TLC checks. |

`JobQueue` composes with `JobManager` by extending it: `QNext` is built from the
actions of both. `StreamPlayers` uses the operators of `MessageList` for each of
its queues, `FileCache` those of `DoubleCache` and `CircularCache`. The variables
and the specification of `StreamPlayers` have names of their own (`queues`,
`StreamSpec`), so that `MessageQueueProofs` can extend it and `DVDMessageQueue`.

Operators that begin with the name of another one and are commented as a mutant
of it are wrong on purpose: each is what a plausible slip in that function
would do, and a property of the module must fail with it.

## Runs

| Run | Question | Bounds |
|---|---|---|
| `JobManager` | safety, refinement of `JobService` and liveness of the manager | three jobs, two of which share one slot, three workers, `max_workers` 4 so that three jobs reach the limits that the code's 5 sets |
| `JobQueue` | do queue and manager agree, also about equal jobs? | three jobs, two of them equal, two workers, one client, one at once, last in first out |
| `JobQueueDeadlock` | are the two locks ordered? No | two jobs |
| `MessageQueue` | wake-ups, order, sizes, times, end after abort | four packets, one without times, and one other message |
| `StreamFlush` | barrier, flush, drain, close | one packet, one flush to both players, one synchronize message |
| `StreamReturns` | do FlushBuffers and CloseStream return? | one flush, one synchronize message, no packet |
| `FileCache` | does the file read like its source, and does every call return? | a source of 4 bytes, chunks of 2, rings of 2 in front and 1 behind, reads of 2, seeks to 0..5; `SeekWindow` 2 for the code's 100000; no seek after one that failed (`SeekAfterFailure`) |
| `RenderManager` | are buffers, pictures and overlays kept together? | three pictures, the last with other parameters, three buffers, and up to two of: a flush, another file, the GUI hidden |
| `ActorProtocol` | who owns a message, and which call does an answer belong to? | two clients, one calling twice, three messages, one time-out of the actor's wait |
| `AppMessenger` | nested pumps and shutdown | a job that sends once, a thread that sends twice, one message the application posts, two frames |
| `AppShutdownJobs` | is every sender unblocked? No | two jobs that send, no nesting |
| `Timer` | does the timer keep its one thread and its time, and does it fire? | two threads, one of which starts and stops, and the callback; two threads created, two RestartAsync that may overlap, time-outs of 0 (RestartAsync alone takes it) and 1 tick, Process held up by one tick |

Jobs, messages and calls are used up as they are passed in, since the code gives
each of them away; when all are used the model has nothing left to do, which is
why these configurations say `CHECK_DEADLOCK FALSE`. The exceptions are
`MessageQueue`, `RenderManager` and `Timer`, which can always go on
and where TLC looks for deadlocks.

The bounds are the smallest at which the interleavings of interest occur: a job
that waits while another runs and a third arrives; two workers that wait for
one event while a third is busy; a message put while another is put back; a
packet in the hands of a player while the queue is flushed. Every property
fails on these bounds for its mutant. The rings of `FileCache` wrap, overwrite
and cannot hold the source, chunks are cut at the wrap, and a seek may lie
inside the ring, within or beyond the window it waits for, before the ring, in
the other ring, in the last chunk and past the end. Three buffers are the least
with one on screen, one blended with it and one in the queue; three messages of
a port the least with a request, its reply and the late reply to an earlier
call; two frames hold a dialog in a handler and a handler in it (three frames,
without the application's post, were checked too); two time-outs are enough for an
end or a wait made from the wrong one. Counters are capped by the constants each
module comments as a bound.

Fairness. Threads are scheduled (`WF` of a thread's steps), a wait with a
time-out ends (`WF` of the time-out), and `DoWork` returns however often it
calls `ShouldCancel` (`SF`, since progress calls interrupt it). In
`StreamReturns` the timer of a synchronize message runs out (`WF`), which
`CDVDMsgGeneralSynchronize` measures from its construction. In `FileCache` both
threads run (`WF`), but nothing says that the 10 seconds of a `Read` end it:
`CallsReturn` holds because the cache thread brings data or the end of the
input. In `ActorProtocol` the actor's thread and a client that has put a message
and is about to set the event run (`WF`); no time-out is needed. In
`AppMessenger` the senders and the pump run (`WF`) and a handler that may open
dialogs or send to itself comes to its end at each depth (`SF`, because the
frames above it interrupt it again and again). In `Timer` threads run and time
goes on (`WF`). `RenderManager` has safety and action properties only.

## Proofs

`JobManagerProofs` proves, for any finite sets of jobs and workers, any
priorities and any `max_workers` above `HIGH` (assumption `ConstantsAssumption`),
that `TypeOK`, `NoDangling`, `NoJobLost`, `ShutdownComplete`, `PriorityReserve`
and `PoolBound` hold in every behaviour of `Spec`, and that `Spec` implements
`JobService`.

None of these is inductive alone. `Inv` adds where a thread can be
(`WorkersInv`: a slot is registered exactly while a thread lives in it and a
busy thread holds one job), where a job can be (`PlacesInv`: not offered, held,
queued and deleted exclude each other), what CancelJobs has reached
(`CancelInv`: once it is past the deques they stay empty because `m_running` is
false) and that no job is in two slots (`NoneTwice`). The proof of a step goes
through the actions one by one; the deques are handled by lemmas about
`EraseAt`, `Pushed` and `Tail`. `PriorityReserve` and `PoolBound` are then
invariants of their own, relative to `Inv`, with the cardinality theorems of
the library. The refinement shows that each action either moves one job along
the stages of `JobService` or leaves all stages alone.

On it rests the proof of `JobQueue`: `EntriesSound`, `SlotsFilled`, `CallbacksOwed`,
and that the manager keeps `NoDangling`, `OneWorkerPerJob`, `NoJobLost` and
`ShutdownComplete` under the callbacks of the queue (`QueueKeepsManager`), for any
jobs and equalities, any client threads apart from the workers and any number of
jobs at once (`QueueAssumption`). `QInv` adds to `Inv` that what waits in the queue
was not given to the manager yet and what is processing has its callback there
(`EntryInv`), that one thread at a time is between the two locks (`SectionInv`), how
far a worker in `OnJobNotify` and `CancelJobs` in `OnJobAbort` have got
(`NotifyInv`), and for the callbacks that are due where each of them is (`OwedInv`).
`SlotsFilled` needs to know that a thread in `QueueNextJob` is at most one job short
(`SlotsInv`), since an erase takes one entry at most (`EraseEqual`, from
`EntriesUnique`). The steps that the queue leaves to the manager are summed up by
what they can change of a worker whose callback is due or made (`Calm`).

The other modules are proved about in the same way: an invariant `IInv` (`StreamInv`) that
contains what is wanted, checked by TLC on the instance of the run first, then
`Init => IInv`, one lemma per action (or per conjunct and action) for
`IInv /\ [Next]_vars => IInv'`, and the theorems from it.

| Module | Theorems | For |
|---|---|---|
| `MessageQueueProofs` | `LevelsExact`, `NoLostWakeup`, `DeliveryOrder` | any finite set of messages with any sizes, of which the timed packets are read in the order of their times (`DemuxAssumption`, `MessageAssumption`) |
| `MessageQueueProofs` | `FlushComplete`, `DrainEmpties`, `NoGetAfterEnd` | any messages of any types and sizes, any number of flushes, any length of the recovery list (`MessageAssumption`, `StreamAssumption`) |
| `FileCacheProofs` | `CacheIntact`; the action properties `ReadsSource`, `NoFalseEof`, `BackBufferKept` | any sizes of file, rings and back buffer, chunks that fit in front of it, any size of read and any seeks, also after one that failed (`RingAssumption`, `FileCacheAssumption`) |
| `RenderManagerProofs` | `BuffersConserved`, `OverlayOnItsPicture`, `MatchesRenderer`; the action properties `OrderKept`, `ReconfigureDropsNothing` | any number of pictures with any parameters, two or more buffers, any number of disturbances (`RenderAssumption`, `PictureAssumption`) |
| `ActorProtocolProofs` | `OneHolder`, `NothingLeaks`, `OwnAnswer` | any clients, calls, messages and time-outs (`ActorAssumption`) |
| `AppMessengerProofs` | `PayloadAlive`, `HandledOnce` | any senders and calls, the application's own posts among them, any depth of nested dialogs (`MessengerAssumption`) |
| `TimerProofs` | `OneThread` and the action property `NotEarly` | any number of threads that call RestartAsync, one that starts and stops (`OneOwner`, a hypothesis of the theorems), any time-outs |

What the invariants add, and why what is wanted is not inductive alone:

- *Message queue.* `LevelsExact` about the size is inductive only as a statement
  about every beginning of the list: `HasSize` says that a function of partial
  sums exists, which is how a fold is reasoned about here, and that a put, a
  put-back and a take change it by one term. The span of times needs to know
  that what is not put yet is not earlier than `m_TimeFront` and that a packet
  which may be put back is not later (`SpanInv`). `DeliveryOrder` needs the same
  of what was got and may be put back: it was put before all that is left
  (`OrderInv`).
- *Stream players.* A list counts only by the set of its messages and by which of
  them waits behind which (`Msgs`, `Order`); lemmas say what each operation of
  `MessageList` does to the two, and each action is summed up by what it does to
  them and to a thread (`Takes`, `Flushes`, `Returns`, `PutsBack`, ...; `StepEffect`).
  `FlushComplete` needs that a player which answers the barrier has no flush before
  it: in each list, the barrier is never ahead of a flush (`BarrierInv`), also when a
  player puts it back; a flush that was sent is handled or still pending
  (`ReachInv`), and flushes are handled in the order they were sent (`EpochInv`). The
  messages a codec is sent again overtake all these, which is why the orders are
  about flushes and packets apart. `DrainEmpties` needs that nothing waits behind
  the message of `WaitUntilEmpty` and that the player which answers it does not put
  it back (`DrainInv`), for the one stream that is being closed. `StreamInv` is the
  conjunction of these with the types, the places of the threads (`ThreadInv`) and
  the fact that a message which was not sent is nowhere (`UnsentInv`).
- *File cache.* A ring that holds its source (`Sane`) keeps doing so under each of its
  operations: lemmas about cells say that positions less than `m_size` apart have
  different ones and that cells follow each other up to the wrap. A write needs the
  chunk to begin where the ring ends, hence `ChunkInv` and `SourceInv`: the source is
  read at `m_writePos`, unless a chunk was dropped for a seek or a stop that Process
  is yet to see. `PositionInv` says for each place in `Read` and `Seek` how `m_readPos`
  and `m_seekPos` go with the ring, and `EventInv` who may have set the two events, so
  that `m_seekEnded` means that the present seek was carried out. `NoFalseEof` needs
  that the flag of the end is up only while Process waits there (`InputInv`).
- *Render manager.* A buffer is in one of five places (`RingInv`), pictures in the
  queue follow the one on screen (`OrderInv`). That a renderer fits needs what
  both threads know of each other during a configuration (`ConfigInv`) and what
  the wait for an idle renderer is good for: no picture waits while
  `m_renderState` is `CONFIGURING` (`IdleInv`). `PrepareNextRender` is treated by
  lemmas about its three cases, which say where each buffer goes (`Prepared`).
- *Actor protocol.* Client and actor share the message of a synchronous call, and
  `isSyncFini` says which of them is the last. `HoldInv` states this per message
  (`ClientOwns`, `ActorOwns`), that all other holders are apart (`Apart`) and that
  every message that was made is somewhere (`Everywhere`), from which `NothingLeaks`
  follows. `PhaseInv` ties it to where the threads are.
- *Messenger.* `MsgInv` says of every message in a queue or on the stack of frames
  that its call was made and, if synchronous, that its sender still waits in that
  call; `PushInv` that a message is in nobody else's hands before it is queued;
  `OnceInv` that queues and frames hold each call once.
- *Timer.* `StopInv` and `AliveInv`: only the owner takes `m_thread` away, and only
  after that thread has ended. For the time, `wanted` is the moment before which the
  callback is not due. It drops to the time-out of a `RestartAsync` when that writes
  `m_timeout`, and becomes the end that call stores once it is the last call: nobody
  else wrote `m_timeout` since or is in a `RestartAsync`, and `Process` is not between
  the read and the write of line 90 (then, when the event is set, unless the wait had
  timed out before). Each of these conditions is needed: without any one of them TLC finds
  a callback that is early, such as a `Start` between lines 54 and 55, or
  an old time-out written over the new end. `CallInv` says that a call counts as long
  as it is under way; `ClockInv` bounds `wanted` by what the thread holds at
  each step (its sum, its duration, the end of its wait, `m_endTime`), unless the
  event is set, which ends the wait.

The attempt to prove `OverlayOnItsPicture` failed first: `OverlayInv` was not
preserved by a `Configure` of the render thread that comes after its time-out. With
pictures of which the last two have the same parameters TLC found the behaviour
(below, *What the code does not do*); the property now leaves it out by
`degraded`, as `MatchesRenderer` did.

All safety invariants, action properties and the refinement that the runs check
are proved. Checked by TLC and not proved is all liveness (`CallsReturn`,
`LiveWorkerServes`, `CancelJobsReturns`, `AbortEndsGet`, `PlayerReturns`,
`SendReturns`, `TimerFires`, `MessagesServed`), which rests on fairness and so on
`ENABLED`.

## What the code does not do

Checked by the runs that expect a violation:

- `CJobManager::CancelJobs` calls back with its lock held, the queue calls the
  manager with its own lock held (`NoLockCycle`).
- `CApplication::Stop` waits for the workers before it wakes the senders whose
  messages are queued; a job in a synchronous `SendMsg` is never unblocked and
  Stop never ends (`SenderUnblocked`).

Seen while modelling, and visible in the models as what the properties leave out:

- `StartWorkers` counts a worker that is about to leave as a sleeping one
  (`JobManager.cpp:281`), so a job added between a worker's last `PopJob` and its
  destructor stays in its deque until another job is added. `LiveWorkerServes` is
  about workers that will look again.
- `UnPauseJobs` wakes nobody, so `LiveWorkerServes` is not about pausable jobs.
- A completion that was copied before `CancelJob` (`JobManager.cpp:405`) reaches
  the listener after `CancelJob` returned, against `JobManager.h:126`. In the
  queue it then takes the entry of an equal job that was added meanwhile
  (`JobManager.cpp:134`); two equal jobs may run. `CallbacksOwed` is about jobs
  that equal no other, `EntriesSound` about the entries, which stay unique.
- `CancelJob` of a queue's running job does not start the next one; `SlotsFilled`
  is about the time before the first such call.
- `GetLevel` computes `100 * m_iDataSize` in `int` (`DVDMessageQueue.cpp:321`), which
  overflows when packets without times fill more than 21 MB of the video
  player's 128 MB.
- The audio player puts a packet it held during a flush back into the flushed
  queue (`VideoPlayerAudio.cpp:423`), against `VideoPlayer.cpp:4007`. The part of
  `FlushComplete` about packets is about the video player.
- The drain flag of `WaitUntilEmpty` only opens the list a Get looks at, so a
  player that asks for priority messages only leaves the packets where they are
  until the time-out of 40 seconds.
- With only one stream open, FlushBuffers always waits for the time-out of its
  synchronize message, because the message names both sources.
- Packets kept for recovery are sent again with priority and may be left in the
  queue at the end of a drain; `DrainEmpties` excludes them.
- `CFileCache::Seek` does not look at `m_nSeekResult`: when the source failed to
  seek it reports the target as reached, and the reader gets other bytes. When
  a chunk had been cut for that seek, the source is then ahead of the ring and
  the bytes written next are at the wrong positions. A seek that cannot be
  served on a source that cannot seek leaves the ring's position at its end. So
  `ReadsSource`, `NoFalseEof` and the bytes in `CacheIntact` are about files on
  which no seek has failed; the bounds of the rings and the code's assertion in
  `CacheIntact`, `BackBufferKept` and `CallsReturn` are about all.
- A `Read` that waits 10 seconds in vain answers 0, the answer at the end of the
  file: `CCircularCache` never gives `CACHE_RC_TIMEOUT`.
- With a length of 0 and a source that can seek, `m_seekPos` would always be 0
  and the source would not be sought; `CCurlFile` calls such a source not
  seekable. The model assumes a known length.
- `WaitForBuffer` returns without a GUI before it releases the overlays of the
  next free buffer (`RenderManager.cpp:1094` against the comment at 1108). A picture
  put there later carries them; `OverlayOnItsPicture` is about playback without
  such a moment (`unseen`).
- A `Configure` that timed out is still executed by the render thread when it gets
  there, by then with the player past `WaitForBuffer` for the next picture. It
  rebuilds the lists of buffers; `m_overlays.Reset()` (`RenderManager.cpp:218`) does
  not empty the buffers' overlays (`OverlayRenderer.cpp:96`), so that the picture is
  put in a buffer that may carry overlays of an earlier one. `OverlayOnItsPicture`
  leaves out playback with such a `Configure` (`degraded`).
- A `Configure` that times out or fails has stored the parameters already
  (`RenderManager.cpp:124`), so that the next one with the same parameters answers
  true for a renderer that may not fit, and without a GUI any does; a late
  configuration may also come after a close. `MatchesRenderer` and
  `ReconfigureDropsNothing` are about playback without these (`degraded`).
- `PurgeOut` takes messages from the queue without releasing them, and an actor
  that stops does not release the one it holds: `NothingLeaks` names them (`lost`).
- A message pushed after `Cleanup` emptied the queues (`m_bStop` is read before the
  lock, `ApplicationMessenger.cpp:113`) leaves its sender waiting; the messenger
  cannot be destroyed then, because each caller holds a reference.
  `SendReturns` excludes it (`late`).
- Two threads that stop the same `CThread` at once may both join it
  (`Thread.cpp:217`, against the comment at 259): `OneThread` is about timers that
  one thread at a time starts and stops (`Owners`).
- `CTimer` has no lock. While calls overlap, or when `Process` writes an end made from
  the time-out it read before `RestartAsync` changed it (`Timer.cpp:90`), the callback may come as
  soon as the shorter time-out asks: `NotEarly` counts the soonest of them. A
  `RestartAsync` that is held up between `now()` and its store may overwrite the end of
  a later one with one that is over; when that happens during the callback the thread
  leaves (`Timer.cpp:104`): `TimerFires` is about the end that was stored last.

## Abstractions

- A `CJob`, its work item and its id are one value: `AddJob` takes ownership.
  `m_jobCounter` and its wrap-around are left out with it.
- Sizes are in units, times are whole seconds or none, packets are values.
- `GetPacketCount`, GENERAL_RESET and the messages that do not touch the queues,
  clocks, speed, pictures and the ten seconds limit of the recovery list are
  left out of the player models. `DecoderFlushed` sends the whole recovery list
  in one step where the code takes the queue's lock once per packet.
- The file cache's rates decide when the thread pauses, which it may do or not at
  any turn. The source keeps its length, and a failed seek leaves its position
  alone. A byte outside a ring's window is blank in the model where the code
  leaves an old one. The file is opened once, as `CFile` does. `CSimpleFileCache`
  (the cache on disk) and `IoControl` are left out.
  A file that is no audio or video may have a ring capped at its size and a chunk
  larger than the part in front (`FileCache.cpp:150`); model and proofs are about
  chunks that fit in front (`FileCacheAssumption`).
- In `RenderManager` the clock, field-wise presentation and `NeedBuffer` are free
  choices: any number of queued pictures may be due. The look of `Render` at the
  render state and its last critical section are one step, and `UnInit`, which
  deletes the renderer under `m_statelock` alone, is one step. The wait of `UnInit`
  and of `Flush` on other threads (2 and 1 seconds), captures, latency and the
  resolution are left out. A stream is opened with its file: that another one opens
  within the file, for which `TriggerUpdateResolution` (`RenderManager.cpp:900`) writes
  `m_fps` and the size in `m_picture` without a lock, is not modelled, so `MatchesRenderer`
  says nothing of it. `ParamsOf` stands for all that `Configure` compares, the
  renderer's `ConfigChanged` included.
- In `ActorProtocol` `GetMessage` and the push are one step of `Send`, as they are
  under one lock. `DeferIn` and `DeferOut` have no callers; `~Protocol` runs when
  its users are gone; both are left out, like payloads. `PurgeOut` is called for
  the device changes the sink gets, which nobody waits for.
- In `AppMessenger` the result of a message and its parameters are left out, and
  `CDelayedMessage`, which nothing uses. The graphics lock is one a sender may hold
  when it calls and a handler needs to return.
- In `Timer` the join with a time-out, threads that delete themselves and the
  events inside `CThread` other than the start event are left out. A tick is a
  millisecond or more, so that no wait is shortened by the cast of line 93, and a field is
  read or written whole.
- What a player's state would decide (which priority it asks for, whether the
  codec takes a packet) is a free choice.

## Not modelled

- Player synchronisation and caching (`VideoPlayer.cpp` 1909-2145): planned; its
  properties depend on clock values and queue levels that need an abstraction of
  their own.
- `CEventGroup` and `CSharedSection`: every group in the code is a local of one
  waiter, and the shared sections guard data that the models do not have.
- Announcements, play lists, the rewind buffers of RetroPlayer and settings:
  sequential data or callbacks under one lock; planned after the proofs.
- GUI and windowing (drawing), audio engine (sample processing; its protocol is
  `ActorProtocol`), databases, scrapers and add-on installation (I/O), the Java
  and Python parts of Easy-TV (sequential I/O against the platform). They are
  most of the lines of the repository, and the share the models cover is small
  for that reason: what is modelled are the places where threads meet.

## Plan

1. Player synchronisation and caching states of `VideoPlayer.cpp`.
2. Play list player and the rewind buffers of RetroPlayer as pure algorithms.
