---------------------------- MODULE RenderManager ----------------------------
(***************************************************************************)
(* CRenderManager: the ring of picture buffers between the thread of the   *)
(* video player, which fills them, and the application's thread, which     *)
(* shows and releases them, with the handshakes that configure, flush and  *)
(* close the renderer (xbmc/cores/VideoPlayer/VideoRenderers/              *)
(* RenderManager.cpp; OutputPicture of VideoPlayerVideo.cpp).              *)
(*                                                                         *)
(* A critical section of m_presentlock or m_statelock is one action.  The  *)
(* clock decides how many queued pictures are due: any number may be.      *)
(***************************************************************************)
EXTENDS Integers, Sequences, SequencesExt, Subsequences

CONSTANTS
  RenderBuffers,   \* what the renderer's configuration makes of m_QueueSize
  ParamsOf,        \* the parameters (format, size, rate) of each picture
  Disturbances     \* bound: how often, together, the GUI is hidden, the renderer
                   \* is flushed and another file is opened

ASSUME RenderAssumption ==
  /\ RenderBuffers \in Nat /\ RenderBuffers >= 2
  /\ Disturbances \in Nat

Picture == DOMAIN ParamsOf          \* in the order they are decoded
Params  == {ParamsOf[p] : p \in Picture}
Buffer  == 0 .. RenderBuffers - 1
NoPicture == 0
NoBuffer  == -1

ASSUME PictureAssumption ==
  Picture \subseteq Nat \ {NoPicture} /\ {"none", "new"} \cap Params = {}

VARIABLES
  m_renderState,   \* "UNCONFIGURED", "CONFIGURING", "CONFIGURED"
  m_pRenderer,     \* "none", "new", or the parameters it was configured with
  m_picture,       \* the parameters of the last Configure, or "none"
  m_stateEvent,
  m_QueueSize, m_free, m_queued, m_discard,
  m_presentsource, m_presentsourcePast, m_presentstep,
  m_showVideo, m_forceNext, m_bRenderGUI,
  buffer,          \* the picture the renderer holds in each buffer
  overlays,        \* the pictures whose overlays m_overlays holds for it
  at,              \* where the thread of the video player is
  picture,         \* the picture it puts out
  idx,             \* the buffer AddOverlay read
  app,             \* where the application's thread is
  renderGUI,       \* the application renders its GUI
  closing,         \* the file is being closed
  degraded,        \* a Configure was not followed by its configuration (history)
  unseen,          \* WaitForBuffer passed a picture on without a GUI (history)
  disturbances

playerVars == <<at, picture, idx, unseen>>
appVars    == <<app, renderGUI, closing, disturbances>>
stateVars  == <<m_renderState, m_pRenderer, m_picture, m_stateEvent, degraded>>
listVars   == <<m_QueueSize, m_free, m_queued, m_discard, m_presentsource,
                m_presentsourcePast, m_presentstep>>
flagVars   == <<m_showVideo, m_forceNext, m_bRenderGUI>>
dataVars   == <<buffer, overlays>>
vars == <<playerVars, appVars, stateVars, listVars, flagVars, dataVars>>

Empty    == [b \in Buffer |-> NoPicture]
NoOverlays == [b \in Buffer |-> {}]
\* Mutant of AllFree: counts to the size of the ring.
AllFreeOneMore(size) == [i \in 1 .. size |-> i]
AllFree(size) == [i \in 1 .. size - 1 |-> i]

\* The player has just called PreInit for its first file.
Init ==
  /\ m_renderState = "UNCONFIGURED" /\ m_pRenderer = "new"
  /\ m_picture = "none" /\ m_stateEvent = FALSE /\ degraded = FALSE
  /\ m_QueueSize = 2 /\ m_free = <<>> /\ m_queued = <<>> /\ m_discard = <<>>
  /\ m_presentsource = 0 /\ m_presentsourcePast = NoBuffer
  /\ m_presentstep = "IDLE"
  /\ m_showVideo = FALSE /\ m_forceNext = FALSE /\ m_bRenderGUI = TRUE
  /\ buffer = Empty /\ overlays = NoOverlays
  /\ at = "top" /\ picture = NoPicture /\ idx = NoBuffer
  /\ unseen = FALSE
  /\ app = "move" /\ renderGUI = TRUE /\ closing = FALSE
  /\ disturbances = 0

(***************************************************************************)
(* The thread of the video player                                          *)
(***************************************************************************)
Go(from, to) == at = from /\ at' = to

\* OutputPicture with the next picture, or again with one that found no buffer.
NextPicture ==
  /\ Go("top", "configure")
  /\ picture + 1 \in Picture /\ picture' = picture + 1
  /\ UNCHANGED <<idx, unseen, appVars, stateVars, listVars, flagVars, dataVars>>

SamePicture ==
  /\ \/ Go("again", "configure")
     \/ Go("again", "top")
  /\ UNCHANGED <<picture, idx, unseen, appVars, stateVars, listVars, flagVars, dataVars>>

ThreadEnds ==
  /\ closing /\ Go("top", "ended")
  /\ UNCHANGED <<picture, idx, unseen, appVars, stateVars, listVars, flagVars, dataVars>>

\* ShowVideo; what hides the video also discards its buffers, in a step of its
\* own.  A flush discards them without.
ShowVideo(enable) ==
  /\ Go("top", IF enable THEN "top" ELSE "discard")
  /\ m_showVideo' = enable
  /\ UNCHANGED <<picture, idx, unseen, appVars, stateVars, listVars, m_forceNext,
                 m_bRenderGUI, dataVars>>

DiscardBuffer ==
  /\ m_discard' = m_discard \o m_queued /\ m_queued' = <<>>
  /\ m_presentstep' = IF m_presentstep = "READY" THEN "IDLE" ELSE m_presentstep
  /\ UNCHANGED <<m_QueueSize, m_free, m_presentsource, m_presentsourcePast>>

DiscardOnMessage ==
  /\ at \in {"top", "discard"} /\ at' = "top"
  /\ DiscardBuffer
  /\ UNCHANGED <<picture, idx, unseen, appVars, stateVars, flagVars, dataVars>>

\* Mutant of SameConfiguration: leaves the parameters to the renderer.
SameRenderer == m_pRenderer \in Params

\* Nothing changed since the last Configure, as far as the renderer can see.
SameConfiguration ==
  /\ m_picture = ParamsOf[picture]
  /\ m_pRenderer \in Params

ConfigureStart ==
  /\ at = "configure"
  /\ \/ /\ ~m_bRenderGUI
        /\ at' = "buffer"
        /\ degraded' = (degraded \/ m_pRenderer # ParamsOf[picture])
     \/ /\ m_bRenderGUI /\ SameConfiguration
        /\ at' = "buffer" /\ UNCHANGED degraded
     \/ /\ m_bRenderGUI
        /\ ~(SameConfiguration /\ m_pRenderer = ParamsOf[picture])
        /\ at' = "present" /\ UNCHANGED degraded
  /\ UNCHANGED <<picture, idx, unseen, appVars, m_renderState, m_pRenderer, m_picture,
                 m_stateEvent, listVars, flagVars, dataVars>>

\* Mutant of AwaitIdle: waits for a picture to be taken, not to be shown.
AwaitNotReady ==
  /\ at \in {"present", "recheck"}
  /\ at' = IF m_presentstep # "READY" THEN "change" ELSE "idle"
  /\ m_forceNext' = (m_presentstep = "READY")
  /\ UNCHANGED <<picture, idx, unseen, appVars, stateVars, listVars, m_showVideo,
                 m_bRenderGUI, dataVars>>

\* Wait until any queued frame was fully presented, for at most 5 seconds.
AwaitIdle ==
  /\ at \in {"present", "recheck"}
  /\ at' = IF m_presentstep = "IDLE" THEN "change" ELSE "idle"
  /\ m_forceNext' = (m_presentstep # "IDLE")
  /\ UNCHANGED <<picture, idx, unseen, appVars, stateVars, listVars, m_showVideo,
                 m_bRenderGUI, dataVars>>

IdleTimeout ==
  /\ Go("idle", IF m_presentstep = "IDLE" THEN "recheck" ELSE "top")
  /\ m_forceNext' = (m_presentstep = "IDLE")
  /\ UNCHANGED <<picture, idx, unseen, appVars, stateVars, listVars, m_showVideo,
                 m_bRenderGUI, dataVars>>

ConfigureChange ==
  /\ Go("change", "state")
  /\ m_picture' = ParamsOf[picture]
  /\ m_renderState' = "CONFIGURING" /\ m_stateEvent' = FALSE
  /\ m_presentstep' = "READY"
  /\ UNCHANGED <<picture, idx, unseen, appVars, m_pRenderer, degraded, m_QueueSize,
                 m_free, m_queued, m_discard, m_presentsource,
                 m_presentsourcePast, flagVars, dataVars>>

StateAnswered ==
  /\ Go("state", "check") /\ m_stateEvent
  /\ m_stateEvent' = FALSE
  /\ UNCHANGED <<picture, idx, unseen, appVars, m_renderState, m_pRenderer, m_picture,
                 degraded, listVars, flagVars, dataVars>>

\* The render thread did not answer within a second.
StateTimeout ==
  /\ Go("state", "top") /\ ~m_stateEvent
  /\ degraded' = TRUE
  /\ UNCHANGED <<picture, idx, unseen, appVars, m_renderState, m_pRenderer, m_picture,
                 m_stateEvent, listVars, flagVars, dataVars>>

ConfigureEnd ==
  /\ Go("check", IF m_renderState = "CONFIGURED" THEN "buffer" ELSE "top")
  /\ degraded' = (degraded \/ m_renderState # "CONFIGURED")
  /\ UNCHANGED <<picture, idx, unseen, appVars, m_renderState, m_pRenderer, m_picture,
                 m_stateEvent, listVars, flagVars, dataVars>>

\* WaitForBuffer: without a GUI it discards the queue after a pause, with one
\* it waits for a free buffer and takes the overlays off it.
WithoutGui == ~m_bRenderGUI \/ ~renderGUI

StartPause ==
  /\ WithoutGui /\ Go("buffer", "pause")
  /\ m_bRenderGUI' = FALSE
  /\ UNCHANGED <<picture, idx, unseen, appVars, stateVars, listVars, m_showVideo,
                 m_forceNext, dataVars>>

EndPause ==
  /\ Go("pause", "overlay") /\ unseen' = TRUE
  /\ DiscardBuffer
  /\ UNCHANGED <<picture, idx, appVars, stateVars, flagVars, dataVars>>

Release(lists, released) ==
  [b \in Buffer |-> IF b \in released THEN {} ELSE lists[b]]

\* Mutant of BufferReady: leaves the overlays to AddOverlay.
BufferReadyUnreleased ==
  /\ \/ at = "buffer" /\ ~WithoutGui
     \/ at = "free"
  /\ m_free # <<>> /\ at' = "overlay"
  /\ UNCHANGED <<picture, idx, unseen, appVars, stateVars, listVars, flagVars,
                 dataVars>>

BufferReady ==
  /\ \/ at = "buffer" /\ ~WithoutGui
     \/ at = "free"
  /\ m_free # <<>>
  /\ at' = "overlay"
  /\ overlays' = Release(overlays, {Head(m_free)})
  /\ UNCHANGED <<picture, idx, unseen, appVars, stateVars, listVars, flagVars, buffer>>

AwaitBuffer ==
  /\ ~WithoutGui /\ m_free = <<>>
  /\ Go("buffer", "free")
  /\ UNCHANGED <<picture, idx, unseen, appVars, stateVars, listVars, flagVars, dataVars>>

BufferTimeout ==
  /\ Go("free", "again")
  /\ UNCHANGED <<picture, idx, unseen, appVars, stateVars, listVars, flagVars, dataVars>>

\* ProcessOverlays: a picture may have an overlay.  AddOverlay reads the buffer
\* in one critical section and uses it after.
OverlayBuffer ==
  /\ \/ m_free # <<>> /\ Go("overlay", "attach") /\ idx' = Head(m_free)
     \/ Go("overlay", "add") /\ UNCHANGED idx
  /\ UNCHANGED <<picture, unseen, appVars, stateVars, listVars, flagVars, dataVars>>

AttachOverlay ==
  /\ Go("attach", "add")
  /\ overlays' = [overlays EXCEPT ![idx] = @ \cup {picture}]
  /\ idx' = NoBuffer
  /\ UNCHANGED <<picture, unseen, appVars, stateVars, listVars, flagVars, buffer>>

\* AddVideoPicture.  While the stream starts, the player waits for the render
\* thread to take the picture, for at most 200 milliseconds.
DropPicture ==
  /\ Go("add", "top")
  /\ m_free = <<>> \/ m_pRenderer = "none"
  /\ UNCHANGED <<picture, idx, unseen, appVars, stateVars, listVars, flagVars, dataVars>>

\* Mutant of AddVideoPicture: puts the picture in front of those that wait.
AddVideoPictureFirst ==
  /\ Go("add", "top") /\ m_free # <<>> /\ m_pRenderer # "none"
  /\ buffer' = [buffer EXCEPT ![Head(m_free)] = picture]
  /\ m_queued' = <<Head(m_free)>> \o m_queued /\ m_free' = Tail(m_free)
  /\ m_presentstep' = IF m_presentstep = "IDLE" THEN "READY" ELSE m_presentstep
  /\ UNCHANGED <<picture, idx, unseen, appVars, stateVars, m_QueueSize, m_discard,
                 m_presentsource, m_presentsourcePast, flagVars, overlays>>

AddVideoPicture ==
  /\ at = "add" /\ m_free # <<>> /\ m_pRenderer # "none"
  /\ buffer' = [buffer EXCEPT ![Head(m_free)] = picture]
  /\ m_queued' = Append(m_queued, Head(m_free)) /\ m_free' = Tail(m_free)
  /\ m_presentstep' = IF m_presentstep = "IDLE" THEN "READY" ELSE m_presentstep
  /\ \/ at' = "top" /\ UNCHANGED m_forceNext
     \/ /\ m_presentstep' = "READY"
        /\ at' = "forced" /\ m_forceNext' = TRUE
  /\ UNCHANGED <<picture, idx, unseen, appVars, stateVars, m_QueueSize, m_discard,
                 m_presentsource, m_presentsourcePast, m_showVideo,
                 m_bRenderGUI, overlays>>

EndForced ==
  /\ Go("forced", "top")
  /\ m_forceNext' = FALSE
  /\ UNCHANGED <<picture, idx, unseen, appVars, stateVars, listVars, m_showVideo,
                 m_bRenderGUI, dataVars>>

(***************************************************************************)
(* The application's thread                                                *)
(***************************************************************************)
\* m_presentevent.notifyAll: what Configure of the player waits for.
Notify == at' = IF at = "idle" THEN "recheck" ELSE at

FrameMove ==
  /\ app = "move"
  /\ app' = CASE m_renderState = "UNCONFIGURED" -> "render"
               [] m_renderState = "CONFIGURING"  -> "configure"
               [] OTHER                          -> "present"
  /\ UNCHANGED <<playerVars, renderGUI, closing, disturbances,
                 stateVars, listVars, flagVars, dataVars>>

\* Configure of the render thread: a new renderer, which may fail.
Configure ==
  /\ app = "configure"
  /\ m_pRenderer' = m_picture /\ m_stateEvent' = TRUE
  /\ buffer' = Empty
  /\ \/ /\ m_renderState' = "CONFIGURED" /\ app' = "present"
        /\ m_QueueSize' = RenderBuffers /\ m_free' = AllFree(RenderBuffers)
        /\ m_queued' = <<>> /\ m_discard' = <<>>
        /\ m_presentsource' = 0 /\ m_presentsourcePast' = NoBuffer
        /\ m_presentstep' = "IDLE" /\ m_bRenderGUI' = TRUE
        /\ Notify
        /\ UNCHANGED overlays
     \/ /\ m_renderState' = "UNCONFIGURED" /\ app' = "render"
        /\ UNCHANGED <<at, listVars, m_bRenderGUI, overlays>>
  /\ UNCHANGED <<picture, idx, unseen, renderGUI, closing, disturbances,
                 m_picture, degraded, m_showVideo, m_forceNext>>

\* CreateRenderer finds none: the state stays, and the next FrameMove tries again.
CreateRendererFails ==
  /\ app = "configure" /\ app' = "render"
  /\ m_pRenderer' = "none" /\ buffer' = Empty
  /\ UNCHANGED <<playerVars, renderGUI, closing, disturbances, m_renderState, m_picture,
                 m_stateEvent, degraded, listVars, flagVars, overlays>>

\* Mutant of PrepareNextRender: the picture that was blended is forgotten.
PrepareForgetting(l, due, near) ==
  IF due > 0
  THEN [queued  |-> SubSeq(l.queued, due + 1, Len(l.queued)),
        discard |-> l.discard \o SubSeq(l.queued, 1, due - 2) \o <<l.source>>,
        source  |-> l.queued[due],
        past    |-> IF due > 1 THEN l.queued[due - 1] ELSE NoBuffer,
        step    |-> "FRAME"]
  ELSE IF near
  THEN [l EXCEPT !.queued = Tail(@), !.source = Head(l.queued), !.past = l.source,
                 !.step = "FRAME"]
  ELSE l

\* PrepareNextRender on the lists l when the first "due" queued pictures are
\* due, or the next one is less than a frame away.  Late pictures are skipped;
\* the last of them stays as m_presentsourcePast to be blended.
PrepareNextRender(l, due, near) ==
  LET combined == l.past # NoBuffer
      kept == IF combined
              THEN [l EXCEPT !.discard = Append(@, l.past), !.past = NoBuffer]
              ELSE l
  IN  IF due > 0
      THEN [queued  |-> SubSeq(l.queued, due + 1, Len(l.queued)),
            discard |-> kept.discard \o SubSeq(l.queued, 1, due - 2)
                          \o <<l.source>>,
            source  |-> l.queued[due],
            past    |-> IF due > 1 THEN l.queued[due - 1] ELSE NoBuffer,
            step    |-> "FRAME"]
      ELSE IF near /\ ~combined
      THEN [kept EXCEPT !.queued = Tail(@), !.source = Head(l.queued),
                        !.past = l.source, !.step = "FRAME"]
      ELSE kept

Lists == [queued |-> m_queued, discard |-> m_discard, source |-> m_presentsource,
          past |-> m_presentsourcePast,
          step |-> IF m_queued = <<>> THEN "IDLE" ELSE m_presentstep]

\* The buffers of a list that are in a set.
Select(list, set) == SubSeqAt(list, {i \in DOMAIN list : list[i] \in set})

Prepares == Lists.step = "READY" /\ (m_showVideo \/ m_forceNext)

\* The rest of FrameMove: PRESENT_FLIP becomes PRESENT_FRAME at once; discarded
\* buffers that the renderer does not need are released.
Present(due, near, needed) ==
  /\ app = "present"
  /\ LET l == IF Prepares THEN PrepareNextRender(Lists, due, near) ELSE Lists
         released == IF m_bRenderGUI THEN ToSet(l.discard) \ needed
                     ELSE ToSet(l.discard)
     IN  /\ m_queued' = l.queued
         /\ m_discard' = Select(l.discard, Buffer \ released)
         /\ m_free' = m_free \o Select(l.discard, released)
         /\ m_presentsource' = l.source /\ m_presentsourcePast' = l.past
         /\ m_presentstep' = l.step
         /\ IF l.source # m_presentsource THEN Notify ELSE UNCHANGED at
         /\ overlays' = Release(overlays, released)
         /\ buffer' = [b \in Buffer |->
                          IF b \in released THEN NoPicture ELSE buffer[b]]
  /\ m_bRenderGUI' = TRUE /\ app' = "render"
  /\ UNCHANGED <<picture, idx, unseen, renderGUI, closing, disturbances,
                 stateVars, m_QueueSize, m_showVideo, m_forceNext>>

Due == IF ~Prepares THEN {0}
       ELSE IF m_forceNext THEN 1 .. Len(m_queued) ELSE 0 .. Len(m_queued)

PresentAny ==
  \E due \in Due, near \in BOOLEAN, needed \in SUBSET Buffer :
    Present(due, near, needed)

\* Render, once or twice for a frame: the video, the GUI.  What it draws lies
\* between its look at m_renderState and its last critical section.  A picture
\* with PRESENT_METHOD_BOB has two fields to show.
Drawn == IF m_presentstep = "FRAME" THEN {"FRAME2", "IDLE"}
         ELSE IF m_presentstep = "FRAME2" THEN {"IDLE"} ELSE {m_presentstep}

Render(pass, next) ==
  /\ app = pass /\ renderGUI /\ m_renderState = "CONFIGURED"
  /\ app' = next
  /\ \E step \in Drawn :
       m_presentstep' = IF step = "IDLE" /\ m_queued # <<>> THEN "READY" ELSE step
  /\ Notify
  /\ UNCHANGED <<picture, idx, unseen, renderGUI, closing, disturbances,
                 stateVars, m_QueueSize, m_free, m_queued, m_discard,
                 m_presentsource, m_presentsourcePast, flagVars, dataVars>>

NoRender ==
  /\ app \in {"render", "gui"} /\ (~renderGUI \/ m_renderState # "CONFIGURED")
  /\ app' = "move"
  /\ UNCHANGED <<playerVars, renderGUI, closing, disturbances,
                 stateVars, listVars, flagVars, dataVars>>

\* Flush, posted to the application's thread by CVideoPlayer or called there:
\* a renderer may keep its buffers.
Flush(keeps) ==
  /\ app = "move" /\ disturbances < Disturbances /\ m_pRenderer # "none"
  /\ disturbances' = disturbances + 1
  /\ overlays' = NoOverlays
  /\ IF keeps THEN UNCHANGED <<listVars, buffer>>
     ELSE /\ m_queued' = <<>> /\ m_discard' = <<>>
          /\ m_free' = AllFree(m_QueueSize)
          /\ m_presentsource' = 0 /\ m_presentsourcePast' = NoBuffer
          /\ m_presentstep' = "IDLE"
          /\ buffer' = Empty
          /\ UNCHANGED m_QueueSize
  /\ UNCHANGED <<playerVars, app, renderGUI, closing,
                 stateVars, flagVars>>

\* CloseFile and OpenFile of CVideoPlayer.  PreInit comes after the threads of
\* the last file were joined.
UnInit ==
  /\ app = "move" /\ ~closing
  /\ closing' = TRUE
  /\ m_pRenderer' = "none" /\ m_renderState' = "UNCONFIGURED"
  /\ m_picture' = "none" /\ m_bRenderGUI' = FALSE
  /\ overlays' = NoOverlays /\ buffer' = Empty
  /\ UNCHANGED <<playerVars, app, renderGUI, disturbances,
                 m_stateEvent, degraded, listVars, m_showVideo, m_forceNext>>

PreInit ==
  /\ app = "move" /\ closing /\ at = "ended" /\ disturbances < Disturbances
  /\ disturbances' = disturbances + 1 /\ closing' = FALSE /\ at' = "top"
  /\ IF m_renderState # "UNCONFIGURED"
     THEN UNCHANGED <<m_pRenderer, m_QueueSize, m_presentstep, m_bRenderGUI>>
     ELSE /\ IF m_pRenderer = "none" THEN m_pRenderer' \in {"none", "new"}
             ELSE UNCHANGED m_pRenderer
          /\ m_QueueSize' = 2 /\ m_presentstep' = "IDLE"
          /\ m_bRenderGUI' = TRUE
  /\ UNCHANGED <<picture, idx, unseen, app, renderGUI, m_renderState,
                 m_picture, m_stateEvent, degraded, m_free, m_queued, m_discard,
                 m_presentsource, m_presentsourcePast, m_showVideo,
                 m_forceNext, dataVars>>

\* The screen saver, a standby or another application hides the GUI.
SetRenderGUI ==
  /\ renderGUI' = ~renderGUI
  /\ disturbances' = IF renderGUI THEN disturbances + 1 ELSE disturbances
  /\ disturbances' <= Disturbances
  /\ UNCHANGED <<playerVars, app, closing, stateVars,
                 listVars, flagVars, dataVars>>

(***************************************************************************)
(* The specification                                                       *)
(***************************************************************************)
PlayerStep ==
  \/ NextPicture \/ SamePicture \/ ThreadEnds
  \/ \E enable \in BOOLEAN : ShowVideo(enable)
  \/ DiscardOnMessage
  \/ ConfigureStart \/ AwaitIdle \/ ConfigureChange \/ StateAnswered
  \/ ConfigureEnd
  \/ StartPause \/ EndPause \/ BufferReady \/ AwaitBuffer
  \/ OverlayBuffer \/ AttachOverlay \/ DropPicture \/ AddVideoPicture
  \/ EndForced

Timeout == IdleTimeout \/ StateTimeout \/ BufferTimeout

AppStep ==
  \/ FrameMove \/ Configure \/ CreateRendererFails \/ PresentAny
  \/ \E next \in {"gui", "move"} : Render("render", next)
  \/ Render("gui", "move") \/ NoRender

Next ==
  \/ PlayerStep \/ Timeout \/ AppStep
  \/ \E keeps \in BOOLEAN : Flush(keeps)
  \/ UnInit \/ PreInit \/ SetRenderGUI

Spec == Init /\ [][Next]_vars

(***************************************************************************)
(* Properties                                                              *)
(***************************************************************************)
Numbers == Picture \cup {NoPicture}

TypeOK ==
  /\ m_renderState \in {"UNCONFIGURED", "CONFIGURING", "CONFIGURED"}
  /\ m_pRenderer \in Params \cup {"none", "new"}
  /\ m_picture \in Params \cup {"none"}
  /\ m_QueueSize \in 2 .. RenderBuffers
  /\ m_free \in Seq(Buffer) /\ m_queued \in Seq(Buffer)
  /\ m_discard \in Seq(Buffer)
  /\ m_presentsource \in Buffer
  /\ m_presentsourcePast \in Buffer \cup {NoBuffer}
  /\ m_presentstep \in {"IDLE", "READY", "FRAME", "FRAME2"}
  /\ {m_stateEvent, m_showVideo, m_forceNext, m_bRenderGUI, renderGUI, closing,
      degraded, unseen} \subseteq BOOLEAN
  /\ buffer \in [Buffer -> Numbers]
  /\ overlays \in [Buffer -> SUBSET Picture]
  /\ picture \in Numbers /\ idx \in Buffer \cup {NoBuffer}
  /\ at \in {"top", "discard", "configure", "present", "idle", "recheck", "change",
             "state", "check", "buffer", "pause", "free", "again", "overlay",
             "attach", "add", "forced", "ended"}
  /\ app \in {"move", "configure", "present", "render", "gui"}
  /\ disturbances \in 0 .. Disturbances

Past == IF m_presentsourcePast = NoBuffer THEN <<>> ELSE <<m_presentsourcePast>>
InUse == m_queued \o m_discard \o <<m_presentsource>> \o Past
Places == m_free \o InUse

\* BuffersConserved: every buffer is in one place (free, queued, discarded, on
\* screen, blended with it), a configured renderer has lost none, and a free
\* one has been released.  So AddVideoPicture never writes to a buffer that is
\* shown or waits (RenderManager.cpp:943), whatever is flushed, reconfigured,
\* closed or late.
BuffersConserved ==
  /\ TypeOK
  /\ IsInjective(Places)
  /\ m_renderState = "CONFIGURED" => ToSet(Places) = Buffer
  /\ \A i \in DOMAIN m_free : buffer[m_free[i]] = NoPicture

Shown == {m_presentsource} \cup ToSet(Past)

\* OverlayOnItsPicture: a picture in the queue or on screen carries no overlay
\* of another, although AddOverlay uses the index it read after a flush may
\* have rearranged the buffers (RenderManager.cpp:1045, 1109).  It is about
\* playback in which no picture was passed on without a GUI: that way round
\* WaitForBuffer takes no overlays off the buffer (RenderManager.cpp:1094).  Nor
\* does the render thread's Configure, which matters when it comes late and the
\* player is past WaitForBuffer (RenderManager.cpp:218, OverlayRenderer.cpp:96).
OverlayOnItsPicture ==
  ~unseen /\ ~degraded => \A b \in ToSet(m_queued) \cup Shown :
    buffer[b] # NoPicture => overlays[b] \subseteq {buffer[b]}

\* MatchesRenderer: a picture in the queue or on screen has the parameters the
\* renderer was configured with, unless a Configure returned without its
\* configuration: early, late or in vain (RenderManager.cpp:89, 140).
MatchesRenderer ==
  \A b \in ToSet(m_queued) \cup Shown :
    buffer[b] # NoPicture /\ ~degraded => ParamsOf[buffer[b]] = m_pRenderer

\* OrderKept: what comes on screen was decided after what it replaces; skipped
\* pictures do not come back (RenderManager.cpp:1192).
OrderKept ==
  [][m_presentsource' # m_presentsource
       => buffer'[m_presentsource'] \in {NoPicture}
            \cup {p \in Picture : p > buffer[m_presentsource]}]_vars

\* ReconfigureDropsNothing: "make sure any queued frame was fully presented"
\* (RenderManager.cpp:104): when the render thread rebuilds the buffers no
\* picture waits and no frame is half shown, unless an earlier Configure was
\* given up.
ReconfigureDropsNothing ==
  [][app = "configure" /\ app' = "present" /\ ~degraded
       => /\ \A b \in ToSet(m_queued) : buffer[b] = NoPicture
          /\ m_presentstep \in {"READY", "IDLE"}]_vars
=============================================================================
