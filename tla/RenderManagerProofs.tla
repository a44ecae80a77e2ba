------------------------ MODULE RenderManagerProofs ------------------------
(***************************************************************************)
(* Proofs about RenderManager: the buffers, the overlays, the order and    *)
(* the configuration of the pictures, for rings of any size and any        *)
(* pictures.                                                               *)
(***************************************************************************)
EXTENDS RenderManager, SequenceProofs

\* The player has a picture in its hands that it has not put out.
Holding == {"configure", "present", "idle", "recheck", "change", "state", "check",
            "buffer", "pause", "free", "again", "overlay", "attach", "add"}

\* It is past Configure, the outer one past WaitForBuffer.
Configured == {"buffer", "pause", "free", "overlay", "attach", "add"}
Buffered   == {"overlay", "attach", "add"}

\* The pictures come one after the other.
PictureInv ==
  /\ at \in Holding => picture \in Picture /\ \A b \in Buffer : buffer[b] < picture
  /\ \A b \in Buffer : buffer[b] <= picture
  /\ at = "attach" => idx \in Buffer /\ buffer[idx] = NoPicture

\* The free buffers f, the queued q, the discarded d, the shown one s and the past
\* one p are apart.
Apart(f, q, d, s, p) ==
  /\ IsInjective(f) /\ IsInjective(q) /\ IsInjective(d)
  /\ ToSet(f) \cap ToSet(q) = {} /\ ToSet(f) \cap ToSet(d) = {}
  /\ ToSet(q) \cap ToSet(d) = {}
  /\ s \notin ToSet(f) /\ s \notin ToSet(q) /\ s \notin ToSet(d)
  /\ p \notin ToSet(f) /\ p \notin ToSet(q) /\ p \notin ToSet(d) /\ p # s

All(f, q, d, s, p) == ToSet(f) \cup ToSet(q) \cup ToSet(d) \cup {s, p, NoBuffer}

RingInv ==
  /\ Apart(m_free, m_queued, m_discard, m_presentsource, m_presentsourcePast)
  /\ m_renderState = "CONFIGURED"
       => /\ m_QueueSize = RenderBuffers
          /\ All(m_free, m_queued, m_discard, m_presentsource, m_presentsourcePast)
               = Buffer \cup {NoBuffer}
  /\ \A b \in ToSet(m_free) : buffer[b] = NoPicture

\* Where the threads are with respect to a configuration.
ConfigInv ==
  /\ app = "configure" => m_renderState = "CONFIGURING"
  /\ m_renderState = "CONFIGURING" => m_picture \in Params /\ ~m_stateEvent
  /\ m_renderState = "CONFIGURED" => m_pRenderer = m_picture /\ m_pRenderer \in Params
  /\ m_renderState # "CONFIGURING" /\ m_pRenderer \in Params => m_picture = m_pRenderer
  /\ m_renderState = "CONFIGURING" /\ ~degraded => at = "state"
  /\ at \in {"state", "check"} => m_picture \in {ParamsOf[picture], "none"}
  /\ at \in Configured /\ ~degraded => m_pRenderer \in {ParamsOf[picture], "none"}
  /\ m_renderState = "UNCONFIGURED" /\ ~degraded
       => /\ m_pRenderer \in Params => at \in {"state", "check"}
          /\ \A b \in Buffer : buffer[b] = NoPicture
  /\ m_pRenderer = "none" => \A b \in Buffer : buffer[b] = NoPicture

InSight(q, s, p) == ToSet(q) \cup ({s, p} \ {NoBuffer})

MatchInv ==
  ~degraded => \A b \in InSight(m_queued, m_presentsource, m_presentsourcePast) :
    buffer[b] # NoPicture => ParamsOf[buffer[b]] = m_pRenderer

\* The queue is in the order of the pictures, and after the one on screen.
Ordered(pics, q, s) ==
  /\ \A i \in DOMAIN q : pics[q[i]] # NoPicture => pics[s] < pics[q[i]]
  /\ \A i, j \in DOMAIN q :
       i < j /\ pics[q[j]] # NoPicture => pics[q[i]] < pics[q[j]]

OrderInv == Ordered(buffer, m_queued, m_presentsource)

\* What the wait of Configure for an idle renderer is good for.
Blank == \A b \in ToSet(m_queued) : buffer[b] = NoPicture

IdleInv ==
  /\ m_presentstep = "IDLE" /\ ~degraded => Blank
  /\ m_renderState = "CONFIGURED" => \A b \in ToSet(m_queued) : buffer[b] # NoPicture
  /\ app = "present" => m_renderState # "UNCONFIGURED"
  /\ at = "change" /\ ~degraded => m_presentstep = "IDLE"
  /\ m_renderState = "CONFIGURING" /\ ~degraded
       => /\ m_presentstep \in {"READY", "IDLE"} /\ Blank
          /\ app = "present" => m_queued = <<>>

OverlayInv ==
  ~unseen /\ ~degraded =>
    /\ \A b \in InSight(m_queued, m_presentsource, m_presentsourcePast) :
         buffer[b] # NoPicture => overlays[b] \subseteq {buffer[b]}
    /\ at \in Buffered => m_free # <<>> /\ overlays[Head(m_free)] \subseteq {picture}

IInv ==
  /\ TypeOK /\ PictureInv /\ RingInv /\ ConfigInv /\ MatchInv /\ OrderInv /\ IdleInv
  /\ OverlayInv
-----------------------------------------------------------------------------
(* Types.                                                                  *)

Locations ==
  {"top", "discard", "configure", "present", "idle", "recheck", "change", "state",
   "check", "buffer", "pause", "free", "again", "overlay", "attach", "add", "forced",
   "ended"}

\* The pictures are numbers, and the parameters of one are no mark of a renderer.
LEMMA Pictures ==
  /\ Picture \subseteq Nat /\ NoPicture \notin Picture /\ NoPicture = 0
  /\ \A p \in Picture : ParamsOf[p] \in Params
  /\ "none" \notin Params /\ "new" \notin Params
  /\ RenderBuffers \in Nat /\ RenderBuffers >= 2 /\ Buffer \subseteq Nat
  /\ 0 \in Buffer /\ NoBuffer \notin Buffer /\ Disturbances \in Nat
<1>1. /\ Picture \subseteq Nat /\ NoPicture \notin Picture
      /\ "none" \notin Params /\ "new" \notin Params
  BY PictureAssumption
<1>2. \A p \in Picture : ParamsOf[p] \in Params
  BY DEF Params
<1>3. /\ RenderBuffers \in Nat /\ RenderBuffers >= 2 /\ Buffer \subseteq Nat
      /\ 0 \in Buffer /\ NoBuffer \notin Buffer /\ Disturbances \in Nat
  BY RenderAssumption DEF Buffer, NoBuffer
<1> QED
  BY <1>1, <1>2, <1>3 DEF NoPicture

\* The numbers in the buffers and in the player's hands.
LEMMA NumberTypes ==
  ASSUME TypeOK
  PROVE  /\ picture \in Nat /\ picture \in Picture \cup {NoPicture}
         /\ \A b \in Buffer : buffer[b] \in Nat /\ buffer[b] \in Picture \cup {NoPicture}
  BY Pictures DEF TypeOK, Numbers

-----------------------------------------------------------------------------
(* Steps of the player that touch neither the lists nor the buffers.       *)

\* They move its thread; the picture changes at the beginning of the loop only.
QuietStep ==
  \/ NextPicture \/ SamePicture \/ ThreadEnds \/ (\E enable \in BOOLEAN : ShowVideo(enable))
  \/ ConfigureStart \/ AwaitIdle \/ IdleTimeout \/ StateAnswered \/ StateTimeout
  \/ ConfigureEnd \/ StartPause \/ AwaitBuffer \/ BufferTimeout \/ OverlayBuffer
  \/ DropPicture \/ EndForced

\* What they do to the flags.
LEMMA QuietFlags ==
  ASSUME IInv, QuietStep
  PROVE  /\ degraded' \in BOOLEAN /\ m_stateEvent' \in BOOLEAN
         /\ m_showVideo' \in BOOLEAN /\ m_forceNext' \in BOOLEAN /\ m_bRenderGUI' \in BOOLEAN
<1>1. /\ degraded \in BOOLEAN /\ m_stateEvent \in BOOLEAN
      /\ m_showVideo \in BOOLEAN /\ m_forceNext \in BOOLEAN /\ m_bRenderGUI \in BOOLEAN
  BY DEF IInv, TypeOK
<1> USE DEF QuietStep, flagVars, stateVars
<1>2. CASE NextPicture
  BY <1>1, <1>2 DEF NextPicture
<1>3. CASE SamePicture \/ ThreadEnds
  BY <1>1, <1>3 DEF SamePicture, ThreadEnds
<1>4. CASE \E enable \in BOOLEAN : ShowVideo(enable)
  BY <1>1, <1>4 DEF ShowVideo
<1>5. CASE ConfigureStart
  BY <1>1, <1>5 DEF ConfigureStart
<1>6. CASE AwaitIdle \/ IdleTimeout
  BY <1>1, <1>6 DEF AwaitIdle, IdleTimeout
<1>7. CASE StateAnswered \/ StateTimeout
  BY <1>1, <1>7 DEF StateAnswered, StateTimeout
<1>8. CASE ConfigureEnd
  BY <1>1, <1>8 DEF ConfigureEnd
<1>9. CASE StartPause \/ AwaitBuffer \/ BufferTimeout
  BY <1>1, <1>9 DEF StartPause, AwaitBuffer, BufferTimeout
<1>10. CASE OverlayBuffer
  BY <1>1, <1>10 DEF OverlayBuffer
<1>11. CASE DropPicture \/ EndForced
  BY <1>1, <1>11 DEF DropPicture, EndForced
<1> QED
  BY <1>2, <1>3, <1>4, <1>5, <1>6, <1>7, <1>8, <1>9, <1>10, <1>11

\* degraded is never taken back, and the state event is set by the render thread only.
LEMMA QuietSigns ==
  ASSUME IInv, QuietStep
  PROVE  (degraded => degraded') /\ (m_stateEvent' => m_stateEvent)
<1> USE DEF QuietStep, stateVars
<1>2. CASE NextPicture
  BY <1>2 DEF NextPicture
<1>3. CASE SamePicture \/ ThreadEnds
  BY <1>3 DEF SamePicture, ThreadEnds
<1>4. CASE \E enable \in BOOLEAN : ShowVideo(enable)
  BY <1>4 DEF ShowVideo
<1>5. CASE ConfigureStart
  <2>1. degraded => degraded'
    BY <1>5 DEF ConfigureStart
  <2>2. m_stateEvent' => m_stateEvent
    BY <1>5 DEF ConfigureStart
  <2> QED
    BY <2>1, <2>2
<1>6. CASE AwaitIdle \/ IdleTimeout
  BY <1>6 DEF AwaitIdle, IdleTimeout
<1>7. CASE StateAnswered \/ StateTimeout
  BY <1>7 DEF StateAnswered, StateTimeout
<1>8. CASE ConfigureEnd
  BY <1>8 DEF ConfigureEnd
<1>9. CASE StartPause \/ AwaitBuffer \/ BufferTimeout
  BY <1>9 DEF StartPause, AwaitBuffer, BufferTimeout
<1>10. CASE OverlayBuffer
  BY <1>10 DEF OverlayBuffer
<1>11. CASE DropPicture \/ EndForced
  BY <1>11 DEF DropPicture, EndForced
<1> QED
  BY <1>2, <1>3, <1>4, <1>5, <1>6, <1>7, <1>8, <1>9, <1>10, <1>11

\* What they leave alone, and what their guards tell of where the thread goes.
LEMMA QuietFacts ==
  ASSUME IInv, QuietStep
  PROVE  /\ UNCHANGED <<appVars, listVars, dataVars, m_renderState, m_pRenderer, m_picture,
                        unseen>>
         /\ at' \in Locations
         /\ \/ picture' = picture
            \/ /\ at = "top" /\ at' = "configure"
               /\ picture' = picture + 1 /\ picture' \in Picture
         /\ at' \in Holding => at \in Holding \/ picture' = picture + 1
         /\ \/ idx' = idx /\ (at' # "attach")
            \/ m_free # <<>> /\ idx' = Head(m_free)
<1>1. at \in Locations
  BY DEF IInv, TypeOK, Locations
<1> USE DEF QuietStep, Go, stateVars, Locations, Holding
<1>2. CASE NextPicture
  BY <1>1, <1>2 DEF NextPicture
<1>3. CASE SamePicture \/ ThreadEnds
  BY <1>1, <1>3 DEF SamePicture, ThreadEnds
<1>4. CASE \E enable \in BOOLEAN : ShowVideo(enable)
  BY <1>1, <1>4 DEF ShowVideo
<1>5. CASE ConfigureStart
  BY <1>1, <1>5 DEF ConfigureStart
<1>6. CASE AwaitIdle \/ IdleTimeout
  BY <1>1, <1>6 DEF AwaitIdle, IdleTimeout
<1>7. CASE StateAnswered \/ StateTimeout
  BY <1>1, <1>7 DEF StateAnswered, StateTimeout
<1>8. CASE ConfigureEnd
  BY <1>1, <1>8 DEF ConfigureEnd
<1>9. CASE StartPause \/ AwaitBuffer \/ BufferTimeout
  BY <1>1, <1>9 DEF StartPause, AwaitBuffer, BufferTimeout
<1>10. CASE OverlayBuffer
  BY <1>1, <1>10 DEF OverlayBuffer
<1>11. CASE DropPicture \/ EndForced
  BY <1>1, <1>11 DEF DropPicture, EndForced
<1> QED
  BY <1>2, <1>3, <1>4, <1>5, <1>6, <1>7, <1>8, <1>9, <1>10, <1>11

\* The guards that Configure and WaitForBuffer rest on.
LEMMA QuietGuards ==
  ASSUME IInv, QuietStep
  PROVE  /\ at = "state" => m_stateEvent \/ degraded'
         /\ at' = "state" => at = "state"
         /\ at' \in {"state", "check"} => at \in {"state", "check"} /\ picture' = picture
         /\ at \in {"state", "check"} /\ ~degraded'
              => at' \in {"state", "check"} \/ m_renderState = "CONFIGURED"
         /\ at' \in Configured /\ ~degraded'
              => /\ picture' = picture
                 /\ \/ at \in Configured \/ m_pRenderer = ParamsOf[picture]
                    \/ m_pRenderer \in Params /\ m_picture = ParamsOf[picture]
                    \/ at = "check" /\ m_renderState = "CONFIGURED"
         /\ at' = "change" => m_presentstep = "IDLE"
         /\ at' \in Buffered => at \in Buffered /\ picture' = picture
<1>1. degraded \in BOOLEAN
  BY DEF IInv, TypeOK
<1> USE DEF QuietStep, Go, Configured, Buffered, stateVars
<1>2. CASE NextPicture
  BY <1>1, <1>2 DEF NextPicture
<1>3. CASE SamePicture \/ ThreadEnds
  BY <1>1, <1>3 DEF SamePicture, ThreadEnds
<1>4. CASE \E enable \in BOOLEAN : ShowVideo(enable)
  BY <1>1, <1>4 DEF ShowVideo
<1>5. CASE ConfigureStart
  BY <1>1, <1>5 DEF ConfigureStart, SameConfiguration
<1>6. CASE AwaitIdle \/ IdleTimeout
  BY <1>1, <1>6 DEF AwaitIdle, IdleTimeout
<1>7. CASE StateAnswered \/ StateTimeout
  BY <1>1, <1>7 DEF StateAnswered, StateTimeout
<1>8. CASE ConfigureEnd
  BY <1>1, <1>8 DEF ConfigureEnd
<1>9. CASE StartPause \/ AwaitBuffer \/ BufferTimeout
  BY <1>1, <1>9 DEF StartPause, AwaitBuffer, BufferTimeout
<1>10. CASE OverlayBuffer
  BY <1>1, <1>10 DEF OverlayBuffer
<1>11. CASE DropPicture \/ EndForced
  BY <1>1, <1>11 DEF DropPicture, EndForced
<1> QED
  BY <1>2, <1>3, <1>4, <1>5, <1>6, <1>7, <1>8, <1>9, <1>10, <1>11

\* They keep the invariant.
LEMMA StepQuiet ==
  ASSUME IInv, QuietStep
  PROVE  IInv'
<1>1. /\ app' = app /\ renderGUI' = renderGUI /\ closing' = closing
      /\ disturbances' = disturbances
      /\ m_QueueSize' = m_QueueSize /\ m_free' = m_free /\ m_queued' = m_queued
      /\ m_discard' = m_discard /\ m_presentsource' = m_presentsource
      /\ m_presentsourcePast' = m_presentsourcePast /\ m_presentstep' = m_presentstep
      /\ buffer' = buffer /\ overlays' = overlays
      /\ m_renderState' = m_renderState /\ m_pRenderer' = m_pRenderer
      /\ m_picture' = m_picture /\ unseen' = unseen
  BY QuietFacts DEF appVars, listVars, dataVars
<1>2. /\ picture \in Nat /\ picture \in Picture \cup {NoPicture}
      /\ \A b \in Buffer : buffer[b] \in Nat
      /\ Picture \subseteq Nat
      /\ m_free \in Seq(Buffer)
  BY NumberTypes, Pictures DEF IInv, TypeOK
<1>3. degraded' \in BOOLEAN /\ (degraded => degraded')
  BY QuietFlags, QuietSigns
<1>4. PictureInv'
  <2>1. \/ picture' = picture
        \/ /\ at = "top" /\ at' = "configure"
           /\ picture' = picture + 1 /\ picture' \in Picture
    BY QuietFacts
  <2>2. at' \in Holding => at \in Holding \/ picture' = picture + 1
    BY QuietFacts
  <2>3. at' \in Holding => picture' \in Picture /\ \A b \in Buffer : buffer[b] < picture'
    BY <1>2, <2>1, <2>2 DEF IInv, PictureInv
  <2>4. \A b \in Buffer : buffer[b] <= picture'
    BY <1>2, <2>1 DEF IInv, PictureInv
  <2>5. at' = "attach" => idx' \in Buffer /\ buffer[idx'] = NoPicture
    <3>1. at' = "attach" => m_free # <<>> /\ idx' = Head(m_free)
      BY QuietFacts
    <3>2. m_free # <<>> => Head(m_free) \in ToSet(m_free) /\ Head(m_free) \in Buffer
      BY <1>2, InjectiveTail DEF IInv, RingInv, Apart
    <3> QED
      BY <3>1, <3>2 DEF IInv, RingInv
  <2> QED
    BY <1>1, <2>3, <2>4, <2>5 DEF PictureInv
<1>5. RingInv'
  BY <1>1 DEF IInv, RingInv
<1>6. ConfigInv'
  <2>1. ConfigInv
    BY DEF IInv
  <2>2. m_renderState = "CONFIGURING" => m_picture \in Params /\ ~m_stateEvent'
    BY <2>1, QuietSigns DEF ConfigInv
  <2>3. m_renderState = "CONFIGURING" /\ ~degraded' => at' = "state"
    <3>1. m_renderState = "CONFIGURING" => ~m_stateEvent
      BY <2>1 DEF ConfigInv
    <3>2. at = "state" => m_stateEvent \/ degraded'
      BY QuietGuards
    <3> QED
      BY <1>3, <2>1, <3>1, <3>2 DEF ConfigInv
  <2>4. at' \in {"state", "check"} => m_picture \in {ParamsOf[picture'], "none"}
    BY <2>1, QuietGuards DEF ConfigInv
  <2>5. m_renderState = "UNCONFIGURED" /\ ~degraded'
          => /\ m_pRenderer \in Params => at' \in {"state", "check"}
             /\ \A b \in Buffer : buffer[b] = NoPicture
    BY <1>3, <2>1, QuietGuards DEF ConfigInv
  <2>6. at' \in Configured /\ ~degraded' => m_pRenderer \in {ParamsOf[picture'], "none"}
    <3> SUFFICES ASSUME at' \in Configured, ~degraded'
                 PROVE  m_pRenderer \in {ParamsOf[picture], "none"} /\ picture' = picture
      OBVIOUS
    <3>1. /\ picture' = picture
          /\ \/ at \in Configured \/ m_pRenderer = ParamsOf[picture]
             \/ m_pRenderer \in Params /\ m_picture = ParamsOf[picture]
             \/ at = "check" /\ m_renderState = "CONFIGURED"
      BY QuietGuards
    <3>2. CASE at \in Configured \/ m_pRenderer = ParamsOf[picture]
      BY <1>3, <2>1, <3>1, <3>2 DEF ConfigInv
    <3>3. CASE m_pRenderer \in Params /\ m_picture = ParamsOf[picture] /\ at \notin Configured
      <4>1. m_renderState # "CONFIGURING" => m_picture = m_pRenderer
        BY <2>1, <3>3 DEF ConfigInv
      <4>2. m_renderState = "CONFIGURING" => at' = "state"
        BY <2>3
      <4> QED
        BY <3>1, <3>3, <4>1, <4>2 DEF Configured
    <3>4. CASE at = "check" /\ m_renderState = "CONFIGURED"
      BY <2>1, <3>1, <3>4 DEF ConfigInv
    <3> QED
      BY <3>1, <3>2, <3>3, <3>4
  <2> QED
    BY <1>1, <2>1, <2>2, <2>3, <2>4, <2>5, <2>6 DEF ConfigInv
<1>7. MatchInv'
  BY <1>1, <1>3 DEF IInv, MatchInv
<1>8. OrderInv'
  BY <1>1 DEF IInv, OrderInv
<1>9. IdleInv'
  <2>1. IdleInv
    BY DEF IInv
  <2>2. at' = "change" => m_presentstep = "IDLE"
    BY QuietGuards
  <2> QED
    BY <1>1, <1>3, <2>1, <2>2 DEF IdleInv, Blank
<1>10. OverlayInv'
  BY <1>1, <1>3, QuietGuards DEF IInv, OverlayInv
<1>11. TypeOK'
  <2>1. /\ m_stateEvent' \in BOOLEAN /\ {m_showVideo', m_forceNext', m_bRenderGUI'} \subseteq BOOLEAN
        /\ at' \in Locations
    BY QuietFacts, QuietFlags
  <2>2. picture' \in Numbers
    BY <1>2, QuietFacts DEF Numbers
  <2>3. idx' \in Buffer \cup {NoBuffer}
    <3>1. idx' = idx \/ (m_free # <<>> /\ idx' = Head(m_free))
      BY QuietFacts
    <3>2. m_free # <<>> => Head(m_free) \in Buffer
      BY <1>2, InjectiveTail DEF IInv, RingInv, Apart
    <3> QED
      BY <3>1, <3>2 DEF IInv, TypeOK
  <2> QED
    BY <1>1, <1>3, <2>1, <2>2, <2>3 DEF IInv, TypeOK, Locations
<1> QED
  BY <1>4, <1>5, <1>6, <1>7, <1>8, <1>9, <1>10, <1>11 DEF IInv
-----------------------------------------------------------------------------
(* The other steps of the player.                                          *)

\* The queue is discarded, on a message or after a pause without a GUI.
LEMMA StepDiscard ==
  ASSUME IInv, DiscardOnMessage \/ EndPause
  PROVE  IInv'
<1>1. /\ app' = app /\ renderGUI' = renderGUI /\ closing' = closing
      /\ disturbances' = disturbances /\ m_stateEvent' = m_stateEvent
      /\ degraded' = degraded /\ m_QueueSize' = m_QueueSize /\ m_free' = m_free
      /\ m_presentsource' = m_presentsource
      /\ m_presentsourcePast' = m_presentsourcePast
      /\ buffer' = buffer /\ overlays' = overlays
      /\ m_renderState' = m_renderState /\ m_pRenderer' = m_pRenderer
      /\ m_picture' = m_picture /\ picture' = picture /\ idx' = idx
      /\ m_showVideo' = m_showVideo /\ m_forceNext' = m_forceNext
      /\ m_bRenderGUI' = m_bRenderGUI
  BY DEF DiscardOnMessage, EndPause, DiscardBuffer, appVars, stateVars, flagVars, dataVars
<1>2. /\ m_discard' = m_discard \o m_queued /\ m_queued' = <<>>
      /\ m_presentstep' = IF m_presentstep = "READY" THEN "IDLE" ELSE m_presentstep
  BY DEF DiscardOnMessage, EndPause, DiscardBuffer
<1>3. \/ at' = "top" /\ at \in {"top", "discard"} /\ unseen' = unseen
      \/ at' = "overlay" /\ at = "pause" /\ unseen' = TRUE
  BY DEF DiscardOnMessage, EndPause, Go
<1>4. /\ m_queued \in Seq(Buffer) /\ m_discard \in Seq(Buffer)
      /\ Apart(m_free, m_queued, m_discard, m_presentsource, m_presentsourcePast)
  BY DEF IInv, TypeOK, RingInv
<1>5. /\ m_discard' \in Seq(Buffer) /\ IsInjective(m_discard')
      /\ ToSet(m_discard') = ToSet(m_discard) \cup ToSet(m_queued)
  BY <1>2, <1>4, InjectiveConcat DEF Apart
<1>6. ToSet(m_queued') = {} /\ IsInjective(m_queued') /\ m_queued' \in Seq(Buffer)
      /\ DOMAIN m_queued' = {}
  BY <1>2 DEF ToSet, IsInjective
<1>7. PictureInv'
  BY <1>1, <1>3 DEF IInv, PictureInv, Holding
<1>8. RingInv'
  <2>1. Apart(m_free, m_queued', m_discard', m_presentsource, m_presentsourcePast)
    BY <1>4, <1>5, <1>6 DEF Apart
  <2>2. All(m_free, m_queued', m_discard', m_presentsource, m_presentsourcePast)
          = All(m_free, m_queued, m_discard, m_presentsource, m_presentsourcePast)
    BY <1>5, <1>6 DEF All
  <2> QED
    BY <1>1, <2>1, <2>2 DEF IInv, RingInv
<1>9. ConfigInv'
  BY <1>1, <1>3 DEF IInv, ConfigInv, Configured
<1>10. MatchInv'
  <2>1. InSight(m_queued', m_presentsource, m_presentsourcePast)
          \subseteq InSight(m_queued, m_presentsource, m_presentsourcePast)
    BY <1>6 DEF InSight
  <2> QED
    BY <1>1, <2>1 DEF IInv, MatchInv
<1>11. OrderInv'
  BY <1>6 DEF OrderInv, Ordered
<1>12. IdleInv'
  <2>1. Blank'
    BY <1>6 DEF Blank
  <2>2. m_presentstep \in {"READY", "IDLE"} => m_presentstep' = "IDLE"
    BY <1>2
  <2> QED
    BY <1>1, <1>2, <1>3, <1>6, <2>1, <2>2 DEF IInv, IdleInv
<1>13. OverlayInv'
  <2>1. InSight(m_queued', m_presentsource, m_presentsourcePast)
          \subseteq InSight(m_queued, m_presentsource, m_presentsourcePast)
    BY <1>6 DEF InSight
  <2> QED
    BY <1>1, <1>3, <2>1 DEF IInv, OverlayInv, Buffered
<1>14. TypeOK'
  <2>1. m_presentstep' \in {"IDLE", "READY", "FRAME", "FRAME2"}
    BY <1>2 DEF IInv, TypeOK
  <2>2. unseen' \in BOOLEAN
    BY <1>3 DEF IInv, TypeOK
  <2> QED
    BY <1>1, <1>3, <1>5, <1>6, <2>1, <2>2 DEF IInv, TypeOK
<1> QED
  BY <1>7, <1>8, <1>9, <1>10, <1>11, <1>12, <1>13, <1>14 DEF IInv

\* The player asks for a configuration.
LEMMA StepConfigureChange ==
  ASSUME IInv, ConfigureChange
  PROVE  IInv'
<1>1. /\ app' = app /\ renderGUI' = renderGUI /\ closing' = closing
      /\ disturbances' = disturbances /\ degraded' = degraded
      /\ m_QueueSize' = m_QueueSize /\ m_free' = m_free /\ m_queued' = m_queued
      /\ m_discard' = m_discard /\ m_presentsource' = m_presentsource
      /\ m_presentsourcePast' = m_presentsourcePast
      /\ buffer' = buffer /\ overlays' = overlays /\ m_pRenderer' = m_pRenderer
      /\ picture' = picture /\ idx' = idx /\ unseen' = unseen
      /\ m_showVideo' = m_showVideo /\ m_forceNext' = m_forceNext
      /\ m_bRenderGUI' = m_bRenderGUI
  BY DEF ConfigureChange, appVars, flagVars, dataVars
<1>2. /\ at = "change" /\ at' = "state" /\ m_picture' = ParamsOf[picture]
      /\ m_renderState' = "CONFIGURING" /\ m_stateEvent' = FALSE
      /\ m_presentstep' = "READY"
  BY DEF ConfigureChange, Go
<1>3. picture \in Picture /\ ParamsOf[picture] \in Params
  BY <1>2, Pictures DEF IInv, PictureInv, Holding
<1>4. PictureInv'
  BY <1>1, <1>2 DEF IInv, PictureInv, Holding
<1>5. RingInv'
  BY <1>1, <1>2 DEF IInv, RingInv
<1>6. ConfigInv'
  BY <1>1, <1>2, <1>3 DEF IInv, ConfigInv, Configured
<1>7. MatchInv'
  BY <1>1 DEF IInv, MatchInv
<1>8. OrderInv'
  BY <1>1 DEF IInv, OrderInv
<1>9. IdleInv'
  <2> SUFFICES ASSUME ~degraded
               PROVE  Blank /\ (app = "present" => m_queued = <<>>)
    BY <1>1, <1>2 DEF IdleInv, Blank
  <2>1. m_presentstep = "IDLE" /\ Blank
    BY <1>2 DEF IInv, IdleInv
  <2>2. m_renderState # "CONFIGURING"
    BY <1>2 DEF IInv, ConfigInv
  <2>3. ASSUME app = "present" PROVE m_queued = <<>>
    <3>1. m_renderState = "CONFIGURED"
      BY <2>2, <2>3 DEF IInv, IdleInv, TypeOK
    <3>2. \A b \in ToSet(m_queued) : buffer[b] # NoPicture
      BY <3>1 DEF IInv, IdleInv
    <3>3. ToSet(m_queued) = {}
      BY <2>1, <3>2 DEF Blank
    <3>4. m_queued \in Seq(Buffer)
      BY DEF IInv, TypeOK
    <3> QED
      BY <3>3, <3>4, ToSetProperties
  <2> QED
    BY <2>1, <2>3
<1>10. OverlayInv'
  BY <1>1, <1>2 DEF IInv, OverlayInv, Buffered
<1>11. TypeOK'
  BY <1>1, <1>2, <1>3 DEF IInv, TypeOK
<1> QED
  BY <1>4, <1>5, <1>6, <1>7, <1>8, <1>9, <1>10, <1>11 DEF IInv

\* WaitForBuffer takes the overlays off the buffer that comes next, AddOverlay adds
\* the one of the picture to the buffer it has seen before.
LEMMA StepOverlay ==
  ASSUME IInv, BufferReady \/ AttachOverlay
  PROVE  IInv'
<1>1. /\ app' = app /\ renderGUI' = renderGUI /\ closing' = closing
      /\ disturbances' = disturbances /\ degraded' = degraded
      /\ m_stateEvent' = m_stateEvent
      /\ m_QueueSize' = m_QueueSize /\ m_free' = m_free /\ m_queued' = m_queued
      /\ m_discard' = m_discard /\ m_presentsource' = m_presentsource
      /\ m_presentsourcePast' = m_presentsourcePast /\ m_presentstep' = m_presentstep
      /\ buffer' = buffer /\ m_pRenderer' = m_pRenderer
      /\ m_renderState' = m_renderState /\ m_picture' = m_picture
      /\ picture' = picture /\ unseen' = unseen
      /\ m_showVideo' = m_showVideo /\ m_forceNext' = m_forceNext
      /\ m_bRenderGUI' = m_bRenderGUI
  BY DEF BufferReady, AttachOverlay, appVars, flagVars, stateVars, listVars
<1>2. \/ /\ at \in {"buffer", "free"} /\ at' = "overlay" /\ idx' = idx /\ m_free # <<>>
         /\ overlays' = Release(overlays, {Head(m_free)})
      \/ /\ at = "attach" /\ at' = "add" /\ idx' = NoBuffer
         /\ overlays' = [overlays EXCEPT ![idx] = overlays[idx] \cup {picture}]
  BY DEF BufferReady, AttachOverlay, Go
<1>3. /\ overlays \in [Buffer -> SUBSET Picture] /\ m_free \in Seq(Buffer)
      /\ at = "attach" => idx \in Buffer /\ buffer[idx] = NoPicture /\ picture \in Picture
      /\ m_free # <<>> => Head(m_free) \in ToSet(m_free) /\ Head(m_free) \in Buffer
  BY InjectiveTail DEF IInv, TypeOK, PictureInv, Holding, RingInv, Apart
<1>4. overlays' \in [Buffer -> SUBSET Picture]
  BY <1>2, <1>3 DEF Release
<1>5. PictureInv'
  BY <1>1, <1>2 DEF IInv, PictureInv, Holding
<1>6. RingInv'
  BY <1>1 DEF IInv, RingInv
<1>7. ConfigInv'
  BY <1>1, <1>2 DEF IInv, ConfigInv, Configured
<1>8. MatchInv'
  BY <1>1 DEF IInv, MatchInv
<1>9. OrderInv'
  BY <1>1 DEF IInv, OrderInv
<1>10. IdleInv'
  BY <1>1, <1>2 DEF IInv, IdleInv, Blank
<1>11. OverlayInv'
  <2> DEFINE V == InSight(m_queued, m_presentsource, m_presentsourcePast)
  <2> SUFFICES ASSUME ~unseen, ~degraded
               PROVE  /\ \A b \in V : buffer[b] # NoPicture => overlays'[b] \subseteq {buffer[b]}
                      /\ m_free # <<>> /\ overlays'[Head(m_free)] \subseteq {picture}
    BY <1>1, <1>2 DEF OverlayInv, Buffered
  <2>1. /\ \A b \in V : buffer[b] # NoPicture => overlays[b] \subseteq {buffer[b]}
        /\ at = "attach" => m_free # <<>> /\ overlays[Head(m_free)] \subseteq {picture}
    BY DEF IInv, OverlayInv, Buffered
  <2>2. V \subseteq Buffer
    <3>1. m_queued \in Seq(Buffer)
      BY DEF IInv, TypeOK
    <3>2. ToSet(m_queued) \subseteq Buffer
      BY <3>1, ToSetProperties
    <3> QED
      BY <3>2 DEF InSight, IInv, TypeOK
  <2> HIDE DEF V
  <2>3. CASE at # "attach"
    <3>1. m_free # <<>> /\ overlays' = [b \in Buffer |-> IF b \in {Head(m_free)} THEN {} ELSE overlays[b]]
      BY <1>2, <2>3 DEF Release
    <3> QED
      BY <1>3, <2>1, <2>2, <3>1
  <2>4. CASE at = "attach"
    <3>1. overlays' = [overlays EXCEPT ![idx] = overlays[idx] \cup {picture}]
      BY <1>2, <2>4
    <3>2. \A b \in V : buffer[b] # NoPicture => overlays'[b] \subseteq {buffer[b]}
      BY <1>3, <2>1, <2>2, <2>4, <3>1
    <3>3. overlays'[Head(m_free)] \subseteq {picture}
      BY <1>3, <2>1, <2>4, <3>1
    <3> QED
      BY <2>1, <2>4, <3>2, <3>3
  <2> QED
    BY <2>3, <2>4
<1>12. TypeOK'
  BY <1>1, <1>2, <1>4 DEF IInv, TypeOK
<1> QED
  BY <1>5, <1>6, <1>7, <1>8, <1>9, <1>10, <1>11, <1>12 DEF IInv

\* The picture goes to the buffer that comes next, and that one to the end of the
\* queue.
LEMMA StepAddVideoPicture ==
  ASSUME IInv, AddVideoPicture
  PROVE  IInv'
<1> DEFINE n == Head(m_free)
<1>1. /\ app' = app /\ renderGUI' = renderGUI /\ closing' = closing
      /\ disturbances' = disturbances /\ degraded' = degraded
      /\ m_stateEvent' = m_stateEvent
      /\ m_QueueSize' = m_QueueSize
      /\ m_discard' = m_discard /\ m_presentsource' = m_presentsource
      /\ m_presentsourcePast' = m_presentsourcePast
      /\ overlays' = overlays /\ m_pRenderer' = m_pRenderer
      /\ m_renderState' = m_renderState /\ m_picture' = m_picture
      /\ picture' = picture /\ unseen' = unseen /\ idx' = idx
      /\ m_showVideo' = m_showVideo /\ m_bRenderGUI' = m_bRenderGUI
  BY DEF AddVideoPicture, appVars, stateVars
<1>2. /\ at = "add" /\ at' \in {"top", "forced"} /\ m_free # <<>> /\ m_pRenderer # "none"
      /\ buffer' = [buffer EXCEPT ![n] = picture]
      /\ m_queued' = Append(m_queued, n) /\ m_free' = Tail(m_free)
      /\ m_presentstep' = IF m_presentstep = "IDLE" THEN "READY" ELSE m_presentstep
      /\ m_forceNext' = m_forceNext \/ m_forceNext' = TRUE
  BY DEF AddVideoPicture
<1>3. /\ m_queued \in Seq(Buffer) /\ m_free \in Seq(Buffer) /\ buffer \in [Buffer -> Numbers]
      /\ Apart(m_free, m_queued, m_discard, m_presentsource, m_presentsourcePast)
      /\ m_presentsource \in Buffer /\ m_presentsourcePast \in Buffer \cup {NoBuffer}
  BY DEF IInv, TypeOK, RingInv
<1>4. /\ picture \in Picture /\ picture \in Nat /\ picture # NoPicture
      /\ \A b \in Buffer : buffer[b] < picture /\ buffer[b] \in Nat
  BY <1>2, Pictures, NumberTypes DEF IInv, PictureInv, Holding
<1>5. /\ m_free' \in Seq(Buffer) /\ IsInjective(m_free') /\ n \in ToSet(m_free)
      /\ n \in Buffer /\ ToSet(m_free') = ToSet(m_free) \ {n}
  BY <1>2, <1>3, InjectiveTail DEF Apart
<1> HIDE DEF n
<1>6. n \notin ToSet(m_queued) /\ n \notin ToSet(m_discard) /\ n # m_presentsource
      /\ n # m_presentsourcePast
  BY <1>3, <1>5 DEF Apart
<1>7. /\ m_queued' \in Seq(Buffer) /\ IsInjective(m_queued')
      /\ ToSet(m_queued') = ToSet(m_queued) \cup {n}
      /\ ToSet(m_queued) \subseteq Buffer
  BY <1>2, <1>3, <1>5, <1>6, InjectiveAppend, ToSetProperties DEF Apart
<1>8. /\ buffer' \in [Buffer -> Numbers] /\ buffer'[n] = picture
      /\ \A b \in Buffer : b # n => buffer'[b] = buffer[b]
  BY <1>2, <1>3, <1>4, <1>5 DEF Numbers
<1>9. PictureInv'
  <2>1. \A b \in Buffer : buffer'[b] <= picture
    BY <1>4, <1>5, <1>8
  <2> QED
    BY <1>1, <1>2, <2>1 DEF PictureInv, Holding
<1>10. RingInv'
  <2>1. Apart(m_free', m_queued', m_discard, m_presentsource, m_presentsourcePast)
    BY <1>3, <1>5, <1>6, <1>7 DEF Apart
  <2>2. All(m_free', m_queued', m_discard, m_presentsource, m_presentsourcePast)
          = All(m_free, m_queued, m_discard, m_presentsource, m_presentsourcePast)
    BY <1>5, <1>7 DEF All
  <2>3. \A b \in ToSet(m_free') : buffer'[b] = NoPicture
    <3>1. ToSet(m_free) \subseteq Buffer
      BY <1>3, ToSetProperties
    <3> QED
      BY <1>5, <1>8, <3>1 DEF IInv, RingInv
  <2> QED
    BY <1>1, <2>1, <2>2, <2>3 DEF IInv, RingInv
<1>11. ConfigInv'
  <2>1. ConfigInv
    BY DEF IInv
  <2>2. m_renderState = "UNCONFIGURED" => degraded
    <3> SUFFICES ASSUME m_renderState = "UNCONFIGURED", ~degraded
                 PROVE  FALSE
      OBVIOUS
    <3>1. m_pRenderer = ParamsOf[picture]
      BY <1>2, <2>1 DEF ConfigInv, Configured
    <3> QED
      BY <1>2, <1>4, <2>1, <3>1, Pictures DEF ConfigInv
  <2> QED
    BY <1>1, <1>2, <2>1, <2>2 DEF ConfigInv, Configured
<1>12. MatchInv'
  <2> SUFFICES ASSUME ~degraded,
                      NEW b \in InSight(m_queued', m_presentsource, m_presentsourcePast),
                      buffer'[b] # NoPicture
               PROVE  ParamsOf[buffer'[b]] = m_pRenderer
    BY <1>1 DEF MatchInv
  <2>1. CASE b = n
    BY <1>2, <1>8, <2>1 DEF IInv, ConfigInv, Configured
  <2>2. CASE b # n
    <3>1. b \in InSight(m_queued, m_presentsource, m_presentsourcePast) /\ b \in Buffer
      BY <1>3, <1>7, <2>2 DEF InSight
    <3> QED
      BY <1>8, <2>2, <3>1 DEF IInv, MatchInv
  <2> QED
    BY <2>1, <2>2
<1>13. OrderInv'
  <2>1. /\ DOMAIN m_queued' = 1 .. (Len(m_queued) + 1) /\ Len(m_queued) \in Nat
        /\ m_queued'[Len(m_queued) + 1] = n /\ DOMAIN m_queued = 1 .. Len(m_queued)
        /\ \A i \in DOMAIN m_queued' :
             i = Len(m_queued) + 1 \/ (i \in DOMAIN m_queued /\ m_queued'[i] = m_queued[i])
    BY <1>2, <1>3, <1>5, AppendElements
  <2>2. \A i \in DOMAIN m_queued : m_queued[i] \in ToSet(m_queued) /\ m_queued[i] \in Buffer
                                     /\ m_queued[i] # n
    BY <1>3, <1>6, <1>7, ToSetProperties
  <2>3. \A i \in DOMAIN m_queued : buffer'[m_queued[i]] = buffer[m_queued[i]]
    BY <1>8, <2>2
  <2>4. buffer'[m_presentsource] = buffer[m_presentsource]
    BY <1>3, <1>6, <1>8
  <2>5. Ordered(buffer, m_queued, m_presentsource)
    BY DEF IInv, OrderInv
  <2>6. ASSUME NEW i \in DOMAIN m_queued', buffer'[m_queued'[i]] # NoPicture
        PROVE  buffer'[m_presentsource] < buffer'[m_queued'[i]]
    <3>1. CASE i = Len(m_queued) + 1
      BY <1>3, <1>4, <1>8, <2>1, <2>4, <3>1
    <3>2. CASE i \in DOMAIN m_queued /\ m_queued'[i] = m_queued[i]
      BY <2>3, <2>4, <2>5, <2>6, <3>2 DEF Ordered
    <3> QED
      BY <2>1, <3>1, <3>2
  <2>7. ASSUME NEW i \in DOMAIN m_queued', NEW j \in DOMAIN m_queued', i < j,
               buffer'[m_queued'[j]] # NoPicture
        PROVE  buffer'[m_queued'[i]] < buffer'[m_queued'[j]]
    <3>1. i \in DOMAIN m_queued /\ m_queued'[i] = m_queued[i]
      BY <2>1, <2>7
    <3>2. CASE j = Len(m_queued) + 1
      BY <1>4, <1>8, <2>1, <2>2, <2>3, <3>1, <3>2
    <3>3. CASE j \in DOMAIN m_queued /\ m_queued'[j] = m_queued[j]
      BY <2>3, <2>5, <2>7, <3>1, <3>3 DEF Ordered
    <3> QED
      BY <2>1, <3>2, <3>3
  <2> QED
    BY <1>1, <2>6, <2>7 DEF OrderInv, Ordered
<1>14. IdleInv'
  <2>1. m_presentstep' # "IDLE"
    BY <1>2
  <2>2. m_renderState = "CONFIGURING" => degraded
    BY <1>2 DEF IInv, ConfigInv
  <2>3. m_renderState = "CONFIGURED" => \A b \in ToSet(m_queued') : buffer'[b] # NoPicture
    BY <1>4, <1>7, <1>8 DEF IInv, IdleInv
  <2> QED
    BY <1>1, <1>2, <2>1, <2>2, <2>3 DEF IInv, IdleInv
<1>15. OverlayInv'
  <2> SUFFICES ASSUME ~unseen, ~degraded,
                      NEW b \in InSight(m_queued', m_presentsource, m_presentsourcePast),
                      buffer'[b] # NoPicture
               PROVE  overlays[b] \subseteq {buffer'[b]}
    BY <1>1, <1>2 DEF OverlayInv, Buffered
  <2>1. CASE b = n
    BY <1>2, <1>8, <2>1 DEF IInv, OverlayInv, Buffered, n
  <2>2. CASE b # n
    <3>1. b \in InSight(m_queued, m_presentsource, m_presentsourcePast) /\ b \in Buffer
      BY <1>3, <1>7, <2>2 DEF InSight
    <3> QED
      BY <1>8, <2>2, <3>1 DEF IInv, OverlayInv
  <2> QED
    BY <2>1, <2>2
<1>16. TypeOK'
  <2>1. m_presentstep' \in {"IDLE", "READY", "FRAME", "FRAME2"}
    BY <1>2 DEF IInv, TypeOK
  <2>2. m_forceNext' \in BOOLEAN
    BY <1>2 DEF IInv, TypeOK
  <2> QED
    BY <1>1, <1>2, <1>5, <1>7, <1>8, <2>1, <2>2 DEF IInv, TypeOK
<1> QED
  BY <1>9, <1>10, <1>11, <1>12, <1>13, <1>14, <1>15, <1>16 DEF IInv
-----------------------------------------------------------------------------
(* The application's thread, when it leaves the lists alone.               *)

\* A queue that is both blank and not is empty.
LEMMA IdleQueue ==
  ASSUME IInv, m_renderState = "CONFIGURED", Blank
  PROVE  m_queued = <<>>
<1>1. m_queued \in Seq(Buffer)
  BY DEF IInv, TypeOK
<1>2. ToSet(m_queued) = {}
  BY DEF IInv, IdleInv, Blank
<1> QED
  BY <1>1, <1>2, ToSetProperties

\* The loop of the application, Render, and a GUI that is hidden or shown.
LEMMA StepAppMoves ==
  ASSUME IInv,
         \/ FrameMove \/ NoRender \/ SetRenderGUI
         \/ \E pass \in {"render", "gui"}, next \in {"gui", "move"} : Render(pass, next)
  PROVE  IInv'
<1>1. /\ closing' = closing /\ degraded' = degraded /\ m_stateEvent' = m_stateEvent
      /\ m_QueueSize' = m_QueueSize /\ m_free' = m_free /\ m_queued' = m_queued
      /\ m_discard' = m_discard /\ m_presentsource' = m_presentsource
      /\ m_presentsourcePast' = m_presentsourcePast
      /\ buffer' = buffer /\ overlays' = overlays
      /\ m_renderState' = m_renderState /\ m_pRenderer' = m_pRenderer
      /\ m_picture' = m_picture /\ picture' = picture /\ idx' = idx /\ unseen' = unseen
      /\ m_showVideo' = m_showVideo /\ m_forceNext' = m_forceNext
      /\ m_bRenderGUI' = m_bRenderGUI
  BY DEF FrameMove, NoRender, SetRenderGUI, Render, playerVars, stateVars, flagVars,
         dataVars, listVars
<1>2. /\ renderGUI' \in BOOLEAN /\ disturbances' \in 0 .. Disturbances
  <2>1. /\ renderGUI \in BOOLEAN /\ disturbances \in 0 .. Disturbances /\ Disturbances \in Nat
    BY Pictures DEF IInv, TypeOK
  <2>2. CASE SetRenderGUI
    BY <2>1, <2>2 DEF SetRenderGUI
  <2>3. CASE ~SetRenderGUI
    BY <2>1, <2>3 DEF FrameMove, NoRender, Render
  <2> QED
    BY <2>2, <2>3
<1>3. /\ at \in Locations /\ m_presentstep \in {"IDLE", "READY", "FRAME", "FRAME2"}
      /\ m_renderState \in {"UNCONFIGURED", "CONFIGURING", "CONFIGURED"}
      /\ app \in {"move", "configure", "present", "render", "gui"}
  BY DEF IInv, TypeOK, Locations
<1>4. /\ at' = at \/ (at = "idle" /\ at' = "recheck")
      /\ \/ m_presentstep' = m_presentstep
         \/ /\ m_renderState = "CONFIGURED"
            /\ m_presentstep' \in {"IDLE", "READY", "FRAME2"}
            /\ m_presentstep' = "IDLE" => m_queued = <<>>
            /\ m_presentstep = "IDLE" /\ m_queued = <<>> => m_presentstep' = "IDLE"
      /\ app' \in {"move", "configure", "present", "render", "gui"}
      /\ app' = "configure" => app = "configure" \/ m_renderState = "CONFIGURING"
      /\ app' = "present" => app = "present" \/ m_renderState = "CONFIGURED"
  <2>1. CASE FrameMove
    BY <1>3, <2>1 DEF FrameMove, playerVars, listVars
  <2>2. CASE NoRender \/ SetRenderGUI
    BY <1>3, <2>2 DEF NoRender, SetRenderGUI, playerVars, listVars
  <2>3. CASE \E pass \in {"render", "gui"}, next \in {"gui", "move"} : Render(pass, next)
    <3>1. /\ m_renderState = "CONFIGURED" /\ app' \in {"gui", "move"}
          /\ at' = at \/ (at = "idle" /\ at' = "recheck")
      BY <2>3 DEF Render, Notify
    <3>2. PICK step \in Drawn :
            m_presentstep' = IF step = "IDLE" /\ m_queued # <<>> THEN "READY" ELSE step
      BY <2>3 DEF Render
    <3>3. /\ step \in {"IDLE", "READY", "FRAME2"}
          /\ m_presentstep = "IDLE" => step = "IDLE"
      BY <1>3, <3>2 DEF Drawn
    <3> QED
      BY <3>1, <3>2, <3>3
  <2> QED
    BY <2>1, <2>2, <2>3
<1>5. PictureInv'
  BY <1>1, <1>4 DEF IInv, PictureInv, Holding
<1>6. RingInv'
  BY <1>1 DEF IInv, RingInv
<1>7. ConfigInv'
  BY <1>1, <1>4 DEF IInv, ConfigInv, Configured
<1>8. MatchInv'
  BY <1>1 DEF IInv, MatchInv
<1>9. OrderInv'
  BY <1>1 DEF IInv, OrderInv
<1>10. IdleInv'
  <2>1. IdleInv
    BY DEF IInv
  <2>2. Blank' <=> Blank
    BY <1>1 DEF Blank
  <2>3. m_queued = <<>> => Blank
    BY DEF Blank, ToSet
  <2>4. CASE m_presentstep' = m_presentstep
    BY <1>1, <1>4, <2>1, <2>2, <2>4 DEF IdleInv
  <2>5. CASE m_presentstep' # m_presentstep
    <3>1. m_presentstep = "IDLE" /\ ~degraded => m_queued = <<>>
      BY <1>4, <2>1, <2>5, IdleQueue DEF IdleInv
    <3> QED
      BY <1>1, <1>4, <2>1, <2>2, <2>3, <2>5, <3>1 DEF IdleInv
  <2> QED
    BY <2>4, <2>5
<1>11. OverlayInv'
  BY <1>1, <1>4 DEF IInv, OverlayInv, Buffered
<1>12. TypeOK'
  <2>1. at' \in Locations /\ m_presentstep' \in {"IDLE", "READY", "FRAME", "FRAME2"}
    BY <1>3, <1>4 DEF Locations
  <2> QED
    BY <1>1, <1>2, <1>4, <2>1 DEF IInv, TypeOK, Locations
<1> QED
  BY <1>5, <1>6, <1>7, <1>8, <1>9, <1>10, <1>11, <1>12 DEF IInv

-----------------------------------------------------------------------------
(* The application's thread, when it begins afresh.                        *)

\* The buffers of a ring that is new: the first is on screen, the others are free.
LEMMA NewRing ==
  ASSUME NEW size \in 2 .. RenderBuffers
  PROVE  /\ AllFree(size) \in Seq(Buffer) /\ AllFree(size) # <<>>
         /\ Apart(AllFree(size), <<>>, <<>>, 0, NoBuffer)
         /\ size = RenderBuffers
              => All(AllFree(size), <<>>, <<>>, 0, NoBuffer) = Buffer \cup {NoBuffer}
<1> DEFINE f == AllFree(size)
<1>1. size \in Nat /\ size >= 2 /\ size <= RenderBuffers /\ RenderBuffers \in Nat
  BY Pictures
<1>2. /\ DOMAIN f = 1 .. size - 1 /\ \A i \in DOMAIN f : f[i] = i
  BY DEF AllFree
<1>3. \A i \in 1 .. size - 1 : i \in Buffer
  BY <1>1 DEF Buffer
<1>4. f \in Seq(Buffer)
  BY <1>1, <1>2, <1>3 DEF AllFree
<1>5. f # <<>>
  BY <1>1, <1>2
<1> HIDE DEF f
<1>6. ToSet(f) = 1 .. size - 1
  <2>1. ToSet(f) = {f[i] : i \in DOMAIN f}
    BY <1>4, ToSetProperties
  <2> QED
    BY <1>2, <2>1
<1>7. ToSet(<<>>) = {} /\ IsInjective(<<>>)
  BY DEF ToSet, IsInjective
<1>8. Apart(f, <<>>, <<>>, 0, NoBuffer)
  <2>1. IsInjective(f)
    BY <1>2 DEF IsInjective
  <2>2. 0 \notin ToSet(f) /\ NoBuffer \notin ToSet(f) /\ NoBuffer # 0
    BY <1>1, <1>6 DEF NoBuffer
  <2> QED
    BY <1>7, <2>1, <2>2 DEF Apart
<1>9. ASSUME size = RenderBuffers
      PROVE  All(f, <<>>, <<>>, 0, NoBuffer) = Buffer \cup {NoBuffer}
  <2>1. Buffer = (1 .. size - 1) \cup {0}
    BY <1>1, <1>9 DEF Buffer
  <2> QED
    BY <1>6, <1>7, <2>1 DEF All
<1> QED
  BY <1>4, <1>5, <1>8, <1>9 DEF f

\* The renderer is made anew, or fails to be.
LEMMA StepConfigure ==
  ASSUME IInv, Configure
  PROVE  IInv'
<1>1. /\ closing' = closing /\ degraded' = degraded /\ m_stateEvent' = TRUE
      /\ renderGUI' = renderGUI /\ disturbances' = disturbances
      /\ m_pRenderer' = m_picture /\ buffer' = Empty /\ m_picture' = m_picture
      /\ picture' = picture /\ idx' = idx /\ unseen' = unseen /\ overlays' = overlays
      /\ m_showVideo' = m_showVideo /\ m_forceNext' = m_forceNext
      /\ m_bRenderGUI' \in {m_bRenderGUI, TRUE}
  BY DEF Configure
<1>2. \/ /\ m_renderState' = "CONFIGURED" /\ app' = "present"
         /\ m_QueueSize' = RenderBuffers /\ m_free' = AllFree(RenderBuffers)
         /\ m_queued' = <<>> /\ m_discard' = <<>>
         /\ m_presentsource' = 0 /\ m_presentsourcePast' = NoBuffer
         /\ m_presentstep' = "IDLE"
         /\ at' = at \/ (at = "idle" /\ at' = "recheck")
      \/ /\ m_renderState' = "UNCONFIGURED" /\ app' = "render" /\ at' = at
         /\ m_QueueSize' = m_QueueSize /\ m_free' = m_free /\ m_queued' = m_queued
         /\ m_discard' = m_discard /\ m_presentsource' = m_presentsource
         /\ m_presentsourcePast' = m_presentsourcePast /\ m_presentstep' = m_presentstep
  BY DEF Configure, Notify, listVars
<1>3. /\ m_renderState = "CONFIGURING" /\ m_picture \in Params
      /\ ~degraded => at = "state"
  BY DEF Configure, IInv, ConfigInv
<1>4. \A b \in Buffer : buffer'[b] = NoPicture
  BY <1>1 DEF Empty
<1>5. /\ at' = at \/ (at = "idle" /\ at' = "recheck")
      /\ ~degraded => at' = "state"
  BY <1>2, <1>3
<1>6. TypeOK'
  <2>1. buffer' \in [Buffer -> Numbers] /\ m_pRenderer' \in Params \cup {"none", "new"}
    BY <1>1, <1>3 DEF Empty, Numbers
  <2>2. /\ m_QueueSize' \in 2 .. RenderBuffers
        /\ m_free' \in Seq(Buffer) /\ m_queued' \in Seq(Buffer)
        /\ m_discard' \in Seq(Buffer) /\ m_presentsource' \in Buffer
        /\ m_presentsourcePast' \in Buffer \cup {NoBuffer}
        /\ m_presentstep' \in {"IDLE", "READY", "FRAME", "FRAME2"}
    <3>1. CASE m_renderState' = "CONFIGURED"
      <4>1. RenderBuffers \in 2 .. RenderBuffers /\ 0 \in Buffer
        BY Pictures
      <4>2. AllFree(RenderBuffers) \in Seq(Buffer)
        BY <4>1, NewRing
      <4> QED
        BY <1>2, <3>1, <4>1, <4>2
    <3>2. CASE m_renderState' = "UNCONFIGURED"
      BY <1>2, <3>2 DEF IInv, TypeOK
    <3> QED
      BY <1>2, <3>1, <3>2
  <2>3. /\ at' \in Locations /\ app' \in {"present", "render"}
        /\ m_renderState' \in {"CONFIGURED", "UNCONFIGURED"} /\ m_bRenderGUI' \in BOOLEAN
    BY <1>1, <1>2 DEF IInv, TypeOK, Locations
  <2> QED
    BY <1>1, <2>1, <2>2, <2>3 DEF IInv, TypeOK, Locations
<1>7. \A b \in ToSet(m_queued') \cup {m_presentsource'} : b \in Buffer
  <2>1. m_queued' \in Seq(Buffer) /\ m_presentsource' \in Buffer
    BY <1>6 DEF TypeOK
  <2> QED
    BY <2>1, ToSetProperties
<1>8. PictureInv'
  <2>1. PictureInv /\ \A b \in Buffer : buffer[b] \in Nat /\ picture \in Nat
    BY NumberTypes DEF IInv
  <2>2. at' \in Holding => picture \in Picture /\ \A b \in Buffer : NoPicture < picture
    <3>1. at' \in Holding => at \in Holding
      BY <1>5 DEF Holding
    <3>2. \A p \in Picture : NoPicture < p
      BY Pictures
    <3> QED
      BY <2>1, <3>1, <3>2 DEF PictureInv
  <2>3. at' = "attach" => idx \in Buffer
    BY <1>5, <2>1 DEF PictureInv
  <2>4. NoPicture <= picture
    BY NumberTypes DEF IInv, NoPicture
  <2> QED
    BY <1>1, <1>4, <2>2, <2>3, <2>4 DEF PictureInv
<1>9. RingInv'
  <2>1. CASE m_renderState' = "CONFIGURED"
    <3>1. /\ Apart(m_free', m_queued', m_discard', m_presentsource', m_presentsourcePast')
          /\ All(m_free', m_queued', m_discard', m_presentsource', m_presentsourcePast')
               = Buffer \cup {NoBuffer}
      <4>1. RenderBuffers \in 2 .. RenderBuffers
        BY Pictures
      <4> QED
        BY <1>2, <2>1, <4>1, NewRing
    <3>2. ToSet(m_free') \subseteq Buffer
      BY <1>6, ToSetProperties DEF TypeOK
    <3> QED
      BY <1>2, <1>4, <2>1, <3>1, <3>2 DEF RingInv
  <2>2. CASE m_renderState' = "UNCONFIGURED"
    <3>1. ToSet(m_free') \subseteq Buffer
      BY <1>6, ToSetProperties DEF TypeOK
    <3> QED
      BY <1>2, <1>4, <2>2, <3>1 DEF IInv, RingInv
  <2> QED
    BY <1>2, <2>1, <2>2
<1>10. ConfigInv'
  <2>1. m_renderState' # "CONFIGURING" /\ app' # "configure"
    BY <1>2
  <2>2. at' \in {"state", "check"} => m_picture \in {ParamsOf[picture], "none"}
    BY <1>5 DEF IInv, ConfigInv
  <2> QED
    BY <1>1, <1>3, <1>4, <1>5, <2>1, <2>2 DEF ConfigInv, Configured
<1>11. MatchInv'
  <2>1. \A b \in InSight(m_queued', m_presentsource', m_presentsourcePast') : b \in Buffer
    BY <1>6, <1>7 DEF InSight, TypeOK
  <2> QED
    BY <1>4, <2>1 DEF MatchInv
<1>12. OrderInv'
  <2>1. \A i \in DOMAIN m_queued' : m_queued'[i] \in Buffer
    BY <1>6 DEF TypeOK
  <2> QED
    BY <1>4, <2>1 DEF OrderInv, Ordered
<1>13. IdleInv'
  <2>1. Blank'
    BY <1>4, <1>7 DEF Blank
  <2>2. m_renderState' = "CONFIGURED" => ToSet(m_queued') = {}
    BY <1>2 DEF ToSet
  <2>3. at' = "change" => degraded
    BY <1>5
  <2> QED
    BY <1>1, <1>2, <2>1, <2>2, <2>3 DEF IdleInv
<1>14. OverlayInv'
  <2>1. \A b \in InSight(m_queued', m_presentsource', m_presentsourcePast') : b \in Buffer
    BY <1>6, <1>7 DEF InSight, TypeOK
  <2> QED
    BY <1>1, <1>4, <1>5, <2>1 DEF OverlayInv, Buffered
<1> QED
  BY <1>6, <1>8, <1>9, <1>10, <1>11, <1>12, <1>13, <1>14 DEF IInv

\* The renderer is flushed; it may keep its buffers.
LEMMA StepFlush ==
  ASSUME IInv, NEW keeps \in BOOLEAN, Flush(keeps)
  PROVE  IInv'
<1>1. /\ closing' = closing /\ degraded' = degraded /\ m_stateEvent' = m_stateEvent
      /\ renderGUI' = renderGUI /\ m_pRenderer' = m_pRenderer /\ m_picture' = m_picture
      /\ m_renderState' = m_renderState /\ app' = app /\ at' = at /\ picture' = picture
      /\ idx' = idx /\ unseen' = unseen /\ m_showVideo' = m_showVideo
      /\ m_forceNext' = m_forceNext /\ m_bRenderGUI' = m_bRenderGUI
      /\ m_QueueSize' = m_QueueSize /\ overlays' = NoOverlays
  BY DEF Flush, playerVars, stateVars, flagVars, listVars
<1>2. \/ /\ m_free' = m_free /\ m_queued' = m_queued /\ m_discard' = m_discard
         /\ m_presentsource' = m_presentsource
         /\ m_presentsourcePast' = m_presentsourcePast
         /\ m_presentstep' = m_presentstep /\ buffer' = buffer
      \/ /\ m_free' = AllFree(m_QueueSize) /\ m_queued' = <<>> /\ m_discard' = <<>>
         /\ m_presentsource' = 0 /\ m_presentsourcePast' = NoBuffer
         /\ m_presentstep' = "IDLE" /\ buffer' = Empty
  BY DEF Flush, listVars
<1>3. app = "move" /\ disturbances' \in 0 .. Disturbances
  <2>1. disturbances \in 0 .. Disturbances /\ Disturbances \in Nat
    BY Pictures DEF IInv, TypeOK
  <2> QED
    BY <2>1 DEF Flush
<1>4. m_QueueSize \in 2 .. RenderBuffers
  BY DEF IInv, TypeOK
<1>5. CASE buffer' = buffer /\ m_free' = m_free /\ m_queued' = m_queued
           /\ m_discard' = m_discard /\ m_presentsource' = m_presentsource
           /\ m_presentsourcePast' = m_presentsourcePast /\ m_presentstep' = m_presentstep
  <2>1. PictureInv' /\ RingInv' /\ MatchInv' /\ OrderInv'
    BY <1>1, <1>5 DEF IInv, PictureInv, RingInv, MatchInv, OrderInv
  <2>2. ConfigInv'
    BY <1>1, <1>5 DEF IInv, ConfigInv
  <2>3. IdleInv'
    BY <1>1, <1>5 DEF IInv, IdleInv, Blank
  <2>4. OverlayInv'
    <3>1. \A b \in InSight(m_queued, m_presentsource, m_presentsourcePast) : b \in Buffer
      <4>1. /\ m_queued \in Seq(Buffer) /\ m_presentsource \in Buffer
            /\ m_presentsourcePast \in Buffer \cup {NoBuffer}
        BY DEF IInv, TypeOK
      <4>2. ToSet(m_queued) \subseteq Buffer
        BY <4>1, ToSetProperties
      <4> QED
        BY <4>1, <4>2 DEF InSight
    <3>2. m_free # <<>> => Head(m_free) \in Buffer
      BY HeadTailElements DEF IInv, TypeOK
    <3>3. \A b \in Buffer : overlays'[b] = {}
      BY <1>1 DEF NoOverlays
    <3>4. ~unseen /\ ~degraded /\ at \in Buffered => m_free # <<>>
      BY DEF IInv, OverlayInv
    <3> QED
      BY <1>1, <1>5, <3>1, <3>2, <3>3, <3>4 DEF OverlayInv
  <2>5. TypeOK'
    <3>1. overlays' \in [Buffer -> SUBSET Picture]
      BY <1>1 DEF NoOverlays
    <3> QED
      BY <1>1, <1>3, <1>5, <3>1 DEF IInv, TypeOK
  <2> QED
    BY <2>1, <2>2, <2>3, <2>4, <2>5 DEF IInv
<1>6. CASE /\ m_free' = AllFree(m_QueueSize) /\ m_queued' = <<>> /\ m_discard' = <<>>
           /\ m_presentsource' = 0 /\ m_presentsourcePast' = NoBuffer
           /\ m_presentstep' = "IDLE" /\ buffer' = Empty
  <2>1. \A b \in Buffer : buffer'[b] = NoPicture
    BY <1>6 DEF Empty
  <2>2. ToSet(m_queued') = {} /\ DOMAIN m_queued' = {}
    BY <1>6 DEF ToSet
  <2>3. m_presentsource' \in Buffer /\ 0 \in Buffer
    BY <1>6, Pictures
  <2>4. m_free' \in Seq(Buffer) /\ m_free' # <<>>
    BY <1>4, <1>6, NewRing
  <2>5. PictureInv'
    <3>1. PictureInv /\ picture \in Nat
      BY NumberTypes DEF IInv
    <3>2. \A p \in Picture : NoPicture < p
      BY Pictures
    <3>3. at \in Holding => picture \in Picture /\ \A b \in Buffer : NoPicture < picture
      BY <3>1, <3>2 DEF PictureInv
    <3>4. at = "attach" => idx \in Buffer
      BY <3>1 DEF PictureInv
    <3>5. NoPicture <= picture
      BY <3>1 DEF NoPicture
    <3> QED
      BY <1>1, <2>1, <3>3, <3>4, <3>5 DEF PictureInv
  <2>6. RingInv'
    <3>1. Apart(m_free', m_queued', m_discard', m_presentsource', m_presentsourcePast')
      BY <1>4, <1>6, NewRing
    <3>2. m_QueueSize = RenderBuffers
            => All(m_free', m_queued', m_discard', m_presentsource', m_presentsourcePast')
                 = Buffer \cup {NoBuffer}
      BY <1>4, <1>6, NewRing
    <3>3. ToSet(m_free') \subseteq Buffer
      BY <2>4, ToSetProperties
    <3>4. m_renderState = "CONFIGURED" => m_QueueSize = RenderBuffers
      BY DEF IInv, RingInv
    <3> QED
      BY <1>1, <2>1, <3>1, <3>2, <3>3, <3>4 DEF RingInv
  <2>7. ConfigInv'
    BY <1>1, <2>1 DEF IInv, ConfigInv
  <2>8. \A b \in InSight(m_queued', m_presentsource', m_presentsourcePast') : b \in Buffer
    BY <1>6, <2>2, <2>3 DEF InSight
  <2>9. MatchInv' /\ OrderInv'
    BY <2>1, <2>2, <2>8 DEF MatchInv, OrderInv, Ordered
  <2>10. IdleInv'
    <3>1. Blank'
      BY <2>2 DEF Blank
    <3> QED
      BY <1>1, <1>3, <1>6, <2>2, <3>1 DEF IdleInv
  <2>11. OverlayInv'
    <3>1. \A b \in Buffer : overlays'[b] = {}
      BY <1>1 DEF NoOverlays
    <3>2. Head(m_free') \in Buffer
      BY <2>4, HeadTailElements
    <3> QED
      BY <2>4, <2>8, <3>1, <3>2 DEF OverlayInv
  <2>12. TypeOK'
    <3>1. overlays' \in [Buffer -> SUBSET Picture] /\ buffer' \in [Buffer -> Numbers]
      BY <1>1, <1>6 DEF NoOverlays, Empty, Numbers
    <3>2. m_queued' \in Seq(Buffer) /\ m_discard' \in Seq(Buffer)
      BY <1>6
    <3> QED
      BY <1>1, <1>3, <1>6, <2>3, <2>4, <3>1, <3>2 DEF IInv, TypeOK
  <2> QED
    BY <2>5, <2>6, <2>7, <2>9, <2>10, <2>11, <2>12 DEF IInv
<1> QED
  BY <1>2, <1>5, <1>6

\* What is in the queue and on screen are buffers.
LEMMA SightTypes ==
  ASSUME TypeOK
  PROVE  /\ \A b \in InSight(m_queued, m_presentsource, m_presentsourcePast) : b \in Buffer
         /\ ToSet(m_queued) \subseteq Buffer /\ ToSet(m_free) \subseteq Buffer
         /\ \A i \in DOMAIN m_queued : m_queued[i] \in Buffer
         /\ m_free # <<>> => Head(m_free) \in Buffer
<1>1. /\ m_queued \in Seq(Buffer) /\ m_free \in Seq(Buffer) /\ m_presentsource \in Buffer
      /\ m_presentsourcePast \in Buffer \cup {NoBuffer}
  BY DEF TypeOK
<1>2. ToSet(m_queued) \subseteq Buffer /\ ToSet(m_free) \subseteq Buffer
  BY <1>1, ToSetProperties
<1>3. m_free # <<>> => Head(m_free) \in Buffer
  BY <1>1, HeadTailElements
<1> QED
  BY <1>1, <1>2, <1>3 DEF InSight

\* No renderer is found.
LEMMA StepCreateRendererFails ==
  ASSUME IInv, CreateRendererFails
  PROVE  IInv'
<1>1. /\ app = "configure" /\ app' = "render" /\ m_pRenderer' = "none" /\ buffer' = Empty
      /\ UNCHANGED <<at, picture, idx, unseen, renderGUI, closing, disturbances,
                     m_renderState, m_picture, m_stateEvent, degraded, m_QueueSize, m_free,
                     m_queued, m_discard, m_presentsource, m_presentsourcePast,
                     m_presentstep, m_showVideo, m_forceNext, m_bRenderGUI, overlays>>
  BY DEF CreateRendererFails, playerVars, listVars, flagVars
<1>2. \A b \in Buffer : buffer'[b] = NoPicture
  BY <1>1 DEF Empty
<1>3. m_renderState = "CONFIGURING"
  BY <1>1 DEF IInv, ConfigInv
<1>4. /\ \A b \in InSight(m_queued, m_presentsource, m_presentsourcePast) : b \in Buffer
      /\ ToSet(m_queued) \subseteq Buffer /\ ToSet(m_free) \subseteq Buffer
      /\ \A i \in DOMAIN m_queued : m_queued[i] \in Buffer
  BY SightTypes DEF IInv
<1>5. PictureInv'
  <2>1. PictureInv /\ picture \in Nat
    BY NumberTypes DEF IInv
  <2>2. at \in Holding => picture \in Picture /\ \A b \in Buffer : NoPicture < picture
    BY <2>1, Pictures DEF PictureInv
  <2>3. /\ at = "attach" => idx \in Buffer
        /\ NoPicture <= picture
    BY <2>1 DEF PictureInv, NoPicture
  <2> QED
    BY <1>1, <1>2, <2>2, <2>3 DEF PictureInv
<1>6. RingInv'
  BY <1>1, <1>2, <1>3, <1>4 DEF IInv, RingInv
<1>7. ConfigInv'
  <2>1. "none" \notin Params
    BY Pictures
  <2> QED
    BY <1>1, <1>2, <1>3, <2>1 DEF IInv, ConfigInv
<1>8. MatchInv' /\ OrderInv'
  BY <1>1, <1>2, <1>4 DEF MatchInv, OrderInv, Ordered
<1>9. IdleInv'
  <2>1. Blank'
    BY <1>1, <1>2, <1>4 DEF Blank
  <2> QED
    BY <1>1, <1>3, <2>1 DEF IInv, IdleInv
<1>10. OverlayInv'
  BY <1>1, <1>2, <1>4 DEF IInv, OverlayInv
<1>11. TypeOK'
  <2>1. buffer' \in [Buffer -> Numbers]
    BY <1>1 DEF Empty, Numbers
  <2> QED
    BY <1>1, <2>1 DEF IInv, TypeOK
<1> QED
  BY <1>5, <1>6, <1>7, <1>8, <1>9, <1>10, <1>11 DEF IInv

\* The file is closed.
LEMMA StepUnInit ==
  ASSUME IInv, UnInit
  PROVE  IInv'
<1>1. /\ closing' = TRUE /\ degraded' = degraded /\ m_stateEvent' = m_stateEvent
      /\ renderGUI' = renderGUI /\ m_pRenderer' = "none" /\ m_picture' = "none"
      /\ m_renderState' = "UNCONFIGURED" /\ app = "move" /\ app' = "move" /\ at' = at
      /\ picture' = picture /\ idx' = idx /\ unseen' = unseen
      /\ m_showVideo' = m_showVideo /\ m_forceNext' = m_forceNext
      /\ m_bRenderGUI' = FALSE /\ disturbances' = disturbances
      /\ overlays' = NoOverlays /\ buffer' = Empty
  BY DEF UnInit, playerVars
<1>2. /\ m_free' = m_free /\ m_queued' = m_queued /\ m_discard' = m_discard
      /\ m_presentsource' = m_presentsource /\ m_QueueSize' = m_QueueSize
      /\ m_presentsourcePast' = m_presentsourcePast /\ m_presentstep' = m_presentstep
  BY DEF UnInit, listVars
<1>3. \A b \in Buffer : buffer'[b] = NoPicture /\ overlays'[b] = {}
  BY <1>1 DEF Empty, NoOverlays
<1>4. /\ \A b \in InSight(m_queued, m_presentsource, m_presentsourcePast) : b \in Buffer
      /\ ToSet(m_queued) \subseteq Buffer /\ ToSet(m_free) \subseteq Buffer
      /\ \A i \in DOMAIN m_queued : m_queued[i] \in Buffer
      /\ m_free # <<>> => Head(m_free) \in Buffer
  BY SightTypes DEF IInv
<1>5. PictureInv'
  <2>1. PictureInv /\ picture \in Nat
    BY NumberTypes DEF IInv
  <2>2. \A p \in Picture : NoPicture < p
    BY Pictures
  <2>3. at \in Holding => picture \in Picture /\ \A b \in Buffer : NoPicture < picture
    BY <2>1, <2>2 DEF PictureInv
  <2>4. at = "attach" => idx \in Buffer
    BY <2>1 DEF PictureInv
  <2>5. NoPicture <= picture
    BY <2>1 DEF NoPicture
  <2> QED
    BY <1>1, <1>3, <2>3, <2>4, <2>5 DEF PictureInv
<1>6. RingInv'
  BY <1>1, <1>2, <1>3, <1>4 DEF IInv, RingInv
<1>7. ConfigInv'
  <2>1. "none" \notin Params
    BY Pictures
  <2> QED
    BY <1>1, <1>3, <2>1 DEF ConfigInv
<1>8. MatchInv' /\ OrderInv'
  BY <1>2, <1>3, <1>4 DEF MatchInv, OrderInv, Ordered
<1>9. IdleInv'
  <2>1. Blank'
    BY <1>2, <1>3, <1>4 DEF Blank
  <2> QED
    BY <1>1, <1>2, <2>1 DEF IInv, IdleInv
<1>10. OverlayInv'
  BY <1>1, <1>2, <1>3, <1>4 DEF IInv, OverlayInv
<1>11. TypeOK'
  <2>1. overlays' \in [Buffer -> SUBSET Picture] /\ buffer' \in [Buffer -> Numbers]
    BY <1>1 DEF NoOverlays, Empty, Numbers
  <2> QED
    BY <1>1, <1>2, <2>1 DEF IInv, TypeOK
<1> QED
  BY <1>5, <1>6, <1>7, <1>8, <1>9, <1>10, <1>11 DEF IInv

\* The next file is opened.
LEMMA StepPreInit ==
  ASSUME IInv, PreInit
  PROVE  IInv'
<1>1. /\ closing' = FALSE /\ degraded' = degraded /\ m_stateEvent' = m_stateEvent
      /\ renderGUI' = renderGUI /\ m_picture' = m_picture
      /\ m_renderState' = m_renderState /\ app = "move" /\ app' = "move"
      /\ at = "ended" /\ at' = "top"
      /\ picture' = picture /\ idx' = idx /\ unseen' = unseen
      /\ m_showVideo' = m_showVideo /\ m_forceNext' = m_forceNext
      /\ m_free' = m_free /\ m_queued' = m_queued /\ m_discard' = m_discard
      /\ m_presentsource' = m_presentsource
      /\ m_presentsourcePast' = m_presentsourcePast
      /\ buffer' = buffer /\ overlays' = overlays
  BY DEF PreInit, dataVars
<1>2. \/ /\ m_pRenderer' = m_pRenderer /\ m_QueueSize' = m_QueueSize
         /\ m_presentstep' = m_presentstep /\ m_bRenderGUI' = m_bRenderGUI
      \/ /\ m_renderState = "UNCONFIGURED"
         /\ m_pRenderer' = m_pRenderer \/ m_pRenderer' = "new"
         /\ m_QueueSize' = 2 /\ m_presentstep' = "IDLE" /\ m_bRenderGUI' = TRUE
  BY DEF PreInit
<1>3. disturbances' \in 0 .. Disturbances
  <2>1. disturbances \in 0 .. Disturbances /\ Disturbances \in Nat
    BY Pictures DEF IInv, TypeOK
  <2> QED
    BY <2>1 DEF PreInit
<1>4. /\ \A b \in InSight(m_queued, m_presentsource, m_presentsourcePast) : b \in Buffer
      /\ ToSet(m_queued) \subseteq Buffer
  BY SightTypes DEF IInv
<1>5. "new" \notin Params /\ "new" # "none"
  BY Pictures
<1>6. m_renderState = "UNCONFIGURED" /\ ~degraded
        => m_pRenderer \notin Params /\ \A b \in Buffer : buffer[b] = NoPicture
  BY <1>1 DEF IInv, ConfigInv
<1>7. PictureInv'
  BY <1>1 DEF IInv, PictureInv, Holding
<1>8. RingInv'
  BY <1>1, <1>2 DEF IInv, RingInv
<1>9. ConfigInv'
  BY <1>1, <1>2, <1>5, <1>6 DEF IInv, ConfigInv, Configured
<1>10. MatchInv'
  <2>1. CASE m_pRenderer' = m_pRenderer
    BY <1>1, <2>1 DEF IInv, MatchInv
  <2>2. CASE m_renderState = "UNCONFIGURED"
    BY <1>1, <1>4, <1>6, <2>2 DEF MatchInv
  <2> QED
    BY <1>2, <2>1, <2>2
<1>11. OrderInv'
  BY <1>1 DEF IInv, OrderInv
<1>12. IdleInv'
  <2>1. Blank' <=> Blank
    BY <1>1 DEF Blank
  <2>2. m_renderState = "UNCONFIGURED" /\ ~degraded => Blank
    BY <1>4, <1>6 DEF Blank
  <2> QED
    BY <1>1, <1>2, <2>1, <2>2 DEF IInv, IdleInv
<1>13. OverlayInv'
  BY <1>1 DEF IInv, OverlayInv, Buffered
<1>14. TypeOK'
  <2>1. m_QueueSize' \in 2 .. RenderBuffers
    <3>1. 2 \in 2 .. RenderBuffers
      BY Pictures
    <3> QED
      BY <1>2, <3>1 DEF IInv, TypeOK
  <2>2. m_pRenderer' \in Params \cup {"none", "new"} /\ m_bRenderGUI' \in BOOLEAN
        /\ m_presentstep' \in {"IDLE", "READY", "FRAME", "FRAME2"}
    BY <1>2 DEF IInv, TypeOK
  <2> QED
    BY <1>1, <1>3, <2>1, <2>2 DEF IInv, TypeOK
<1> QED
  BY <1>7, <1>8, <1>9, <1>10, <1>11, <1>12, <1>13, <1>14 DEF IInv
-----------------------------------------------------------------------------
(* PrepareNextRender and the release of the discarded buffers.             *)

\* A list of one.
LEMMA Singleton ==
  ASSUME NEW b \in Buffer
  PROVE  <<b>> \in Seq(Buffer) /\ IsInjective(<<b>>) /\ ToSet(<<b>>) = {b}
<1>1. <<b>> \in Seq(Buffer)
  OBVIOUS
<1>2. DOMAIN <<b>> = {1} /\ <<b>>[1] = b
  OBVIOUS
<1>3. IsInjective(<<b>>)
  BY <1>2 DEF IsInjective
<1>4. ToSet(<<b>>) = {<<b>>[i] : i \in DOMAIN <<b>>}
  BY <1>1, ToSetProperties
<1>5. ToSet(<<b>>) = {b}
  BY <1>2, <1>4
<1> QED
  BY <1>1, <1>3, <1>5

\* The parts that PrepareNextRender cuts a queue into when the first pictures are due:
\* those that wait, those that come too late, the latest of these; and what it has
\* discarded before.
Rest(q, due)   == SubSeq(q, due + 1, Len(q))
Late(q, due)   == SubSeq(q, 1, due - 2)
Latest(q, due) == IF due > 1 THEN q[due - 1] ELSE NoBuffer
Kept(d, p)     == IF p # NoBuffer THEN Append(d, p) ELSE d

\* What PrepareNextRender takes and returns.
ListsOf(q, d, s, p, step) ==
  [queued |-> q, discard |-> d, source |-> s, past |-> p, step |-> step]

\* Its fields.
LEMMA ListsFields ==
  ASSUME NEW q, NEW d, NEW s, NEW p, NEW step
  PROVE  /\ ListsOf(q, d, s, p, step).queued = q /\ ListsOf(q, d, s, p, step).discard = d
         /\ ListsOf(q, d, s, p, step).source = s /\ ListsOf(q, d, s, p, step).past = p
         /\ ListsOf(q, d, s, p, step).step = step
  BY DEF ListsOf

\* PrepareNextRender, branch by branch: pictures are due ...
LEMMA PrepareDue ==
  ASSUME NEW q, NEW d, NEW s, NEW p, NEW step, NEW due, NEW near, due > 0
  PROVE  PrepareNextRender(ListsOf(q, d, s, p, step), due, near)
           = ListsOf(Rest(q, due), Kept(d, p) \o Late(q, due) \o <<s>>, q[due],
                     Latest(q, due), "FRAME")
<1> DEFINE l == [queued |-> q, discard |-> d, source |-> s, past |-> p, step |-> step]
           blended == [l EXCEPT !.discard = Append(@, l.past), !.past = NoBuffer]
           before == IF p # NoBuffer THEN blended ELSE l
<1>1. /\ l.queued = q /\ l.discard = d /\ l.source = s /\ l.past = p /\ l.step = step
      /\ before.discard = Kept(d, p)
  BY DEF Kept
<1> HIDE DEF l
<1> QED
  BY <1>1 DEF PrepareNextRender, l, Rest, Late, Latest, ListsOf

\* ... or the next one is near, and no picture was blended ...
LEMMA PrepareNear ==
  ASSUME NEW q, NEW d, NEW s, NEW step
  PROVE  PrepareNextRender(ListsOf(q, d, s, NoBuffer, step), 0, TRUE)
           = ListsOf(Tail(q), d, Head(q), s, "FRAME")
<1> DEFINE l == [queued |-> q, discard |-> d, source |-> s, past |-> NoBuffer,
                step |-> step]
           tail == Tail(q)
           head == Head(q)
<1>1. l.queued = q /\ l.discard = d /\ l.source = s /\ l.past = NoBuffer /\ l.step = step
  OBVIOUS
<1> HIDE DEF l
<1>2. PrepareNextRender(l, 0, TRUE)
        = [l EXCEPT !.queued = Tail(@), !.source = Head(l.queued), !.past = l.source,
                    !.step = "FRAME"]
  <2>1. ~(0 > 0) /\ TRUE # FALSE
    OBVIOUS
  <2>2. (IF l.past # NoBuffer
         THEN [l EXCEPT !.discard = Append(@, l.past), !.past = NoBuffer] ELSE l) = l
    BY <1>1
  <2> QED
    BY <1>1, <2>1, <2>2, Zenon DEF PrepareNextRender
<1> HIDE DEF tail, head
<1>3. PrepareNextRender(l, 0, TRUE)
        = [l EXCEPT !.queued = tail, !.source = head, !.past = s, !.step = "FRAME"]
  BY <1>1, <1>2 DEF tail, head
<1>4. PrepareNextRender(l, 0, TRUE)
        = [queued |-> tail, discard |-> d, source |-> head, past |-> s, step |-> "FRAME"]
  BY <1>3 DEF l
<1> QED
  BY <1>4 DEF l, tail, head, ListsOf

\* ... or there is nothing to show but what was blended to be discarded.
LEMMA PrepareNothing ==
  ASSUME NEW q, NEW d, NEW s, NEW p, NEW step, NEW near \in BOOLEAN,
         ~(near /\ p = NoBuffer)
  PROVE  PrepareNextRender(ListsOf(q, d, s, p, step), 0, near)
           = ListsOf(q, Kept(d, p), s, NoBuffer, step)
<1> DEFINE l == [queued |-> q, discard |-> d, source |-> s, past |-> p, step |-> step]
<1>1. l.queued = q /\ l.discard = d /\ l.source = s /\ l.past = p /\ l.step = step
  OBVIOUS
<1> HIDE DEF l
<1>2. CASE p = NoBuffer
  <2>1. PrepareNextRender(l, 0, near) = l
    BY <1>1, <1>2 DEF PrepareNextRender
  <2> QED
    BY <1>2, <2>1 DEF l, Kept, ListsOf
<1>3. CASE p # NoBuffer
  <2> DEFINE late == Append(d, p)
  <2>1. PrepareNextRender(l, 0, near)
          = [l EXCEPT !.discard = Append(@, l.past), !.past = NoBuffer]
    BY <1>1, <1>3 DEF PrepareNextRender
  <2> HIDE DEF late
  <2>2. PrepareNextRender(l, 0, near) = [l EXCEPT !.discard = late, !.past = NoBuffer]
    BY <1>1, <2>1 DEF late
  <2>3. PrepareNextRender(l, 0, near)
          = [queued |-> q, discard |-> late, source |-> s, past |-> NoBuffer, step |-> step]
    BY <2>2 DEF l
  <2> QED
    BY <1>3, <2>3 DEF l, late, Kept, ListsOf
<1> QED
  BY <1>2, <1>3

\* The result r of a preparation, with respect to the lists it began with: the buffers
\* stay apart and none is lost; either the picture on screen stays, or it is one that
\* waited, and the queue goes on after it.
Prepared(f, q, d, s, p, step, r) ==
  /\ r.queued \in Seq(Buffer) /\ r.discard \in Seq(Buffer) /\ r.source \in Buffer
  /\ r.past \in Buffer \cup {NoBuffer}
  /\ Apart(f, r.queued, r.discard, r.source, r.past)
  /\ All(f, r.queued, r.discard, r.source, r.past) = All(f, q, d, s, p)
  /\ InSight(r.queued, r.source, r.past) \subseteq InSight(q, s, p)
  /\ \/ r.queued = q /\ r.source = s /\ r.step = step
     \/ /\ r.step = "FRAME"
        /\ \E k \in DOMAIN q :
             /\ r.source = q[k] /\ DOMAIN r.queued = 1 .. (Len(q) - k)
             /\ \A i \in DOMAIN r.queued : k + i \in DOMAIN q /\ r.queued[i] = q[k + i]

\* The picture that was blended is discarded.
LEMMA KeptProperties ==
  ASSUME NEW d \in Seq(Buffer), NEW p \in Buffer \cup {NoBuffer}, IsInjective(d),
         p \notin ToSet(d)
  PROVE  /\ Kept(d, p) \in Seq(Buffer) /\ IsInjective(Kept(d, p))
         /\ ToSet(Kept(d, p)) = ToSet(d) \cup ({p} \ {NoBuffer})
<1>1. CASE p = NoBuffer
  BY <1>1 DEF Kept
<1>2. CASE p # NoBuffer
  <2>1. /\ Append(d, p) \in Seq(Buffer) /\ ToSet(Append(d, p)) = ToSet(d) \cup {p}
        /\ IsInjective(Append(d, p))
    BY <1>2, InjectiveAppend
  <2> QED
    BY <1>2, <2>1 DEF Kept
<1> QED
  BY <1>1, <1>2

\* A queue q is cut at the last picture that is due: what remains, the late ones but
\* the latest, and that one.
LEMMA Cut ==
  ASSUME NEW q \in Seq(Buffer), IsInjective(q), NEW due \in 1 .. Len(q)
  PROVE  /\ Rest(q, due) \in Seq(Buffer) /\ IsInjective(Rest(q, due))
         /\ DOMAIN Rest(q, due) = 1 .. (Len(q) - due)
         /\ \A i \in DOMAIN Rest(q, due) :
              due + i \in DOMAIN q /\ Rest(q, due)[i] = q[due + i]
         /\ Late(q, due) \in Seq(Buffer) /\ IsInjective(Late(q, due))
         /\ Latest(q, due) \in Buffer \cup {NoBuffer} /\ q[due] \in Buffer /\ due \in DOMAIN q
         /\ ToSet(q) = ToSet(Rest(q, due)) \cup ToSet(Late(q, due)) \cup {q[due]}
                         \cup ({Latest(q, due)} \ {NoBuffer})
         /\ ToSet(Rest(q, due)) \cap ToSet(Late(q, due)) = {}
         /\ q[due] \notin ToSet(Rest(q, due)) /\ q[due] \notin ToSet(Late(q, due))
         /\ Latest(q, due) \notin ToSet(Rest(q, due))
         /\ Latest(q, due) \notin ToSet(Late(q, due)) /\ Latest(q, due) # q[due]
<1> DEFINE rest == Rest(q, due)
           late == Late(q, due)
           latest == Latest(q, due)
<1>0. /\ rest = SubSeq(q, due + 1, Len(q)) /\ late = SubSeq(q, 1, due - 2)
      /\ latest = IF due > 1 THEN q[due - 1] ELSE NoBuffer
  BY DEF Rest, Late, Latest
<1> HIDE DEF rest, late, latest
<1>1. /\ Len(q) \in Nat /\ due \in Nat /\ due >= 1 /\ due <= Len(q) /\ due \in DOMAIN q
      /\ DOMAIN q = 1 .. Len(q)
  OBVIOUS
<1>2. ToSet(q) = {q[i] : i \in DOMAIN q} /\ ToSet(q) \subseteq Buffer
  BY ToSetProperties
<1>3. /\ rest \in Seq(Buffer) /\ IsInjective(rest)
      /\ DOMAIN rest = 1 .. (Len(q) - due)
      /\ \A i \in DOMAIN rest : due + i \in DOMAIN q /\ rest[i] = q[due + i]
      /\ ToSet(rest) = {q[k] : k \in (due + 1) .. Len(q)}
  <2> DEFINE m == due + 1
             n == Len(q)
  <2>1. m \in Nat \ {0} /\ n \in 0 .. Len(q) /\ m <= n + 1 /\ rest = SubSeq(q, m, n)
    BY <1>0, <1>1
  <2> HIDE DEF m, n
  <2>2. /\ SubSeq(q, m, n) \in Seq(Buffer) /\ IsInjective(SubSeq(q, m, n))
        /\ DOMAIN SubSeq(q, m, n) = 1 .. (n - m + 1)
        /\ \A i \in DOMAIN SubSeq(q, m, n) :
             m + i - 1 \in DOMAIN q /\ SubSeq(q, m, n)[i] = q[m + i - 1]
        /\ ToSet(SubSeq(q, m, n)) = {q[k] : k \in m .. n}
    BY ONLY q \in Seq(Buffer), IsInjective(q), <2>1, InjectiveSubSeq
  <2>3. n - m + 1 = Len(q) - due
    BY <1>1 DEF m, n
  <2>4. \A i \in 1 .. (Len(q) - due) : m + i - 1 = due + i
    BY <1>1 DEF m
  <2> QED
    BY <2>1, <2>2, <2>3, <2>4 DEF m, n
<1>4. /\ late \in Seq(Buffer) /\ IsInjective(late)
      /\ ToSet(late) = {q[k] : k \in 1 .. (due - 2)}
  <2>1. CASE due = 1
    <3>1. SubSeq(q, 1, 1 - 2) = <<>>
      OBVIOUS
    <3>2. 1 .. (due - 2) = {} /\ late = <<>>
      BY <1>0, <2>1, <3>1
    <3>3. ToSet(<<>>) = {} /\ IsInjective(<<>>) /\ <<>> \in Seq(Buffer)
      BY DEF IsInjective, ToSet
    <3> QED
      BY <3>2, <3>3
  <2>2. CASE due > 1
    <3> DEFINE m == 1
               n == due - 2
    <3>1. n \in 0 .. Len(q) /\ m <= n + 1 /\ m \in Nat \ {0}
      BY <1>1, <2>2
    <3>2. late = SubSeq(q, m, n)
      BY <1>0
    <3> HIDE DEF m, n
    <3>3. /\ SubSeq(q, m, n) \in Seq(Buffer) /\ IsInjective(SubSeq(q, m, n))
          /\ ToSet(SubSeq(q, m, n)) = {q[k] : k \in m .. n}
      BY ONLY q \in Seq(Buffer), IsInjective(q), <3>1, InjectiveSubSeq
    <3> QED
      BY <3>2, <3>3 DEF m, n
  <2> QED
    BY <1>1, <2>1, <2>2
<1>5. /\ latest \in Buffer \cup {NoBuffer} /\ q[due] \in Buffer
      /\ due > 1 => due - 1 \in DOMAIN q /\ latest = q[due - 1]
      /\ due = 1 => latest = NoBuffer
  BY <1>0, <1>1
<1>6. \A i, j \in DOMAIN q : q[i] = q[j] => i = j
  BY DEF IsInjective
<1>7. NoBuffer \notin Buffer
  BY Pictures
<1>8. /\ \A b \in ToSet(rest) : \E i \in DOMAIN q : i > due /\ b = q[i]
      /\ \A i \in DOMAIN q : i > due => q[i] \in ToSet(rest)
  <2>1. \A i \in (due + 1) .. Len(q) : i \in DOMAIN q /\ i > due
    BY <1>1
  <2>2. \A i \in DOMAIN q : i > due => i \in (due + 1) .. Len(q)
    BY <1>1
  <2> QED
    BY <1>3, <2>1, <2>2
<1>9. /\ \A b \in ToSet(late) : \E i \in DOMAIN q : i < due - 1 /\ b = q[i]
      /\ \A i \in DOMAIN q : i < due - 1 => q[i] \in ToSet(late)
  <2>1. \A i \in 1 .. (due - 2) : i \in DOMAIN q /\ i < due - 1
    BY <1>1
  <2>2. \A i \in DOMAIN q : i < due - 1 => i \in 1 .. (due - 2)
    BY <1>1
  <2> QED
    BY <1>4, <2>1, <2>2
<1>10. ToSet(rest) \cap ToSet(late) = {}
  <2> SUFFICES ASSUME NEW b \in ToSet(rest), b \in ToSet(late)
               PROVE  FALSE
    OBVIOUS
  <2>1. PICK i \in DOMAIN q : i > due /\ b = q[i]
    BY <1>8
  <2>2. PICK j \in DOMAIN q : j < due - 1 /\ b = q[j]
    BY <1>9
  <2>3. i = j
    BY <1>6, <2>1, <2>2
  <2> QED
    BY <1>1, <2>1, <2>2, <2>3
<1>11. q[due] \notin ToSet(rest) /\ q[due] \notin ToSet(late)
  <2>1. ASSUME q[due] \in ToSet(rest) PROVE FALSE
    <3>1. PICK i \in DOMAIN q : i > due /\ q[due] = q[i]
      BY <1>8, <2>1
    <3>2. i = due
      BY <1>1, <1>6, <3>1
    <3> QED
      BY <1>1, <3>1, <3>2
  <2>2. ASSUME q[due] \in ToSet(late) PROVE FALSE
    <3>1. PICK i \in DOMAIN q : i < due - 1 /\ q[due] = q[i]
      BY <1>9, <2>2
    <3>2. i = due
      BY <1>1, <1>6, <3>1
    <3> QED
      BY <1>1, <3>1, <3>2
  <2> QED
    BY <2>1, <2>2
<1>12. latest \notin ToSet(rest) /\ latest \notin ToSet(late) /\ latest # q[due]
  <2>1. CASE due = 1
    <3>1. ToSet(rest) \subseteq Buffer
      BY <1>2, <1>8
    <3>2. ToSet(late) \subseteq Buffer
      BY <1>2, <1>9
    <3> QED
      BY <1>5, <1>7, <2>1, <3>1, <3>2
  <2>2. CASE due > 1
    <3>1. due - 1 \in DOMAIN q /\ latest = q[due - 1]
      BY <1>5, <2>2
    <3>2. \A i \in DOMAIN q : latest = q[i] => i = due - 1
      BY <1>6, <3>1
    <3>3. latest # q[due]
      BY <1>1, <3>2
    <3>4. latest \notin ToSet(rest)
      BY <1>1, <1>8, <3>2
    <3>5. latest \notin ToSet(late)
      BY <1>1, <1>9, <3>2
    <3> QED
      BY <3>3, <3>4, <3>5
  <2> QED
    BY <1>1, <2>1, <2>2
<1>13. ToSet(q) = ToSet(rest) \cup ToSet(late) \cup {q[due]} \cup ({latest} \ {NoBuffer})
  <2>1. ASSUME NEW b \in ToSet(q)
        PROVE  b \in ToSet(rest) \cup ToSet(late) \cup {q[due]} \cup ({latest} \ {NoBuffer})
    <3>1. PICK i \in DOMAIN q : b = q[i]
      BY <1>2
    <3>2. i > due \/ i = due \/ i < due - 1 \/ (due > 1 /\ i = due - 1)
      BY <1>1
    <3>3. b # NoBuffer
      BY <1>2, <1>7
    <3>4. CASE i > due
      BY <1>8, <3>1, <3>4
    <3>5. CASE i < due - 1
      BY <1>9, <3>1, <3>5
    <3>6. CASE i = due
      BY <3>1, <3>6
    <3>7. CASE due > 1 /\ i = due - 1
      BY <1>5, <3>1, <3>3, <3>7
    <3> QED
      BY <3>2, <3>4, <3>5, <3>6, <3>7
  <2>2. ToSet(rest) \subseteq ToSet(q)
    BY <1>2, <1>8
  <2>3. ToSet(late) \subseteq ToSet(q)
    BY <1>2, <1>9
  <2>4. q[due] \in ToSet(q)
    BY <1>1, <1>2
  <2>5. latest # NoBuffer => latest \in ToSet(q)
    BY <1>1, <1>2, <1>5
  <2> QED
    BY <2>1, <2>2, <2>3, <2>4, <2>5
<1> QED
  BY <1>1, <1>3, <1>4, <1>5, <1>10, <1>11, <1>12, <1>13 DEF rest, late, latest

\* Pictures are due: the late ones are skipped.
LEMMA DueEffect ==
  ASSUME NEW f \in Seq(Buffer), NEW q \in Seq(Buffer), NEW d \in Seq(Buffer),
         NEW s \in Buffer, NEW p \in Buffer \cup {NoBuffer}, Apart(f, q, d, s, p),
         NEW step, NEW due \in 1 .. Len(q), NEW near \in BOOLEAN, NEW r,
         r = PrepareNextRender(ListsOf(q, d, s, p, step), due, near)
  PROVE  Prepared(f, q, d, s, p, step, r)
<1> DEFINE kept == Kept(d, p)
           rest == Rest(q, due)
           late == Late(q, due)
           latest == Latest(q, due)
<1>1. r = ListsOf(rest, kept \o late \o <<s>>, q[due], latest, "FRAME")
  <2>1. due > 0
    OBVIOUS
  <2> QED
    BY ONLY <2>1, r = PrepareNextRender(ListsOf(q, d, s, p, step), due, near), PrepareDue
<1>2. /\ kept \in Seq(Buffer) /\ IsInjective(kept)
      /\ ToSet(kept) = ToSet(d) \cup ({p} \ {NoBuffer})
  <2>1. IsInjective(d) /\ p \notin ToSet(d)
    BY DEF Apart
  <2> QED
    BY ONLY <2>1, d \in Seq(Buffer), p \in Buffer \cup {NoBuffer}, KeptProperties
<1>3. IsInjective(q)
  BY DEF Apart
<1>4. /\ rest \in Seq(Buffer) /\ IsInjective(rest)
      /\ DOMAIN rest = 1 .. (Len(q) - due)
      /\ \A i \in DOMAIN rest : due + i \in DOMAIN q /\ rest[i] = q[due + i]
  BY ONLY <1>3, q \in Seq(Buffer), due \in 1 .. Len(q), Cut
<1>5. late \in Seq(Buffer) /\ IsInjective(late)
  BY ONLY <1>3, q \in Seq(Buffer), due \in 1 .. Len(q), Cut
<1>6. latest \in Buffer \cup {NoBuffer} /\ q[due] \in Buffer /\ due \in DOMAIN q
  BY ONLY <1>3, q \in Seq(Buffer), due \in 1 .. Len(q), Cut
<1>8. /\ ToSet(q) = ToSet(rest) \cup ToSet(late) \cup {q[due]} \cup ({latest} \ {NoBuffer})
      /\ ToSet(rest) \cap ToSet(late) = {}
      /\ q[due] \notin ToSet(rest) /\ q[due] \notin ToSet(late)
      /\ latest \notin ToSet(rest) /\ latest \notin ToSet(late) /\ latest # q[due]
  BY ONLY <1>3, q \in Seq(Buffer), due \in 1 .. Len(q), Cut
<1> HIDE DEF kept, rest, late, latest
<1>9. /\ ToSet(d) \cap ToSet(q) = {} /\ s \notin ToSet(q) /\ s \notin ToSet(d)
      /\ p \notin ToSet(q) /\ p # s
      /\ IsInjective(f) /\ ToSet(f) \cap ToSet(q) = {} /\ ToSet(f) \cap ToSet(d) = {}
      /\ s \notin ToSet(f) /\ p \notin ToSet(f)
  BY DEF Apart
<1>10. /\ kept \o late \in Seq(Buffer) /\ IsInjective(kept \o late)
       /\ ToSet(kept \o late) = ToSet(kept) \cup ToSet(late)
  <2>1. ToSet(kept) \cap ToSet(late) = {}
    BY <1>2, <1>8, <1>9
  <2> QED
    BY <1>2, <1>5, <2>1, InjectiveConcat
<1> DEFINE front == kept \o late
           gone == front \o <<s>>
<1> HIDE DEF front, gone
<1>11. gone \in Seq(Buffer) /\ IsInjective(gone) /\ ToSet(gone) = ToSet(kept) \cup ToSet(late) \cup {s}
  <2> DEFINE one == <<s>>
  <2>1. one \in Seq(Buffer) /\ IsInjective(one) /\ ToSet(one) = {s}
    BY Singleton
  <2>2. gone = front \o one
    BY DEF gone
  <2> HIDE DEF one
  <2>3. front \in Seq(Buffer) /\ IsInjective(front)
    BY <1>10 DEF front
  <2>4. ToSet(front) \cap ToSet(one) = {}
    BY <1>2, <1>8, <1>9, <1>10, <2>1 DEF front
  <2>5. /\ front \o one \in Seq(Buffer) /\ IsInjective(front \o one)
        /\ ToSet(front \o one) = ToSet(front) \cup ToSet(one)
    BY ONLY <2>1, <2>3, <2>4, InjectiveConcat
  <2>6. ToSet(front) = ToSet(kept) \cup ToSet(late)
    BY <1>10 DEF front
  <2> QED
    BY <2>1, <2>2, <2>5, <2>6
<1>12. /\ r.queued = rest /\ r.discard = gone /\ r.source = q[due] /\ r.past = latest
       /\ r.step = "FRAME"
  <2>1. r = ListsOf(rest, gone, q[due], latest, "FRAME")
    BY <1>1 DEF gone, front
  <2> QED
    BY ONLY <2>1, ListsFields
<1>13. /\ gone \in Seq(Buffer) /\ IsInjective(gone)
       /\ ToSet(gone) = ToSet(d) \cup ({p} \ {NoBuffer}) \cup ToSet(late) \cup {s}
  BY <1>2, <1>11
<1>14. NoBuffer \notin ToSet(f)
  <2>1. NoBuffer \notin Buffer /\ ToSet(f) \subseteq Buffer
    BY Pictures, ToSetProperties
  <2> QED
    BY <2>1
<1>15. Apart(f, rest, gone, q[due], latest)
  <2>1. latest \notin ToSet(d) \cup ({p} \ {NoBuffer}) \cup {s} /\ latest \notin ToSet(f)
    <3>1. CASE latest = NoBuffer
      <4>1. NoBuffer \notin Buffer /\ ToSet(d) \subseteq Buffer
        BY Pictures, ToSetProperties
      <4> QED
        BY <1>14, <3>1, <4>1
    <3>2. CASE latest # NoBuffer
      BY <1>8, <1>9, <3>2
    <3> QED
      BY <3>1, <3>2
  <2>2. q[due] \in ToSet(q) /\ ToSet(rest) \subseteq ToSet(q) /\ ToSet(late) \subseteq ToSet(q)
    BY <1>8
  <2>3. q[due] \notin ToSet(gone) /\ latest \notin ToSet(gone) /\ ToSet(rest) \cap ToSet(gone) = {}
    BY <1>8, <1>9, <1>13, <2>1, <2>2
  <2>4. ToSet(f) \cap ToSet(gone) = {} /\ ToSet(f) \cap ToSet(rest) = {} /\ q[due] \notin ToSet(f)
    BY <1>9, <1>13, <2>2
  <2> QED
    BY <1>4, <1>8, <1>9, <1>13, <2>1, <2>3, <2>4 DEF Apart
<1>16. All(f, rest, gone, q[due], latest) = All(f, q, d, s, p)
  BY <1>8, <1>13 DEF All
<1>17. InSight(rest, q[due], latest) \subseteq InSight(q, s, p)
  BY <1>8 DEF InSight
<1>18. \E k \in DOMAIN q :
         /\ q[due] = q[k] /\ DOMAIN rest = 1 .. (Len(q) - k)
         /\ \A i \in DOMAIN rest : k + i \in DOMAIN q /\ rest[i] = q[k + i]
  BY <1>4, <1>6
<1> QED
  BY <1>4, <1>6, <1>12, <1>13, <1>15, <1>16, <1>17, <1>18 DEF Prepared

\* The next picture is near: it comes on screen and what was there stays to be blended.
LEMMA NearEffect ==
  ASSUME NEW f \in Seq(Buffer), NEW q \in Seq(Buffer), NEW d \in Seq(Buffer),
         NEW s \in Buffer, Apart(f, q, d, s, NoBuffer), q # <<>>, NEW step, NEW r,
         r = PrepareNextRender(ListsOf(q, d, s, NoBuffer, step), 0, TRUE)
  PROVE  Prepared(f, q, d, s, NoBuffer, step, r)
<1> DEFINE tail == Tail(q)
           head == Head(q)
<1>1. r = ListsOf(tail, d, head, s, "FRAME")
  BY ONLY r = PrepareNextRender(ListsOf(q, d, s, NoBuffer, step), 0, TRUE), PrepareNear
<1>2. /\ Len(q) \in Nat \ {0} /\ DOMAIN q = 1 .. Len(q) /\ 1 \in DOMAIN q /\ head = q[1]
      /\ DOMAIN tail = 1 .. (Len(q) - 1)
      /\ \A i \in DOMAIN tail : 1 + i \in DOMAIN q /\ tail[i] = q[1 + i]
  BY HeadTailElements
<1>3. /\ tail \in Seq(Buffer) /\ IsInjective(tail) /\ head \in ToSet(q) /\ head \in Buffer
      /\ ToSet(tail) = ToSet(q) \ {head}
  BY InjectiveTail DEF Apart
<1> HIDE DEF tail, head
<1>4. r.queued = tail /\ r.discard = d /\ r.source = head /\ r.past = s /\ r.step = "FRAME"
  BY ONLY <1>1, ListsFields
<1>5. Apart(f, tail, d, head, s)
  BY <1>3 DEF Apart
<1>6. All(f, tail, d, head, s) = All(f, q, d, s, NoBuffer)
  BY <1>3 DEF All
<1>7. InSight(tail, head, s) \subseteq InSight(q, s, NoBuffer)
  <2>1. s # NoBuffer
    BY Pictures
  <2> QED
    BY <1>3, <2>1 DEF InSight
<1>8. \E k \in DOMAIN q :
        /\ head = q[k] /\ DOMAIN tail = 1 .. (Len(q) - k)
        /\ \A i \in DOMAIN tail : k + i \in DOMAIN q /\ tail[i] = q[k + i]
  BY <1>2
<1> QED
  BY <1>3, <1>4, <1>5, <1>6, <1>7, <1>8 DEF Prepared

\* Nothing is due or near.
LEMMA NothingEffect ==
  ASSUME NEW f \in Seq(Buffer), NEW q \in Seq(Buffer), NEW d \in Seq(Buffer),
         NEW s \in Buffer, NEW p \in Buffer \cup {NoBuffer}, Apart(f, q, d, s, p),
         NEW step, NEW near \in BOOLEAN, ~(near /\ p = NoBuffer), NEW r,
         r = PrepareNextRender(ListsOf(q, d, s, p, step), 0, near)
  PROVE  Prepared(f, q, d, s, p, step, r)
<1> DEFINE kept == Kept(d, p)
<1>1. r = ListsOf(q, kept, s, NoBuffer, step)
  BY ONLY near \in BOOLEAN, ~(near /\ p = NoBuffer), PrepareNothing,
     r = PrepareNextRender(ListsOf(q, d, s, p, step), 0, near)
<1>2. /\ kept \in Seq(Buffer) /\ IsInjective(kept)
      /\ ToSet(kept) = ToSet(d) \cup ({p} \ {NoBuffer})
  BY KeptProperties DEF Apart
<1> HIDE DEF kept
<1>3. /\ r.queued = q /\ r.discard = kept /\ r.source = s /\ r.past = NoBuffer
      /\ r.step = step
  BY ONLY <1>1, ListsFields
<1>4. NoBuffer \notin Buffer /\ ToSet(f) \subseteq Buffer /\ ToSet(q) \subseteq Buffer
      /\ ToSet(d) \subseteq Buffer
  BY Pictures, ToSetProperties
<1>5. Apart(f, q, kept, s, NoBuffer)
  <2>1. NoBuffer \notin ToSet(kept) /\ NoBuffer # s
    BY <1>2, <1>4
  <2> QED
    BY <1>2, <1>4, <2>1 DEF Apart
<1>6. All(f, q, kept, s, NoBuffer) = All(f, q, d, s, p)
  BY <1>2 DEF All
<1>7. InSight(q, s, NoBuffer) \subseteq InSight(q, s, p)
  BY DEF InSight
<1> QED
  BY <1>2, <1>3, <1>5, <1>6, <1>7 DEF Prepared

\* PrepareNextRender keeps the buffers apart, loses none and goes on in the queue.
LEMMA PrepareEffect ==
  ASSUME NEW f \in Seq(Buffer), NEW q \in Seq(Buffer), NEW d \in Seq(Buffer),
         NEW s \in Buffer, NEW p \in Buffer \cup {NoBuffer}, Apart(f, q, d, s, p),
         q # <<>>, NEW step, NEW due \in 0 .. Len(q), NEW near \in BOOLEAN, NEW r,
         r = PrepareNextRender(ListsOf(q, d, s, p, step), due, near)
  PROVE  Prepared(f, q, d, s, p, step, r)
<1>1. CASE due > 0
  <2>1. due \in 1 .. Len(q)
    BY <1>1
  <2> QED
    BY <2>1, DueEffect
<1>2. CASE due = 0 /\ near /\ p = NoBuffer
  <2>1. /\ r = PrepareNextRender(ListsOf(q, d, s, NoBuffer, step), 0, TRUE)
        /\ Apart(f, q, d, s, NoBuffer)
    BY <1>2
  <2>2. Prepared(f, q, d, s, NoBuffer, step, r)
    BY ONLY <2>1, f \in Seq(Buffer), q \in Seq(Buffer), d \in Seq(Buffer), s \in Buffer,
       q # <<>>, NearEffect
  <2> QED
    BY <1>2, <2>2
<1>3. CASE due = 0 /\ ~(near /\ p = NoBuffer)
  BY <1>3, NothingEffect
<1>4. due = 0 \/ due > 0
  OBVIOUS
<1> QED
  BY <1>1, <1>2, <1>3, <1>4

\* Select keeps the buffers of a list that are in a set.
LEMMA SelectProperties ==
  ASSUME NEW list \in Seq(Buffer), IsInjective(list), NEW set
  PROVE  /\ Select(list, set) \in Seq(Buffer) /\ IsInjective(Select(list, set))
         /\ ToSet(Select(list, set)) = ToSet(list) \cap set
<1> DEFINE I == {i \in DOMAIN list : list[i] \in set}
<1>1. I \in SUBSET DOMAIN list
  OBVIOUS
<1> HIDE DEF I
<1>2. /\ SubSeqAt(list, I) \in Seq(Buffer) /\ IsInjective(SubSeqAt(list, I))
      /\ ToSet(SubSeqAt(list, I)) = {list[i] : i \in I}
  BY ONLY <1>1, list \in Seq(Buffer), IsInjective(list), InjectiveSubSeqAt
<1>3. ToSet(list) = {list[i] : i \in DOMAIN list}
  BY ToSetProperties
<1>4. {list[i] : i \in I} = ToSet(list) \cap set
  BY <1>3 DEF I
<1>5. Select(list, set) = SubSeqAt(list, I)
  BY DEF Select, I
<1> QED
  BY <1>2, <1>4, <1>5

\* The lists before the render thread releases buffers.
Prepare(due, near) == IF Prepares THEN PrepareNextRender(Lists, due, near) ELSE Lists

Step == IF m_queued = <<>> THEN "IDLE" ELSE m_presentstep

\* They are prepared as PrepareEffect says, or as they were.
LEMMA PresentLists ==
  ASSUME IInv, NEW due \in Due, NEW near \in BOOLEAN
  PROVE  /\ Prepared(m_free, m_queued, m_discard, m_presentsource, m_presentsourcePast,
                     Step, Prepare(due, near))
         /\ Prepare(due, near).step = Step \/ Step = "READY"
<1>1. /\ m_free \in Seq(Buffer) /\ m_queued \in Seq(Buffer) /\ m_discard \in Seq(Buffer)
      /\ m_presentsource \in Buffer /\ m_presentsourcePast \in Buffer \cup {NoBuffer}
      /\ Apart(m_free, m_queued, m_discard, m_presentsource, m_presentsourcePast)
  BY DEF IInv, TypeOK, RingInv
<1>2. Lists = ListsOf(m_queued, m_discard, m_presentsource, m_presentsourcePast, Step)
  BY DEF Lists, ListsOf, Step
<1>3. Lists.step = Step
  BY ONLY <1>2, ListsFields
<1>4. CASE Prepares
  <2>1. Step = "READY" /\ m_queued # <<>>
    BY <1>3, <1>4 DEF Prepares, Step
  <2>2. due \in 0 .. Len(m_queued)
    <3>1. Len(m_queued) \in Nat
      BY <1>1
    <3> QED
      BY <1>4, <3>1 DEF Due
  <2>3. Prepare(due, near)
          = PrepareNextRender(ListsOf(m_queued, m_discard, m_presentsource,
                                      m_presentsourcePast, Step), due, near)
    BY <1>2, <1>4 DEF Prepare
  <2>4. Prepared(m_free, m_queued, m_discard, m_presentsource, m_presentsourcePast,
                 Step, Prepare(due, near))
    BY ONLY <1>1, <2>1, <2>2, <2>3, near \in BOOLEAN, PrepareEffect
  <2> QED
    BY <2>1, <2>4
<1>5. CASE ~Prepares
  <2> DEFINE l == Prepare(due, near)
  <2>1. l = ListsOf(m_queued, m_discard, m_presentsource, m_presentsourcePast, Step)
    BY <1>2, <1>5 DEF Prepare
  <2> HIDE DEF l
  <2>2. /\ l.queued = m_queued /\ l.discard = m_discard /\ l.source = m_presentsource
        /\ l.past = m_presentsourcePast /\ l.step = Step
    BY ONLY <2>1, ListsFields
  <2>3. Prepared(m_free, m_queued, m_discard, m_presentsource, m_presentsourcePast,
                 Step, l)
    BY <1>1, <2>2 DEF Prepared
  <2> QED
    BY <2>2, <2>3 DEF l
<1> QED
  BY <1>4, <1>5

\* What the render thread does with the lists in a frame.
LEMMA PresentEffect ==
  ASSUME IInv, PresentAny
  PROVE  \E released \in SUBSET Buffer :
           /\ m_free' \in Seq(Buffer) /\ m_queued' \in Seq(Buffer)
           /\ m_discard' \in Seq(Buffer) /\ m_presentsource' \in Buffer
           /\ m_presentsourcePast' \in Buffer \cup {NoBuffer}
           /\ Apart(m_free', m_queued', m_discard', m_presentsource', m_presentsourcePast')
           /\ All(m_free', m_queued', m_discard', m_presentsource', m_presentsourcePast')
                = All(m_free, m_queued, m_discard, m_presentsource, m_presentsourcePast)
           /\ \A b \in InSight(m_queued', m_presentsource', m_presentsourcePast') :
                b \in InSight(m_queued, m_presentsource, m_presentsourcePast)
                /\ b \notin released /\ b \in Buffer
           /\ \/ /\ m_queued' = m_queued /\ m_presentsource' = m_presentsource
                 /\ m_presentstep' = Step
              \/ /\ m_presentstep' = "FRAME"
                 /\ \E k \in DOMAIN m_queued :
                      /\ m_presentsource' = m_queued[k]
                      /\ DOMAIN m_queued' = 1 .. (Len(m_queued) - k)
                      /\ \A i \in DOMAIN m_queued' :
                           k + i \in DOMAIN m_queued /\ m_queued'[i] = m_queued[k + i]
           /\ m_presentstep' = Step \/ Step = "READY"
           /\ ToSet(m_free') = ToSet(m_free) \cup released
           /\ m_free # <<>> => m_free' # <<>> /\ Head(m_free') = Head(m_free)
           /\ \A b \in Buffer :
                /\ buffer'[b] = IF b \in released THEN NoPicture ELSE buffer[b]
                /\ overlays'[b] = IF b \in released THEN {} ELSE overlays[b]
           /\ buffer' = [b \in Buffer |-> buffer'[b]]
           /\ overlays' = [b \in Buffer |-> overlays'[b]]
<1>1. PICK due \in Due, near \in BOOLEAN, needed \in SUBSET Buffer :
        Present(due, near, needed)
  BY DEF PresentAny
<1> DEFINE l == Prepare(due, near)
           released == IF m_bRenderGUI THEN ToSet(l.discard) \ needed ELSE ToSet(l.discard)
<1>2. /\ m_queued' = l.queued /\ m_discard' = Select(l.discard, Buffer \ released)
      /\ m_free' = m_free \o Select(l.discard, released)
      /\ m_presentsource' = l.source /\ m_presentsourcePast' = l.past
      /\ m_presentstep' = l.step
      /\ overlays' = Release(overlays, released)
      /\ buffer' = [b \in Buffer |-> IF b \in released THEN NoPicture ELSE buffer[b]]
  BY <1>1 DEF Present, Prepare
<1>3. /\ Prepared(m_free, m_queued, m_discard, m_presentsource, m_presentsourcePast, Step, l)
      /\ l.step = Step \/ Step = "READY"
  BY PresentLists
<1>4. released \subseteq ToSet(l.discard)
  OBVIOUS
<1> HIDE DEF l, released
<1>5. /\ l.queued \in Seq(Buffer) /\ l.discard \in Seq(Buffer) /\ l.source \in Buffer
      /\ l.past \in Buffer \cup {NoBuffer}
      /\ Apart(m_free, l.queued, l.discard, l.source, l.past)
      /\ All(m_free, l.queued, l.discard, l.source, l.past)
           = All(m_free, m_queued, m_discard, m_presentsource, m_presentsourcePast)
      /\ InSight(l.queued, l.source, l.past)
           \subseteq InSight(m_queued, m_presentsource, m_presentsourcePast)
  BY <1>3 DEF Prepared
<1>6. ToSet(l.discard) \subseteq Buffer /\ ToSet(l.queued) \subseteq Buffer
  BY <1>5, ToSetProperties
<1>7. m_free \in Seq(Buffer)
  BY DEF IInv, TypeOK
<1>8. IsInjective(l.discard) /\ IsInjective(m_free)
  BY <1>5 DEF Apart
<1> DEFINE back == Select(l.discard, released)
<1>9. /\ m_discard' \in Seq(Buffer) /\ IsInjective(m_discard')
      /\ ToSet(m_discard') = ToSet(l.discard) \cap (Buffer \ released)
  BY ONLY <1>2, <1>5, <1>8, SelectProperties
<1>10. /\ back \in Seq(Buffer) /\ IsInjective(back)
       /\ ToSet(back) = ToSet(l.discard) \cap released
  BY ONLY <1>5, <1>8, SelectProperties
<1> HIDE DEF back
<1>11. m_free' = m_free \o back
  BY <1>2 DEF back
<1>12. ToSet(m_free) \cap ToSet(back) = {}
  BY <1>5, <1>10 DEF Apart
<1>13. /\ m_free' \in Seq(Buffer) /\ IsInjective(m_free')
       /\ ToSet(m_free') = ToSet(m_free) \cup ToSet(back)
  BY ONLY <1>7, <1>8, <1>10, <1>11, <1>12, InjectiveConcat
<1>14. ToSet(m_free') = ToSet(m_free) \cup released
  BY <1>4, <1>10, <1>13
<1>15. ToSet(m_discard') = ToSet(l.discard) \ released
  BY <1>6, <1>9
<1>16. Apart(m_free', l.queued, m_discard', l.source, l.past)
  BY <1>4, <1>5, <1>9, <1>13, <1>14, <1>15 DEF Apart
<1>17. All(m_free', l.queued, m_discard', l.source, l.past)
         = All(m_free, l.queued, l.discard, l.source, l.past)
  BY <1>4, <1>14, <1>15 DEF All
<1>18. \A b \in InSight(l.queued, l.source, l.past) : b \notin released /\ b \in Buffer
  BY <1>4, <1>5, <1>6 DEF Apart, InSight
<1>19. m_free # <<>> => m_free' # <<>> /\ Head(m_free') = Head(m_free)
  <2> SUFFICES ASSUME m_free # <<>>
               PROVE  m_free' # <<>> /\ Head(m_free') = Head(m_free)
    OBVIOUS
  <2>1. Len(m_free) \in Nat \ {0} /\ Head(m_free) = m_free[1]
    BY <1>7, HeadTailElements
  <2>2. Len(m_free') = Len(m_free) + Len(back) /\ m_free'[1] = m_free[1] /\ Len(back) \in Nat
    BY <1>7, <1>10, <1>11, <2>1
  <2>3. m_free' # <<>>
    BY <1>13, <2>1, <2>2
  <2> QED
    BY <1>13, <2>2, <2>1, <2>3, HeadTailElements
<1>20. \A b \in Buffer :
         /\ buffer'[b] = IF b \in released THEN NoPicture ELSE buffer[b]
         /\ overlays'[b] = IF b \in released THEN {} ELSE overlays[b]
  BY <1>2 DEF Release
<1>21. buffer' = [b \in Buffer |-> buffer'[b]] /\ overlays' = [b \in Buffer |-> overlays'[b]]
  BY <1>2 DEF Release
<1>22. \/ /\ m_queued' = m_queued /\ m_presentsource' = m_presentsource
          /\ m_presentstep' = Step
       \/ /\ m_presentstep' = "FRAME"
          /\ \E k \in DOMAIN m_queued :
               /\ m_presentsource' = m_queued[k]
               /\ DOMAIN m_queued' = 1 .. (Len(m_queued) - k)
               /\ \A i \in DOMAIN m_queued' :
                    k + i \in DOMAIN m_queued /\ m_queued'[i] = m_queued[k + i]
  BY <1>2, <1>3 DEF Prepared
<1>23. released \in SUBSET Buffer
  BY <1>4, <1>6
<1> WITNESS released \in SUBSET Buffer
<1> QED
  BY <1>2, <1>3, <1>5, <1>9, <1>13, <1>14, <1>16, <1>17, <1>18, <1>19, <1>20, <1>21, <1>22

\* The render thread takes the pictures that are due.
LEMMA StepPresent ==
  ASSUME IInv, PresentAny
  PROVE  IInv'
<1>1. /\ closing' = closing /\ degraded' = degraded /\ m_stateEvent' = m_stateEvent
      /\ renderGUI' = renderGUI /\ disturbances' = disturbances
      /\ m_pRenderer' = m_pRenderer /\ m_picture' = m_picture
      /\ m_renderState' = m_renderState /\ picture' = picture /\ idx' = idx
      /\ unseen' = unseen /\ m_QueueSize' = m_QueueSize
      /\ m_showVideo' = m_showVideo /\ m_forceNext' = m_forceNext
      /\ m_bRenderGUI' = TRUE /\ app = "present" /\ app' = "render"
      /\ at' = at \/ (at = "idle" /\ at' = "recheck")
  BY DEF PresentAny, Present, Notify, stateVars
<1>2. PICK released \in SUBSET Buffer :
           /\ m_free' \in Seq(Buffer) /\ m_queued' \in Seq(Buffer)
           /\ m_discard' \in Seq(Buffer) /\ m_presentsource' \in Buffer
           /\ m_presentsourcePast' \in Buffer \cup {NoBuffer}
           /\ Apart(m_free', m_queued', m_discard', m_presentsource', m_presentsourcePast')
           /\ All(m_free', m_queued', m_discard', m_presentsource', m_presentsourcePast')
                = All(m_free, m_queued, m_discard, m_presentsource, m_presentsourcePast)
           /\ \A b \in InSight(m_queued', m_presentsource', m_presentsourcePast') :
                b \in InSight(m_queued, m_presentsource, m_presentsourcePast)
                /\ b \notin released /\ b \in Buffer
           /\ \/ /\ m_queued' = m_queued /\ m_presentsource' = m_presentsource
                 /\ m_presentstep' = Step
              \/ /\ m_presentstep' = "FRAME"
                 /\ \E k \in DOMAIN m_queued :
                      /\ m_presentsource' = m_queued[k]
                      /\ DOMAIN m_queued' = 1 .. (Len(m_queued) - k)
                      /\ \A i \in DOMAIN m_queued' :
                           k + i \in DOMAIN m_queued /\ m_queued'[i] = m_queued[k + i]
           /\ m_presentstep' = Step \/ Step = "READY"
           /\ ToSet(m_free') = ToSet(m_free) \cup released
           /\ m_free # <<>> => m_free' # <<>> /\ Head(m_free') = Head(m_free)
           /\ \A b \in Buffer :
                /\ buffer'[b] = IF b \in released THEN NoPicture ELSE buffer[b]
                /\ overlays'[b] = IF b \in released THEN {} ELSE overlays[b]
           /\ buffer' = [b \in Buffer |-> buffer'[b]]
           /\ overlays' = [b \in Buffer |-> overlays'[b]]
  BY PresentEffect
<1>3. /\ \A b \in Buffer : buffer'[b] = buffer[b] \/ buffer'[b] = NoPicture
      /\ \A b \in Buffer : overlays'[b] = overlays[b] \/ overlays'[b] = {}
      /\ \A b \in released : buffer'[b] = NoPicture /\ overlays'[b] = {}
  BY <1>2
<1>4. \A b \in InSight(m_queued', m_presentsource', m_presentsourcePast') :
        /\ b \in InSight(m_queued, m_presentsource, m_presentsourcePast) /\ b \in Buffer
        /\ buffer'[b] = buffer[b] /\ overlays'[b] = overlays[b]
  BY <1>2
<1>5. /\ \A b \in ToSet(m_queued') : b \in Buffer /\ buffer'[b] = buffer[b]
      /\ ToSet(m_queued') = {m_queued'[i] : i \in DOMAIN m_queued'}
      /\ buffer'[m_presentsource'] = buffer[m_presentsource']
      /\ m_presentsource' \in Buffer
  <2>1. /\ ToSet(m_queued') \subseteq InSight(m_queued', m_presentsource', m_presentsourcePast')
        /\ m_presentsource' \in InSight(m_queued', m_presentsource', m_presentsourcePast')
    <3>1. m_presentsource' # NoBuffer
      BY <1>2, Pictures
    <3> QED
      BY <3>1 DEF InSight
  <2>2. ToSet(m_queued') = {m_queued'[i] : i \in DOMAIN m_queued'}
    BY <1>2, ToSetProperties
  <2> QED
    BY <1>2, <1>4, <2>1, <2>2
<1>6. m_queued \in Seq(Buffer) /\ ToSet(m_queued) = {m_queued[i] : i \in DOMAIN m_queued}
      /\ DOMAIN m_queued = 1 .. Len(m_queued) /\ Len(m_queued) \in Nat
  <2>1. m_queued \in Seq(Buffer)
    BY DEF IInv, TypeOK
  <2> QED
    BY <2>1, ToSetProperties
<1>7. ToSet(m_queued') \subseteq ToSet(m_queued)
  <2>1. CASE m_queued' = m_queued
    BY <2>1
  <2>2. ASSUME NEW k \in DOMAIN m_queued,
               \A i \in DOMAIN m_queued' :
                 k + i \in DOMAIN m_queued /\ m_queued'[i] = m_queued[k + i]
        PROVE  ToSet(m_queued') \subseteq ToSet(m_queued)
    BY <1>5, <1>6, <2>2
  <2> QED
    BY <1>2, <2>1, <2>2
<1>8. TypeOK'
  <2>1. buffer' \in [Buffer -> Numbers]
    <3>1. \A b \in Buffer : buffer'[b] \in Numbers
      BY <1>3 DEF IInv, TypeOK, Numbers
    <3> QED
      BY <1>2, <3>1
  <2>2. overlays' \in [Buffer -> SUBSET Picture]
    <3>1. \A b \in Buffer : overlays'[b] \in SUBSET Picture
      BY <1>3 DEF IInv, TypeOK
    <3> QED
      BY <1>2, <3>1
  <2>3. m_presentstep' \in {"IDLE", "READY", "FRAME", "FRAME2"}
    BY <1>2 DEF IInv, TypeOK, Step
  <2>4. at' \in Locations
    BY <1>1 DEF IInv, TypeOK, Locations
  <2> QED
    BY <1>1, <1>2, <2>1, <2>2, <2>3, <2>4 DEF IInv, TypeOK, Locations
<1>9. PictureInv'
  <2>1. PictureInv /\ picture \in Nat /\ \A b \in Buffer : buffer[b] \in Nat
    BY NumberTypes DEF IInv
  <2>2. \A b \in Buffer : buffer'[b] <= buffer[b] /\ buffer'[b] \in Nat
    BY <1>3, <2>1 DEF NoPicture
  <2>3. at' \in Holding => at \in Holding
    BY <1>1 DEF Holding
  <2>4. at' \in Holding => picture \in Picture /\ \A b \in Buffer : buffer'[b] < picture
    BY <2>1, <2>2, <2>3 DEF PictureInv
  <2>5. \A b \in Buffer : buffer'[b] <= picture
    BY <2>1, <2>2 DEF PictureInv
  <2>6. at' = "attach" => idx \in Buffer /\ buffer'[idx] = NoPicture
    BY <1>1, <1>3, <2>1 DEF PictureInv
  <2> QED
    BY <1>1, <2>4, <2>5, <2>6 DEF PictureInv
<1>10. RingInv'
  <2>1. \A b \in ToSet(m_free') : buffer'[b] = NoPicture
    <3>1. ToSet(m_free) \subseteq Buffer
      BY SightTypes DEF IInv
    <3> QED
      BY <1>2, <1>3, <3>1 DEF IInv, RingInv
  <2>2. m_renderState = "CONFIGURED"
          => /\ m_QueueSize = RenderBuffers
             /\ All(m_free, m_queued, m_discard, m_presentsource, m_presentsourcePast)
                  = Buffer \cup {NoBuffer}
    BY DEF IInv, RingInv
  <2> QED
    BY <1>1, <1>2, <2>1, <2>2 DEF RingInv
<1>11. ConfigInv'
  <2>1. ConfigInv
    BY DEF IInv
  <2>2. at' \in {"state", "check"} => at' = at
    BY <1>1
  <2>3. at = "state" => at' = "state"
    BY <1>1
  <2>4. at \in {"state", "check"} => at' \in {"state", "check"}
    BY <1>1
  <2>5. at' \in Configured => at \in Configured
    BY <1>1 DEF Configured
  <2>6. (\A b \in Buffer : buffer[b] = NoPicture) => (\A b \in Buffer : buffer'[b] = NoPicture)
    BY <1>3
  <2> QED
    BY <1>1, <2>1, <2>2, <2>3, <2>4, <2>5, <2>6 DEF ConfigInv
<1>12. MatchInv'
  BY <1>1, <1>4 DEF IInv, MatchInv
<1>13. OrderInv'
  <2>1. Ordered(buffer, m_queued, m_presentsource)
    BY DEF IInv, OrderInv
  <2>2. \A i \in DOMAIN m_queued' : buffer'[m_queued'[i]] = buffer[m_queued'[i]]
    BY <1>5
  <2>3. CASE m_queued' = m_queued /\ m_presentsource' = m_presentsource
    BY <1>5, <2>1, <2>2, <2>3 DEF OrderInv, Ordered
  <2>4. ASSUME NEW k \in DOMAIN m_queued, m_presentsource' = m_queued[k],
               DOMAIN m_queued' = 1 .. (Len(m_queued) - k),
               \A i \in DOMAIN m_queued' :
                 k + i \in DOMAIN m_queued /\ m_queued'[i] = m_queued[k + i]
        PROVE  OrderInv'
    <3>1. \A i \in DOMAIN m_queued' : k < k + i
      BY <1>6, <2>4
    <3>2. \A i, j \in DOMAIN m_queued' : i < j => k + i < k + j
      BY <1>6, <2>4
    <3>3. ASSUME NEW i \in DOMAIN m_queued', buffer'[m_queued'[i]] # NoPicture
          PROVE  buffer'[m_presentsource'] < buffer'[m_queued'[i]]
      BY <1>5, <2>1, <2>2, <2>4, <3>1, <3>3 DEF Ordered
    <3>4. ASSUME NEW i \in DOMAIN m_queued', NEW j \in DOMAIN m_queued', i < j,
                 buffer'[m_queued'[j]] # NoPicture
          PROVE  buffer'[m_queued'[i]] < buffer'[m_queued'[j]]
      BY <2>1, <2>2, <2>4, <3>2, <3>4 DEF Ordered
    <3> QED
      BY <3>3, <3>4 DEF OrderInv, Ordered
  <2> QED
    BY <1>2, <2>3, <2>4
<1>14. IdleInv'
  <2>1. IdleInv
    BY DEF IInv
  <2>2. Blank => Blank'
    BY <1>5, <1>7 DEF Blank
  <2>3. m_queued = <<>> => Blank
    BY DEF Blank, ToSet
  <2>4. Step = "IDLE" => m_queued = <<>> \/ m_presentstep = "IDLE"
    BY DEF Step
  <2>5. m_presentstep' = "IDLE" => Step = "IDLE"
    BY <1>2
  <2>6. m_presentstep' = "IDLE" /\ ~degraded => Blank'
    BY <2>1, <2>2, <2>3, <2>4, <2>5 DEF IdleInv
  <2>7. m_renderState = "CONFIGURED" => \A b \in ToSet(m_queued') : buffer'[b] # NoPicture
    BY <1>5, <1>7, <2>1 DEF IdleInv
  <2>8. at' = "change" /\ ~degraded => m_presentstep' = "IDLE"
    <3>1. m_presentstep = "IDLE" => Step = "IDLE"
      BY DEF Step
    <3> QED
      BY <1>1, <1>2, <2>1, <3>1 DEF IdleInv
  <2>9. m_renderState = "CONFIGURING" /\ ~degraded
          => m_presentstep' \in {"READY", "IDLE"} /\ Blank'
    <3>1. m_renderState = "CONFIGURING" /\ ~degraded => m_queued = <<>> /\ Step = "IDLE"
      BY <1>1, <2>1 DEF IdleInv, Step
    <3> QED
      BY <1>2, <2>2, <2>3, <3>1
  <2> QED
    BY <1>1, <2>6, <2>7, <2>8, <2>9 DEF IdleInv
<1>15. OverlayInv'
  <2> SUFFICES ASSUME ~unseen, ~degraded
               PROVE  /\ \A b \in InSight(m_queued', m_presentsource', m_presentsourcePast') :
                           buffer'[b] # NoPicture => overlays'[b] \subseteq {buffer'[b]}
                      /\ at' \in Buffered => /\ m_free' # <<>>
                                             /\ overlays'[Head(m_free')] \subseteq {picture}
    BY <1>1 DEF OverlayInv
  <2>1. \A b \in InSight(m_queued', m_presentsource', m_presentsourcePast') :
          buffer'[b] # NoPicture => overlays'[b] \subseteq {buffer'[b]}
    BY <1>4 DEF IInv, OverlayInv
  <2>2. ASSUME at' \in Buffered
        PROVE  m_free' # <<>> /\ overlays'[Head(m_free')] \subseteq {picture}
    <3>1. at \in Buffered
      BY <1>1, <2>2 DEF Buffered
    <3>2. m_free # <<>> /\ overlays[Head(m_free)] \subseteq {picture}
      BY <3>1 DEF IInv, OverlayInv
    <3>3. Head(m_free) \in Buffer
      BY <3>2, SightTypes DEF IInv
    <3>4. m_free' # <<>> /\ Head(m_free') = Head(m_free)
      BY <1>2, <3>2
    <3> QED
      BY <1>3, <3>2, <3>3, <3>4
  <2> QED
    BY <2>1, <2>2
<1> QED
  BY <1>8, <1>9, <1>10, <1>11, <1>12, <1>13, <1>14, <1>15 DEF IInv
-----------------------------------------------------------------------------
(* The invariant.                                                          *)

\* It holds at the beginning.
LEMMA IInvInit ==
  ASSUME Init
  PROVE  IInv
<1>1. /\ m_renderState = "UNCONFIGURED" /\ m_pRenderer = "new" /\ m_picture = "none"
      /\ m_stateEvent = FALSE /\ degraded = FALSE /\ m_QueueSize = 2 /\ m_free = <<>>
      /\ m_queued = <<>> /\ m_discard = <<>> /\ m_presentsource = 0
      /\ m_presentsourcePast = NoBuffer /\ m_presentstep = "IDLE"
      /\ m_showVideo = FALSE /\ m_forceNext = FALSE /\ m_bRenderGUI = TRUE
      /\ at = "top" /\ picture = NoPicture /\ idx = NoBuffer /\ unseen = FALSE
      /\ app = "move" /\ renderGUI = TRUE /\ closing = FALSE /\ disturbances = 0
  BY DEF Init
<1>2. buffer = Empty /\ overlays = NoOverlays
  BY DEF Init
<1>3. \A b \in Buffer : buffer[b] = NoPicture
  BY <1>2 DEF Empty
<1>4. 0 \in Buffer /\ NoBuffer \notin Buffer
  BY Pictures
<1>5. ToSet(<<>>) = {} /\ IsInjective(<<>>) /\ DOMAIN <<>> = {}
  BY DEF ToSet, IsInjective
<1>6. \A b \in InSight(m_queued, m_presentsource, m_presentsourcePast) : b \in Buffer
  BY <1>1, <1>4, <1>5 DEF InSight
<1>7. TypeOK
  <2>1. buffer \in [Buffer -> Numbers] /\ overlays \in [Buffer -> SUBSET Picture]
    BY <1>2 DEF Empty, NoOverlays, Numbers
  <2>2. m_QueueSize \in 2 .. RenderBuffers /\ disturbances \in 0 .. Disturbances
    BY <1>1, Pictures
  <2>3. /\ m_free \in Seq(Buffer) /\ m_queued \in Seq(Buffer) /\ m_discard \in Seq(Buffer)
        /\ m_presentsource \in Buffer /\ m_presentsourcePast \in Buffer \cup {NoBuffer}
        /\ idx \in Buffer \cup {NoBuffer} /\ picture \in Numbers
    BY <1>1, <1>4 DEF Numbers
  <2>4. /\ m_stateEvent \in BOOLEAN /\ m_showVideo \in BOOLEAN /\ m_forceNext \in BOOLEAN
        /\ m_bRenderGUI \in BOOLEAN /\ renderGUI \in BOOLEAN /\ closing \in BOOLEAN
        /\ degraded \in BOOLEAN /\ unseen \in BOOLEAN
    BY <1>1
  <2>5. /\ m_renderState \in {"UNCONFIGURED", "CONFIGURING", "CONFIGURED"}
        /\ m_pRenderer \in Params \cup {"none", "new"} /\ m_picture \in Params \cup {"none"}
        /\ m_presentstep \in {"IDLE", "READY", "FRAME", "FRAME2"}
        /\ app \in {"move", "configure", "present", "render", "gui"} /\ at \in Locations
    BY <1>1 DEF Locations
  <2> QED
    BY <2>1, <2>2, <2>3, <2>4, <2>5 DEF TypeOK, Locations
<1>8. PictureInv
  BY <1>1, <1>3 DEF PictureInv, Holding, NoPicture
<1>9. RingInv
  <2>1. Apart(m_free, m_queued, m_discard, m_presentsource, m_presentsourcePast)
    BY <1>1, <1>4, <1>5 DEF Apart
  <2> QED
    BY <1>1, <1>5, <2>1 DEF RingInv
<1>10. ConfigInv
  <2>1. "new" \notin Params
    BY Pictures
  <2> QED
    BY <1>1, <1>3, <2>1 DEF ConfigInv, Configured
<1>11. MatchInv
  BY <1>3, <1>6 DEF MatchInv
<1>12. OrderInv
  BY <1>1, <1>5 DEF OrderInv, Ordered
<1>13. IdleInv
  BY <1>1, <1>5 DEF IdleInv, Blank
<1>14. OverlayInv
  BY <1>1, <1>3, <1>6 DEF OverlayInv, Buffered
<1> QED
  BY <1>7, <1>8, <1>9, <1>10, <1>11, <1>12, <1>13, <1>14 DEF IInv

\* Every step keeps it.
LEMMA IInvStep ==
  ASSUME IInv, [Next]_vars
  PROVE  IInv'
<1>1. CASE QuietStep
  BY <1>1, StepQuiet
<1>2. CASE DiscardOnMessage \/ EndPause
  BY <1>2, StepDiscard
<1>3. CASE ConfigureChange
  BY <1>3, StepConfigureChange
<1>4. CASE BufferReady \/ AttachOverlay
  BY <1>4, StepOverlay
<1>5. CASE AddVideoPicture
  BY <1>5, StepAddVideoPicture
<1>6. CASE \/ FrameMove \/ NoRender \/ SetRenderGUI
           \/ \E pass \in {"render", "gui"}, next \in {"gui", "move"} : Render(pass, next)
  BY <1>6, StepAppMoves
<1>7. CASE Configure \/ CreateRendererFails
  BY <1>7, StepConfigure, StepCreateRendererFails
<1>8. CASE PresentAny
  BY <1>8, StepPresent
<1>9. CASE \E keeps \in BOOLEAN : Flush(keeps)
  BY <1>9, StepFlush
<1>10. CASE UnInit
  BY <1>10, StepUnInit
<1>11. CASE PreInit
  BY <1>11, StepPreInit
<1>12. CASE UNCHANGED vars
  <2>1. /\ m_renderState' = m_renderState /\ m_pRenderer' = m_pRenderer
        /\ m_picture' = m_picture /\ m_stateEvent' = m_stateEvent /\ degraded' = degraded
        /\ m_QueueSize' = m_QueueSize /\ m_free' = m_free /\ m_queued' = m_queued
        /\ m_discard' = m_discard /\ m_presentsource' = m_presentsource
        /\ m_presentsourcePast' = m_presentsourcePast /\ m_presentstep' = m_presentstep
        /\ m_showVideo' = m_showVideo /\ m_forceNext' = m_forceNext
        /\ m_bRenderGUI' = m_bRenderGUI /\ at' = at /\ picture' = picture /\ idx' = idx
        /\ unseen' = unseen /\ app' = app /\ renderGUI' = renderGUI /\ closing' = closing
        /\ disturbances' = disturbances /\ buffer' = buffer /\ overlays' = overlays
    BY <1>12 DEF vars, playerVars, appVars, stateVars, listVars, flagVars, dataVars
  <2>2. TypeOK'
    BY <2>1 DEF IInv, TypeOK
  <2>3. PictureInv' /\ RingInv' /\ MatchInv' /\ OrderInv'
    BY <2>1 DEF IInv, PictureInv, RingInv, MatchInv, OrderInv
  <2>4. ConfigInv'
    BY <2>1 DEF IInv, ConfigInv
  <2>5. IdleInv' /\ OverlayInv'
    BY <2>1 DEF IInv, IdleInv, Blank, OverlayInv
  <2> QED
    BY <2>2, <2>3, <2>4, <2>5 DEF IInv
<1>13. PlayerStep => \/ QuietStep \/ DiscardOnMessage \/ EndPause \/ ConfigureChange
                     \/ BufferReady \/ AttachOverlay \/ AddVideoPicture
  BY DEF PlayerStep, QuietStep
<1>14. Timeout => QuietStep
  BY DEF Timeout, QuietStep
<1>15. AppStep => \/ FrameMove \/ NoRender \/ Configure \/ CreateRendererFails
                  \/ PresentAny
                  \/ \E pass \in {"render", "gui"}, next \in {"gui", "move"} :
                       Render(pass, next)
  BY DEF AppStep
<1> QED
  BY <1>1, <1>2, <1>3, <1>4, <1>5, <1>6, <1>7, <1>8, <1>9, <1>10, <1>11, <1>12, <1>13,
     <1>14, <1>15 DEF Next

\* The invariant of every reachable state.
LEMMA Invariance == Spec => []IInv
<1>1. Init => IInv
  BY IInvInit
<1>2. IInv /\ [Next]_vars => IInv'
  BY IInvStep
<1> QED
  BY <1>1, <1>2, PTL DEF Spec

-----------------------------------------------------------------------------
(* The theorems.                                                           *)

\* A list of what is in sight besides the queue.
LEMMA InSightIsShown ==
  ToSet(m_queued) \cup Shown = InSight(m_queued, m_presentsource, m_presentsourcePast)
    \/ m_presentsource = NoBuffer
<1>1. ToSet(<<>>) = {} /\ ToSet(<<m_presentsourcePast>>) = {m_presentsourcePast}
  BY DEF ToSet
<1> QED
  BY <1>1 DEF Shown, Past, InSight

\* The buffers, list after list.
LEMMA PlacesAreApart ==
  ASSUME IInv
  PROVE  /\ IsInjective(Places)
         /\ ToSet(Places) = All(m_free, m_queued, m_discard, m_presentsource,
                                m_presentsourcePast) \ {NoBuffer}
<1> DEFINE shown == <<m_presentsource>>
           used1 == m_queued \o m_discard
           used2 == used1 \o shown
<1>1. /\ m_free \in Seq(Buffer) /\ m_queued \in Seq(Buffer) /\ m_discard \in Seq(Buffer)
      /\ m_presentsource \in Buffer /\ m_presentsourcePast \in Buffer \cup {NoBuffer}
      /\ Apart(m_free, m_queued, m_discard, m_presentsource, m_presentsourcePast)
  BY DEF IInv, TypeOK, RingInv
<1>2. shown \in Seq(Buffer) /\ IsInjective(shown) /\ ToSet(shown) = {m_presentsource}
  BY <1>1, Singleton
<1>3. Past \in Seq(Buffer) /\ IsInjective(Past)
      /\ ToSet(Past) = {m_presentsourcePast} \ {NoBuffer}
  <2>1. CASE m_presentsourcePast = NoBuffer
    BY <2>1 DEF Past, ToSet, IsInjective
  <2>2. CASE m_presentsourcePast # NoBuffer
    <3>1. m_presentsourcePast \in Buffer
      BY <1>1, <2>2
    <3>2. Past = <<m_presentsourcePast>>
      BY <2>2 DEF Past
    <3> QED
      BY <2>2, <3>1, <3>2, Singleton
  <2> QED
    BY <2>1, <2>2
<1> HIDE DEF shown
<1>4. used1 \in Seq(Buffer) /\ IsInjective(used1) /\ ToSet(used1) = ToSet(m_queued) \cup ToSet(m_discard)
  BY <1>1, InjectiveConcat DEF Apart
<1> HIDE DEF used1
<1>5. ToSet(used1) \cap ToSet(shown) = {}
  BY <1>1, <1>2, <1>4 DEF Apart
<1>6. used2 \in Seq(Buffer) /\ IsInjective(used2) /\ ToSet(used2) = ToSet(used1) \cup ToSet(shown)
  BY ONLY <1>2, <1>4, <1>5, InjectiveConcat
<1> HIDE DEF used2
<1>7. ToSet(used2) \cap ToSet(Past) = {}
  BY <1>1, <1>2, <1>3, <1>4, <1>6 DEF Apart
<1>8. InUse = used2 \o Past
  BY DEF InUse, used1, used2, shown
<1>9. InUse \in Seq(Buffer) /\ IsInjective(InUse) /\ ToSet(InUse) = ToSet(used2) \cup ToSet(Past)
  BY ONLY <1>3, <1>6, <1>7, <1>8, InjectiveConcat
<1>10. ToSet(m_free) \cap ToSet(InUse) = {} /\ IsInjective(m_free)
  BY <1>1, <1>2, <1>3, <1>4, <1>6, <1>9 DEF Apart
<1>11. /\ IsInjective(m_free \o InUse)
       /\ ToSet(m_free \o InUse) = ToSet(m_free) \cup ToSet(InUse)
  BY ONLY <1>1, <1>9, <1>10, InjectiveConcat
<1>12. NoBuffer \notin Buffer /\ ToSet(m_free) \subseteq Buffer /\ ToSet(m_queued) \subseteq Buffer
       /\ ToSet(m_discard) \subseteq Buffer
  BY <1>1, Pictures, ToSetProperties
<1>13. ToSet(m_free) \cup ToSet(InUse)
         = All(m_free, m_queued, m_discard, m_presentsource, m_presentsourcePast) \ {NoBuffer}
  BY <1>1, <1>2, <1>3, <1>4, <1>6, <1>9, <1>12 DEF All
<1> QED
  BY <1>11, <1>13 DEF Places

\* Every buffer is in one place, and a renderer that is configured has lost none:
\* BuffersConserved.
THEOREM NoBufferIsLost == Spec => []BuffersConserved
<1>1. IInv => BuffersConserved
  <2> SUFFICES ASSUME IInv PROVE BuffersConserved
    OBVIOUS
  <2>1. IsInjective(Places)
    BY PlacesAreApart
  <2>2. m_renderState = "CONFIGURED" => ToSet(Places) = Buffer
    <3>1. NoBuffer \notin Buffer
      BY Pictures
    <3>2. m_renderState = "CONFIGURED"
            => All(m_free, m_queued, m_discard, m_presentsource, m_presentsourcePast)
                 = Buffer \cup {NoBuffer}
      BY DEF IInv, RingInv
    <3> QED
      BY <3>1, <3>2, PlacesAreApart
  <2>3. \A i \in DOMAIN m_free : buffer[m_free[i]] = NoPicture
    <3>1. m_free \in Seq(Buffer)
      BY DEF IInv, TypeOK
    <3>2. ToSet(m_free) = {m_free[i] : i \in DOMAIN m_free}
      BY <3>1, ToSetProperties
    <3> QED
      BY <3>2 DEF IInv, RingInv
  <2> QED
    BY <2>1, <2>2, <2>3 DEF IInv, BuffersConserved
<1> QED
  BY <1>1, Invariance, PTL

\* A picture that waits or is shown carries no overlay of another, as long as no
\* picture passed without a GUI and no Configure was given up: OverlayOnItsPicture.
THEOREM OverlayStaysWithPicture == Spec => []OverlayOnItsPicture
<1>1. IInv => OverlayOnItsPicture
  <2> SUFFICES ASSUME IInv PROVE OverlayOnItsPicture
    OBVIOUS
  <2>1. m_presentsource # NoBuffer
    BY Pictures DEF IInv, TypeOK
  <2> QED
    BY <2>1, InSightIsShown DEF IInv, OverlayInv, OverlayOnItsPicture
<1> QED
  BY <1>1, Invariance, PTL

\* A picture that waits or is shown has the parameters of the renderer, unless a
\* Configure was given up: MatchesRenderer.
THEOREM RendererFitsPicture == Spec => []MatchesRenderer
<1>1. IInv => MatchesRenderer
  <2> SUFFICES ASSUME IInv PROVE MatchesRenderer
    OBVIOUS
  <2>1. m_presentsource # NoBuffer
    BY Pictures DEF IInv, TypeOK
  <2> QED
    BY <2>1, InSightIsShown DEF IInv, MatchInv, MatchesRenderer
<1> QED
  BY <1>1, Invariance, PTL

\* What PresentAny brings on screen was decided after what was there; what Configure
\* and Flush bring there is empty.
LEMMA OrderStep ==
  ASSUME IInv, [Next]_vars, m_presentsource' # m_presentsource
  PROVE  buffer'[m_presentsource'] \in {NoPicture} \cup {p \in Picture : p > buffer[m_presentsource]}
<1>1. CASE PresentAny
  <2>1. PICK released \in SUBSET Buffer :
          /\ m_presentsource' \in Buffer
          /\ \E k \in DOMAIN m_queued : m_presentsource' = m_queued[k]
          /\ \A b \in Buffer :
               buffer'[b] = IF b \in released THEN NoPicture ELSE buffer[b]
    BY <1>1, PresentEffect
  <2>2. buffer'[m_presentsource'] \in {NoPicture, buffer[m_presentsource']}
    BY <2>1
  <2>3. /\ \A b \in Buffer : buffer[b] \in Nat /\ buffer[b] \in Picture \cup {NoPicture}
        /\ m_presentsource \in Buffer
    BY NumberTypes DEF IInv, TypeOK
  <2>4. buffer[m_presentsource'] # NoPicture => buffer[m_presentsource] < buffer[m_presentsource']
    BY <2>1 DEF IInv, OrderInv, Ordered
  <2> QED
    BY <2>1, <2>2, <2>3, <2>4
<1>2. CASE Configure \/ \E keeps \in BOOLEAN : Flush(keeps)
  <2>1. m_presentsource' = 0 /\ buffer' = Empty
    BY <1>2 DEF Configure, Flush, listVars
  <2> QED
    BY <2>1, Pictures DEF Empty
<1>3. CASE QuietStep
  BY <1>3, QuietFacts DEF listVars
<1>4. CASE DiscardOnMessage \/ EndPause
  BY <1>4 DEF DiscardOnMessage, EndPause, DiscardBuffer
<1>5. CASE ConfigureChange
  BY <1>5 DEF ConfigureChange
<1>6. CASE BufferReady \/ AttachOverlay \/ AddVideoPicture
  BY <1>6 DEF BufferReady, AttachOverlay, AddVideoPicture, listVars
<1>7. CASE \/ FrameMove \/ NoRender \/ SetRenderGUI \/ CreateRendererFails
           \/ \E pass \in {"render", "gui"}, next \in {"gui", "move"} : Render(pass, next)
  BY <1>7 DEF FrameMove, NoRender, SetRenderGUI, CreateRendererFails, Render, listVars
<1>8. CASE UnInit \/ PreInit
  BY <1>8 DEF UnInit, PreInit, listVars
<1>9. CASE UNCHANGED vars
  BY <1>9 DEF vars, listVars
<1>10. PlayerStep => \/ QuietStep \/ DiscardOnMessage \/ EndPause \/ ConfigureChange
                     \/ BufferReady \/ AttachOverlay \/ AddVideoPicture
  BY DEF PlayerStep, QuietStep
<1>11. Timeout => QuietStep
  BY DEF Timeout, QuietStep
<1>12. AppStep => \/ FrameMove \/ NoRender \/ Configure \/ CreateRendererFails
                  \/ PresentAny
                  \/ \E pass \in {"render", "gui"}, next \in {"gui", "move"} :
                       Render(pass, next)
  BY DEF AppStep
<1> QED
  BY <1>1, <1>2, <1>3, <1>4, <1>5, <1>6, <1>7, <1>8, <1>9, <1>10, <1>11, <1>12 DEF Next

\* Skipped pictures do not come back: OrderKept.
THEOREM PicturesInOrder == Spec => OrderKept
<1>1. IInv /\ [Next]_vars
        => [m_presentsource' # m_presentsource
              => buffer'[m_presentsource'] \in {NoPicture}
                   \cup {p \in Picture : p > buffer[m_presentsource]}]_vars
  BY OrderStep
<1> QED
  BY <1>1, Invariance, PTL DEF Spec, OrderKept

\* When the renderer is rebuilt no picture waits and no frame is half shown, unless a
\* Configure was given up: ReconfigureDropsNothing.
THEOREM NothingIsDropped == Spec => ReconfigureDropsNothing
<1>1. IInv => [app = "configure" /\ app' = "present" /\ ~degraded
                 => /\ \A b \in ToSet(m_queued) : buffer[b] = NoPicture
                    /\ m_presentstep \in {"READY", "IDLE"}]_vars
  BY DEF IInv, ConfigInv, IdleInv, Blank
<1> QED
  BY <1>1, Invariance, PTL DEF Spec, ReconfigureDropsNothing
=============================================================================
