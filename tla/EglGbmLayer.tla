------------------------------ MODULE EglGbmLayer ------------------------------
(***************************************************************************)
(* The primary layer of a DRM output on the GBM/EGL path                  *)
(* (src/src/backends/drm/egl_gbm_layer.cpp), with the pipeline that       *)
(* commits its buffer and the EGL surface that renders into GBM buffers.  *)
(*                                                                         *)
(* A frame is either scanned out directly from a client's dmabuf, after a *)
(* test commit accepts it, or rendered through the surface.  The layer    *)
(* keeps m_scanoutBuffer for a direct-scanout frame until the page flip   *)
(* and m_currentBuffer, the last buffer produced by either path, which    *)
(* currentBuffer() hands to the pipeline when no scanout buffer is set.   *)
(* The pipeline also calls checkTestBuffer to get a buffer for its test   *)
(* commits when the mode changes.                                          *)
(*                                                                         *)
(* A buffer is a record of its origin (rendered or client), the frame it  *)
(* was made for and its size.  The scanout paths that return false before *)
(* touching the layer (direct scanout disabled, no Wayland surface, a     *)
(* non-dmabuf buffer, wrong size or format) change no state and are not   *)
(* separate steps.                                                         *)
(***************************************************************************)
EXTENDS Naturals

CONSTANTS Sizes,        \* mode sizes the pipeline may switch between
          MaxFrames,    \* bound on presented frames
          Null          \* a null QSharedPointer

VARIABLES
    scanoutBuffer,  \* m_scanoutBuffer
    currentBuffer,  \* m_currentBuffer
    rendering,      \* the surface has a render in progress (startRendering succeeded)
    surfaceSize,    \* size of the surface's GBM buffers, or Null before the first frame
    sourceSize,     \* m_pipeline->sourceSize()
    phase,          \* compositor: "idle", "rendering", "ready" (frame ready to present)
    flipPending,    \* a commit was made and its page flip has not arrived
    committed,      \* the buffer of the last real commit, or Null
    tested,         \* client buffers whose test commit succeeded
    testBuffer,     \* what checkTestBuffer last vouched for, or Null
    frame           \* frames presented

vars == <<scanoutBuffer, currentBuffer, rendering, surfaceSize, sourceSize,
          phase, flipPending, committed, tested, testBuffer, frame>>

Buffer(kind, f, s) == [kind |-> kind, frame |-> f, size |-> s]

(* EglGbmLayer's constructor: both buffer pointers null, no surface yet.  *)
Init ==
    /\ scanoutBuffer = Null /\ currentBuffer = Null
    /\ rendering = FALSE /\ surfaceSize = Null
    /\ sourceSize \in Sizes
    /\ phase = "idle" /\ flipPending = FALSE /\ committed = Null
    /\ tested = {} /\ testBuffer = Null /\ frame = 0

(* EglGbmSurface::doesSurfaceFit: its buffers have the pipeline's size.   *)
SurfaceFits == surfaceSize = sourceSize

(* beginFrame: m_scanoutBuffer.reset(), then startRendering, which        *)
(* (re)creates the surface at the source size and may fail.  Yields the   *)
(* possible <<surfaceSize, rendering>> afterwards.                        *)
StartRendering == {<<sourceSize, TRUE>>, <<surfaceSize, FALSE>>}

(* endFrame: endRendering may fail (or find no render in progress); only  *)
(* on success are m_currentBuffer and m_currentDamage replaced.           *)
EndRendering(ok) ==
    IF rendering /\ ok THEN Buffer("render", frame + 1, surfaceSize) ELSE currentBuffer

(* The compositor renders the frame: beginFrame.                           *)
BeginFrame ==
    /\ phase = "idle" /\ ~flipPending /\ frame < MaxFrames
    /\ \E r \in StartRendering :
          /\ surfaceSize' = r[1] /\ rendering' = r[2]
          /\ phase' = IF r[2] THEN "rendering" ELSE "idle"
    /\ scanoutBuffer' = Null
    /\ UNCHANGED <<currentBuffer, sourceSize, flipPending, committed, tested,
                   testBuffer, frame>>

(* The compositor finishes painting: endFrame.  Its result is void, so    *)
(* the frame goes on to be presented whether or not rendering succeeded.  *)
EndFrame ==
    /\ phase = "rendering"
    /\ \E ok \in BOOLEAN : currentBuffer' = EndRendering(ok)
    /\ rendering' = FALSE /\ phase' = "ready"
    /\ UNCHANGED <<scanoutBuffer, surfaceSize, sourceSize, flipPending,
                   committed, tested, testBuffer, frame>>

(* scanout with the assignment to m_currentBuffer made before the test.   *)
ScanoutEarlyAssign ==
    /\ phase = "idle" /\ ~flipPending /\ frame < MaxFrames
    /\ LET b == Buffer("client", frame + 1, sourceSize)
       IN \/ /\ scanoutBuffer' = Null
             /\ UNCHANGED <<currentBuffer, phase, tested>>
          \/ /\ scanoutBuffer' = b /\ currentBuffer' = b
             /\ tested' = tested \cup {b} /\ phase' = "ready"
          \/ /\ scanoutBuffer' = Null /\ currentBuffer' = b
             /\ UNCHANGED <<phase, tested>>
    /\ UNCHANGED <<rendering, surfaceSize, sourceSize, flipPending, committed,
                   testBuffer, frame>>

(* scanout(surfaceItem) for a dmabuf of the source size in a supported    *)
(* format: import it as m_scanoutBuffer, which may fail (no buffer id);   *)
(* then the pipeline's testScanout.  On success it becomes m_currentBuffer*)
(* and the frame is ready; on failure m_scanoutBuffer is reset and the    *)
(* compositor renders instead.                                             *)
Scanout ==
    /\ phase = "idle" /\ ~flipPending /\ frame < MaxFrames
    /\ LET b == Buffer("client", frame + 1, sourceSize)
       IN \/ /\ scanoutBuffer' = Null
             /\ UNCHANGED <<currentBuffer, phase, tested>>
          \/ /\ scanoutBuffer' = b /\ currentBuffer' = b
             /\ tested' = tested \cup {b} /\ phase' = "ready"
          \/ /\ scanoutBuffer' = Null
             /\ UNCHANGED <<currentBuffer, phase, tested>>
    /\ UNCHANGED <<rendering, surfaceSize, sourceSize, flipPending, committed,
                   testBuffer, frame>>

(* currentBuffer(): the scanout buffer if there is one, else the last     *)
(* buffer produced.                                                        *)
CurrentBuffer == IF scanoutBuffer # Null THEN scanoutBuffer ELSE currentBuffer

(* The pipeline presents: a real commit of currentBuffer().               *)
Present ==
    /\ phase = "ready"
    /\ committed' = CurrentBuffer
    /\ flipPending' = TRUE /\ phase' = "idle" /\ frame' = frame + 1
    /\ UNCHANGED <<scanoutBuffer, currentBuffer, rendering, surfaceSize,
                   sourceSize, tested, testBuffer>>

(* pageFlipped: drop m_scanoutBuffer, keep m_currentBuffer for tests.     *)
PageFlipped ==
    /\ flipPending
    /\ flipPending' = FALSE /\ scanoutBuffer' = Null
    /\ UNCHANGED <<currentBuffer, rendering, surfaceSize, sourceSize, phase,
                   committed, tested, testBuffer, frame>>

(* checkTestBuffer, called by the pipeline while it tests a new mode: if  *)
(* the surface does not fit, render a cleared frame (beginFrame, glClear, *)
(* endFrame, whatever beginFrame returned); then succeed iff              *)
(* m_currentBuffer is not null.                                           *)
CheckTestBuffer ==
    /\ phase = "idle" /\ ~flipPending
    /\ IF SurfaceFits
       THEN /\ testBuffer' = currentBuffer
            /\ UNCHANGED <<scanoutBuffer, currentBuffer, rendering, surfaceSize>>
       ELSE \E r \in StartRendering, ok \in BOOLEAN :
              LET cb == IF r[2] /\ ok THEN Buffer("render", frame + 1, r[1]) ELSE currentBuffer
              IN /\ surfaceSize' = r[1] /\ scanoutBuffer' = Null
                 /\ currentBuffer' = cb /\ rendering' = FALSE
                 /\ testBuffer' = cb
    /\ UNCHANGED <<sourceSize, phase, flipPending, committed, tested, frame>>

(* The pipeline switches to another mode between frames.                 *)
ModeChange(s) ==
    /\ phase = "idle" /\ s # sourceSize
    /\ sourceSize' = s /\ testBuffer' = Null
    /\ UNCHANGED <<scanoutBuffer, currentBuffer, rendering, surfaceSize, phase,
                   flipPending, committed, tested, frame>>

Next ==
    \/ BeginFrame \/ EndFrame \/ Scanout \/ Present \/ PageFlipped
    \/ CheckTestBuffer
    \/ \E s \in Sizes : ModeChange(s)

Spec == Init /\ [][Next]_vars

-----------------------------------------------------------------------------
(* Properties.                                                             *)

(* A client's buffer reaches a real commit only after a test commit       *)
(* accepted it, even when a later render fails and the layer falls back  *)
(* on m_currentBuffer.                                                     *)
ScanoutTested == (committed # Null /\ committed.kind = "client") => committed \in tested

(* A successful checkTestBuffer vouches for a buffer of the mode being    *)
(* tested, never for one left over from an earlier mode.                  *)
TestBufferFits == testBuffer # Null => testBuffer.size = sourceSize
=============================================================================
