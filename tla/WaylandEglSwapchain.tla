-------------------------- MODULE WaylandEglSwapchain --------------------------
(***************************************************************************)
(* The dmabuf swapchain of the nested Wayland backend's EGL primary layer  *)
(* (src/src/backends/wayland/wayland_egl_backend.cpp).                     *)
(*                                                                         *)
(* The swapchain allocates two GBM buffers when it is created, skipping   *)
(* the ones that fail, and hands them out round robin: acquire advances   *)
(* m_index modulo the buffer count.  It does not listen for               *)
(* wl_buffer.release, so it does not know which buffers the host           *)
(* compositor still holds.  release only ages the buffers.                *)
(*                                                                         *)
(* beginFrame's early returns (eglMakeCurrent failing, XRGB8888 missing   *)
(* from the host's dmabuf formats) change no state and are stutter steps. *)
(* Buffer content is the number of the frame it shows.                    *)
(***************************************************************************)
EXTENDS Integers, Sequences

CONSTANTS Sizes,             \* output pixel sizes (model values)
          MaxFrames,         \* bound on presented frames
          JournalCapacity,   \* entries DamageJournal keeps
          SupportsBufferAge  \* m_backend->supportsBufferAge()

VARIABLES
    buffers,      \* m_swapchain->m_buffers: [age, content] per buffer
    index,        \* m_swapchain->m_index, 0-based as in the code
    hasSwapchain, \* m_swapchain is not null
    size,         \* m_swapchain->m_size
    nativeSize,   \* m_waylandOutput->pixelSize()
    back,         \* m_buffer as a 1-based position in buffers, 0 for none
    phase,        \* "idle", "begun", "ended", "crashed"
    held,         \* buffers attached and not yet released by the host
    frame,        \* frames presented
    journalLen    \* damages the layer's DamageJournal holds

vars == <<buffers, index, hasSwapchain, size, nativeSize, back, phase, held,
          frame, journalLen>>

Garbage == -1   \* a freshly allocated buffer
Corrupt == -2   \* pixels from frames that were never fully repainted

\* The loop in the swapchain's constructor allocates this many buffers.
BuffersPerSwapchain == 2

Init ==
    /\ buffers = <<>> /\ index = 0 /\ hasSwapchain = FALSE
    /\ size \in Sizes /\ nativeSize \in Sizes
    /\ back = 0 /\ phase = "idle" /\ held = {} /\ frame = 0 /\ journalLen = 0

(* The swapchain's constructor: each of the two allocations may fail and   *)
(* is then skipped, so the new swapchain holds 0, 1 or 2 fresh buffers.   *)
NewBuffers == {[i \in 1..n |-> [age |-> 0, content |-> Garbage]] : n \in 0..BuffersPerSwapchain}

(* The repair region beginFrame returns: m_damageJournal.accumulate(age,  *)
(* infiniteRegion()) with buffer age, an empty region without.  The layer *)
(* then repaints that region plus the frame's own damage.                  *)
Repainted(b, f) ==
    LET full == SupportsBufferAge /\ (b.age = 0 \/ b.age > journalLen)
        since == IF SupportsBufferAge THEN b.age ELSE 1
    IN IF full \/ b.content = f - since THEN f ELSE Corrupt

(* WaylandEglPrimaryLayer::beginFrame: recreate the swapchain when the     *)
(* size changed, then acquire: m_index = (m_index + 1) % m_buffers.count(),*)
(* a division by zero when no buffer was allocated.                       *)
BeginFrame ==
    /\ phase = "idle"
    /\ LET recreate == ~hasSwapchain \/ size # nativeSize
       IN /\ hasSwapchain' = TRUE /\ size' = nativeSize
          /\ held' = IF recreate THEN {} ELSE held
          /\ \E bs \in IF recreate THEN NewBuffers ELSE {buffers} :
               LET i0 == IF recreate THEN 0 ELSE index
               IN IF Len(bs) = 0
                  THEN /\ buffers' = bs /\ index' = i0
                       /\ back' = 0 /\ phase' = "crashed"
                  ELSE LET i == (i0 + 1) % Len(bs)
                       IN /\ index' = i /\ back' = i + 1
                          /\ buffers' = [bs EXCEPT ![i + 1] = [@ EXCEPT !.content = Repainted(bs[i + 1], frame + 1)]]
                          /\ phase' = "begun"
    /\ UNCHANGED <<nativeSize, frame, journalLen>>

(* endFrame: glFlush and m_damageJournal.add(damagedRegion).              *)
EndFrame ==
    /\ phase = "begun"
    /\ journalLen' = IF journalLen < JournalCapacity THEN journalLen + 1 ELSE journalLen
    /\ phase' = "ended"
    /\ UNCHANGED <<buffers, index, hasSwapchain, size, nativeSize, back, held, frame>>

(* release that forgets to age the other buffers.                        *)
ReleaseNoAging(bs, b) ==
    [i \in DOMAIN bs |-> IF i = b THEN [bs[i] EXCEPT !.age = 1] ELSE bs[i]]

(* WaylandEglLayerSwapchain::release: the presented buffer's age becomes 1,*)
(* every other buffer that has an age gets one older.                     *)
Release(bs, b) ==
    [i \in DOMAIN bs |-> IF i = b THEN [bs[i] EXCEPT !.age = 1]
                         ELSE IF bs[i].age > 0 THEN [bs[i] EXCEPT !.age = @ + 1]
                         ELSE bs[i]]

(* present: attach and commit m_buffer's wl_buffer, then release it.      *)
Present ==
    /\ phase = "ended" /\ frame < MaxFrames
    /\ held' = held \cup {back}
    /\ buffers' = Release(buffers, back)
    /\ frame' = frame + 1
    /\ phase' = "idle"
    /\ UNCHANGED <<index, hasSwapchain, size, nativeSize, back, journalLen>>

(* The host compositor releases a buffer; nothing in the layer hears it.  *)
BufferReleased(i) ==
    /\ i \in held
    /\ held' = held \ {i}
    /\ UNCHANGED <<buffers, index, hasSwapchain, size, nativeSize, back, phase,
                   frame, journalLen>>

(* The host resizes the output window.                                    *)
Resize(s) ==
    /\ s # nativeSize
    /\ nativeSize' = s
    /\ UNCHANGED <<buffers, index, hasSwapchain, size, back, phase, held, frame,
                   journalLen>>

Next ==
    \/ BeginFrame \/ EndFrame \/ Present
    \/ \E i \in held : BufferReleased(i)
    \/ \E s \in Sizes : Resize(s)

Spec == Init /\ [][Next]_vars

-----------------------------------------------------------------------------
(* Properties.                                                             *)

(* Buffer age is truthful: over round-robin reuse, swapchains with one or *)
(* two buffers and recreation on resize, the repair region derived from   *)
(* the age brings every buffer up to date.                                 *)
AgeTruthful == \A i \in DOMAIN buffers : buffers[i].content # Corrupt

=============================================================================
