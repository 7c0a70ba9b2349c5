------------------------ MODULE WaylandQPainterSwapchain ------------------------
(***************************************************************************)
(* The shared-memory swapchain of the nested Wayland backend's QPainter   *)
(* primary layer (src/src/backends/wayland/wayland_qpainter_backend.cpp). *)
(*                                                                         *)
(* The layer acquires a slot in beginFrame (recreating the swapchain when *)
(* the output's pixel size changed), repaints the region the damage       *)
(* journal gives for the slot's age, records the frame's damage in        *)
(* endFrame, and in present attaches and commits the slot's wl_buffer and *)
(* ages the slots.  The host compositor owns an attached buffer until it  *)
(* sends wl_buffer.release, whose listener clears the slot's used flag.   *)
(*                                                                         *)
(* Slot content is abstracted to the number of the frame the pixels show; *)
(* the damage journal to the number of damages it has logged.             *)
(***************************************************************************)
EXTENDS Integers, Sequences

CONSTANTS Sizes,            \* output pixel sizes (model values)
          MaxFrames,        \* bound on presented frames
          MaxSlots,         \* bound on slots the allocator hands out
          JournalCapacity   \* entries DamageJournal keeps

VARIABLES
    slots,       \* m_swapchain->m_slots: [used, age, content] per slot
    hasSwapchain,\* m_swapchain is not null
    size,        \* m_swapchain->m_size
    nativeSize,  \* m_waylandOutput->pixelSize()
    back,        \* m_back as an index into slots, 0 for nullptr
    phase,       \* "idle", "begun" (beginFrame returned), "ended", "crashed"
    held,        \* slots attached and not yet released by the compositor
    frame,       \* frames presented
    journalLen   \* damages the layer's DamageJournal holds

vars == <<slots, hasSwapchain, size, nativeSize, back, phase, held, frame,
          journalLen>>

Garbage == -1   \* a freshly mapped shm buffer
Corrupt == -2   \* pixels from frames that were never fully repainted

Init ==
    /\ slots = <<>> /\ hasSwapchain = FALSE
    /\ size \in Sizes /\ nativeSize \in Sizes
    /\ back = 0 /\ phase = "idle" /\ held = {} /\ frame = 0 /\ journalLen = 0

(* DamageJournal::accumulate(age, infiniteRegion()): the damage of the    *)
(* last age-1 frames when the log reaches that far, else a full repaint.   *)
FullRepaint(age) == age = 0 \/ age > journalLen

(* The pixels of a slot of the given age after the layer repaints it for  *)
(* frame f: exact when the repaint covered everything since its content.  *)
Repainted(s, f) ==
    IF FullRepaint(s.age) \/ s.content = f - s.age THEN f ELSE Corrupt

(* WaylandQPainterSwapchain::acquire: the first slot not in use, marked   *)
(* used; else a newly allocated slot, or nullptr when allocation fails.   *)
(* Yields the new slot sequence and the index returned (0 for nullptr).   *)
Acquire(ss) ==
    LET free == {i \in DOMAIN ss : ~ss[i].used}
    IN IF free # {}
       THEN LET i == CHOOSE j \in free : \A k \in free : j <= k
            IN {<<[ss EXCEPT ![i].used = TRUE], i>>}
       ELSE {<<Append(ss, [used |-> FALSE, age |-> 0, content |-> Garbage]), Len(ss) + 1>>,
             <<ss, 0>>}

(* WaylandQPainterPrimaryLayer::beginFrame: recreate the swapchain if the  *)
(* size changed (its buffers are destroyed), acquire m_back, and repaint   *)
(* accumulateDamage(m_back->age) through m_back->image.  A null m_back is *)
(* dereferenced.                                                           *)
BeginFrame ==
    /\ phase = "idle"
    /\ LET recreate == ~hasSwapchain \/ size # nativeSize
           ss == IF recreate THEN <<>> ELSE slots
       IN /\ hasSwapchain' = TRUE /\ size' = nativeSize
          /\ held' = IF recreate THEN {} ELSE held
          /\ Len(ss) < MaxSlots \/ \E i \in DOMAIN ss : ~ss[i].used
          /\ \E r \in Acquire(ss) :
                IF r[2] = 0
                THEN slots' = r[1] /\ back' = 0 /\ phase' = "crashed"
                ELSE /\ slots' = [r[1] EXCEPT ![r[2]].content = Repainted(r[1][r[2]], frame + 1)]
                     /\ back' = r[2] /\ phase' = "begun"
    /\ UNCHANGED <<nativeSize, frame, journalLen>>

(* endFrame: m_damageJournal.add(damagedRegion).                          *)
EndFrame ==
    /\ phase = "begun"
    /\ journalLen' = IF journalLen < JournalCapacity THEN journalLen + 1 ELSE journalLen
    /\ phase' = "ended"
    /\ UNCHANGED <<slots, hasSwapchain, size, nativeSize, back, held, frame>>

(* release without the else branch: other slots keep their age.          *)
ReleaseNoAging(ss, b) ==
    [i \in DOMAIN ss |-> IF i = b THEN [ss[i] EXCEPT !.age = 1] ELSE ss[i]]

(* WaylandQPainterSwapchain::release: the released slot's age becomes 1,  *)
(* every other slot that has an age gets one older.                       *)
Release(ss, b) ==
    [i \in DOMAIN ss |-> IF i = b THEN [ss[i] EXCEPT !.age = 1]
                         ELSE IF ss[i].age > 0 THEN [ss[i] EXCEPT !.age = @ + 1]
                         ELSE ss[i]]

(* present: attach and commit m_back's wl_buffer, then release it to the  *)
(* swapchain.                                                              *)
Present ==
    /\ phase = "ended" /\ frame < MaxFrames
    /\ held' = held \cup {back}
    /\ slots' = Release(slots, back)
    /\ frame' = frame + 1
    /\ phase' = "idle"
    /\ UNCHANGED <<hasSwapchain, size, nativeSize, back, journalLen>>

(* The compositor sends wl_buffer.release; the listener clears used.      *)
BufferReleased(i) ==
    /\ i \in held
    /\ held' = held \ {i}
    /\ slots' = [slots EXCEPT ![i].used = FALSE]
    /\ UNCHANGED <<hasSwapchain, size, nativeSize, back, phase, frame, journalLen>>

(* The host resizes the output window.                                    *)
Resize(s) ==
    /\ s # nativeSize
    /\ nativeSize' = s
    /\ UNCHANGED <<slots, hasSwapchain, size, back, phase, held, frame, journalLen>>

Next ==
    \/ BeginFrame \/ EndFrame \/ Present
    \/ \E i \in DOMAIN slots : BufferReleased(i)
    \/ \E s \in Sizes : Resize(s)

Spec == Init /\ [][Next]_vars

-----------------------------------------------------------------------------
(* Properties.                                                             *)

(* Buffer age is truthful: after any sequence of frames, releases,        *)
(* reallocations and resizes, the region repainted for a slot's age       *)
(* brings it up to date, so no slot ever shows a mix of frames.           *)
AgeTruthful == \A i \in DOMAIN slots : slots[i].content # Corrupt

(* The slot the layer paints into and presents is never one the           *)
(* compositor still holds: a slot is owned by one party at a time.        *)
ExclusiveBuffer == (phase \in {"begun", "ended"}) => back \notin held
=============================================================================
