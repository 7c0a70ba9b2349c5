--------------------------- MODULE MCWaylandLayers ---------------------------
(***************************************************************************)
(* The primary layers of the nested Wayland backend's two renderers, the  *)
(* QPainter layer with its shm swapchain and the EGL layer with its dmabuf *)
(* swapchain, checked side by side.  They share no state: each step is a  *)
(* step of one of them, with the other's variables unchanged.              *)
(***************************************************************************)
CONSTANTS small, large, Sizes, MaxFrames, MaxSlots, JournalCapacity,
          SupportsBufferAge

VARIABLES qslots, qhasSwapchain, qsize, qnativeSize, qback, qphase, qheld,
          qframe, qjournalLen,
          ebuffers, eindex, ehasSwapchain, esize, enativeSize, eback, ephase,
          eheld, eframe, ejournalLen

MCSizes == {small, large}

Q == INSTANCE WaylandQPainterSwapchain
       WITH slots <- qslots, hasSwapchain <- qhasSwapchain, size <- qsize,
            nativeSize <- qnativeSize, back <- qback, phase <- qphase,
            held <- qheld, frame <- qframe, journalLen <- qjournalLen

E == INSTANCE WaylandEglSwapchain
       WITH buffers <- ebuffers, index <- eindex, hasSwapchain <- ehasSwapchain,
            size <- esize, nativeSize <- enativeSize, back <- eback,
            phase <- ephase, held <- eheld, frame <- eframe,
            journalLen <- ejournalLen

qvars == <<qslots, qhasSwapchain, qsize, qnativeSize, qback, qphase, qheld,
           qframe, qjournalLen>>
evars == <<ebuffers, eindex, ehasSwapchain, esize, enativeSize, eback, ephase,
           eheld, eframe, ejournalLen>>

Init == Q!Init /\ E!Init

Next == (Q!Next /\ UNCHANGED evars) \/ (E!Next /\ UNCHANGED qvars)

Spec == Init /\ [][Next]_<<qvars, evars>>

(* Buffer age is truthful in the QPainter layer: the region repainted for *)
(* a slot's age, from the damage journal, brings the slot up to date.      *)
QAgeTruthful == Q!AgeTruthful

(* Buffer age is truthful in the EGL layer over round-robin reuse.        *)
EAgeTruthful == E!AgeTruthful

(* The QPainter layer never paints into a slot the host still holds.      *)
QExclusiveBuffer == Q!ExclusiveBuffer

=============================================================================
