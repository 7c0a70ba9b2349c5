\* Buffer age in both nested-Wayland primary layers.  QPainter: five frames
\* let a slot reach age 3 and be reused after a resize, three slots let the
\* pool grow while the host holds two.  EGL: the same five frames take a
\* buffer through two rounds of a two-buffer swapchain with a resize between.
CONSTANTS
    small = small
    large = large
    Sizes <- MCSizes
    MaxFrames = 5
    MaxSlots = 3
    JournalCapacity = 10
    SupportsBufferAge = TRUE
SPECIFICATION Spec
INVARIANT QExclusiveBuffer
\* Each layer stops where the code does: after the null dereference or the
\* division by zero of a failed allocation, and when the frame bound is spent.
CHECK_DEADLOCK FALSE
