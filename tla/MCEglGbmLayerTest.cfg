\* Rendered and directly scanned-out frames, failed renders, failed and
\* passed test commits, page flips and mode changes between two modes.
\* Four frames allow a scanout, a failed test, a failed render and a present
\* in one behaviour.
CONSTANTS
    mode1 = mode1
    mode2 = mode2
    Null = Null
    Sizes <- MCSizes
    MaxFrames = 4
SPECIFICATION Spec
INVARIANT TestBufferFits
