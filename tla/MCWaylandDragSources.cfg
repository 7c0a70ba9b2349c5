CONSTANTS
    d1 = d1
    s1 = s1
    e1 = e1
    t1 = t1
    t2 = t2
    Null = Null
    DataSources <- MCDataSources
    Surfaces <- MCSurfaces
    ExtSources <- MCExtSources
    ToplevelDrags <- MCToplevelDrags
    MaxIncarnation = 2

SPECIFICATION Spec

INVARIANT ToplevelDragNotDangling

\* The client stops once every id has been bound MaxIncarnation times and
\* its objects are destroyed; the server then waits for requests.
CHECK_DEADLOCK FALSE
