CONSTANTS
    Contexts <- MCContexts
    ValidVersions <- MCValidVersions

SPECIFICATION Spec

INVARIANT FlagsConsistent
INVARIANT CompositingFollowsHardware

\* detect's undefined read of a missing version token ends the behaviour.
CHECK_DEADLOCK FALSE
