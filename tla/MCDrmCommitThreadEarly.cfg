\* setCommit while the worker sleeps on an earlier deadline: is the new
\* commit held back until its own target time?
CONSTANTS
    c1 = c1
    c2 = c2
    c3 = c3
    NoCommit = NoCommit
    Commits <- MCCommits
    MaxTime = 2
SPECIFICATION Spec
INVARIANT NoEarlySubmit
CHECK_DEADLOCK FALSE
