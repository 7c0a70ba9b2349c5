\* The commit thread, teardown included: refinement of the mailbox and the
\* liveness of hand-over.
CONSTANTS
    c1 = c1
    c2 = c2
    c3 = c3
    NoCommit = NoCommit
    Commits <- MCCommits
    MaxTime = 2
SPECIFICATION Spec
INVARIANT TypeOK
PROPERTY MailboxRefinement
PROPERTY CommitEventuallyResolved
\* the worker idles in m_commitPending.wait once the bounded supply of
\* commits is used up and the clock has stopped: the program's idle state
CHECK_DEADLOCK FALSE
