\* The destructor racing the worker loop: does the worker always return
\* once interruption has been requested?
CONSTANTS
    c1 = c1
    c2 = c2
    c3 = c3
    NoCommit = NoCommit
    Commits <- MCCommits
    MaxTime = 2
SPECIFICATION Spec
PROPERTY TeardownStopsWorker
CHECK_DEADLOCK FALSE
