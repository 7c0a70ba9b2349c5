------------------------- MODULE MCDrmCommitThread -------------------------
(* Model-checking instance of DrmCommitThread: three commit objects and  *)
(* a clock of three instants, enough for a commit to be handed over with  *)
(* a later target, for the worker to sleep on it, for a second commit to  *)
(* be set or to replace it during that sleep, and for a third to follow   *)
(* the submission.                                                         *)
EXTENDS DrmCommitThread

CONSTANTS c1, c2, c3

MCCommits == {c1, c2, c3}
=============================================================================
