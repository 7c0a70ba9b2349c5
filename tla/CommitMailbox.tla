--------------------------- MODULE CommitMailbox ---------------------------
(***************************************************************************)
(* What the per-device commit thread promises its owner, with threads,    *)
(* locks and time abstracted away: a single-slot mailbox.  The render     *)
(* side may put a commit into the slot (overwriting what is there) or     *)
(* replace the content of a full slot, and learns whether it did; the    *)
(* consumer takes the commit that is in the slot and hands it to the      *)
(* kernel.  Every commit that reaches the kernel is the one the slot held *)
(* at that moment.                                                         *)
(***************************************************************************)
EXTENDS Sequences

CONSTANTS Commits,   \* commit objects (model values)
          NoCommit   \* the empty slot

VARIABLES slot,      \* the commit waiting to be submitted, or NoCommit
          delivered, \* commits handed to the kernel, in order
          answer     \* what the last replace request was told

vars == <<slot, delivered, answer>>

Init == slot = NoCommit /\ delivered = <<>> /\ answer = "none"

\* A new commit is put into the slot; a commit still there is dropped.
Put(c) == slot' = c /\ UNCHANGED <<delivered, answer>>

\* A replace request succeeds exactly when the slot is full.
Replace(c) == /\ slot # NoCommit
              /\ slot' = c /\ answer' = "true"
              /\ UNCHANGED delivered
Refuse == /\ slot = NoCommit
          /\ answer' = "false"
          /\ UNCHANGED <<slot, delivered>>

\* The consumer takes exactly the commit that is in the slot.
Take == /\ slot # NoCommit
        /\ delivered' = Append(delivered, slot)
        /\ slot' = NoCommit
        /\ UNCHANGED answer

Next == \/ \E c \in Commits : Put(c) \/ Replace(c)
        \/ Refuse \/ Take

Spec == Init /\ [][Next]_vars
=============================================================================
