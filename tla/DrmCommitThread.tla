--------------------------- MODULE DrmCommitThread ---------------------------
(***************************************************************************)
(* The per-device commit thread of the DRM backend                        *)
(* (src/src/backends/drm/drm_commit_thread.cpp).                          *)
(*                                                                         *)
(* Two threads share m_commit and m_targetCommitTime under m_mutex:       *)
(*  - the worker loop started by the constructor, which waits on          *)
(*    m_commitPending, sleeps with the mutex released until the target    *)
(*    time, then submits the commit and resets the slot;                  *)
(*  - the render thread, which calls setCommit / replaceCommit, runs the  *)
(*    queued commitFailed notifications, and finally the destructor.      *)
(* The render thread's calls each hold the mutex for their whole body, so *)
(* each is one atomic step; the worker's loop body is split at every     *)
(* point where it blocks or releases the mutex.  Time is a bounded clock. *)
(***************************************************************************)
EXTENDS Naturals, Sequences, FiniteSets, SequencesExt

CONSTANTS Commits,    \* commit objects handed over by the render thread
          NoCommit,   \* the empty std::unique_ptr
          MaxTime     \* last instant of the bounded clock

ASSUME NoCommit \notin Commits /\ MaxTime \in Nat

VARIABLES
    commit,          \* m_commit
    targetTime,      \* m_targetCommitTime
    lockHolder,      \* "worker" while the worker owns m_mutex, else "none"
    wpc,             \* the worker's position in its loop
    notified,        \* m_commitPending was notified while the worker waited
    sleepUntil,      \* the deadline the worker computed before sleeping
    interruption,    \* QThread::isInterruptionRequested()
    rpc,             \* the render thread: "running", "notifying", "destroyed"
    now,             \* std::chrono::steady_clock, in frames
    handedOver,      \* commits moved into the thread so far (history)
    superseded,      \* commits dropped by a later setCommit/replaceCommit
    submitted,       \* commits passed to DrmAtomicCommit::commit(), in order
    submittedEarly,  \* of those, commits submitted before m_targetCommitTime
    failed,          \* commits whose commit() returned false
    queuedFailures,  \* commitFailed invocations queued, not yet run
    reportedFailures,\* commitFailed invocations run on the render thread
    replaceResult    \* the value the last replaceCommit returned

vars == <<commit, targetTime, lockHolder, wpc, notified, sleepUntil,
          interruption, rpc, now, handedOver, superseded, submitted, submittedEarly,
          failed, queuedFailures, reportedFailures, replaceResult>>

Time == 0..MaxTime

TypeOK ==
    /\ commit \in Commits \cup {NoCommit}
    /\ targetTime \in Time /\ sleepUntil \in Time /\ now \in Time
    /\ lockHolder \in {"none", "worker"}
    /\ wpc \in {"top", "lock", "wait", "relockAfterWait", "check", "unlocked",
                "sleep", "relock", "submit", "exited"}
    /\ notified \in BOOLEAN /\ interruption \in BOOLEAN
    /\ rpc \in {"running", "notifying", "destroyed"}
    /\ handedOver \subseteq Commits /\ superseded \subseteq handedOver
    \* each commit object can reach the kernel at most once
    /\ submitted \in BoundedSeq(Commits, Cardinality(Commits))
    /\ submittedEarly \subseteq Commits
    /\ failed \subseteq Commits
    /\ queuedFailures \in 0..Cardinality(Commits)
    /\ reportedFailures \in 0..Cardinality(Commits)
    /\ replaceResult \in {"none", "true", "false"}

SubmittedCommits == ToSet(submitted)

-----------------------------------------------------------------------------
(* The constructor: the slot is empty and the worker starts at the top of *)
(* its loop.                                                               *)
Init ==
    /\ commit = NoCommit /\ targetTime = 0
    /\ lockHolder = "none" /\ wpc = "top" /\ notified = FALSE
    /\ sleepUntil = 0 /\ interruption = FALSE /\ rpc = "running"
    /\ now = 0 /\ handedOver = {} /\ superseded = {} /\ submitted = <<>>
    /\ submittedEarly = {}
    /\ failed = {} /\ queuedFailures = 0 /\ reportedFailures = 0
    /\ replaceResult = "none"

Unlocked == lockHolder = "none"

(* Worker, loop head: return if interruption was requested.               *)
WorkerCheckInterruption ==
    /\ wpc = "top"
    /\ wpc' = IF interruption THEN "exited" ELSE "lock"
    /\ UNCHANGED <<commit, targetTime, lockHolder, notified, sleepUntil,
                   interruption, rpc, now, handedOver, superseded, submitted, submittedEarly,
                   failed, queuedFailures, reportedFailures, replaceResult>>

(* Worker: take m_mutex; with no commit, wait on m_commitPending, which   *)
(* releases the mutex in the same step.                                    *)
WorkerLock ==
    /\ wpc = "lock" /\ Unlocked
    /\ IF commit = NoCommit
       THEN wpc' = "wait" /\ notified' = FALSE /\ UNCHANGED lockHolder
       ELSE wpc' = "check" /\ lockHolder' = "worker" /\ UNCHANGED notified
    /\ UNCHANGED <<commit, targetTime, sleepUntil, interruption, rpc, now,
                   handedOver, superseded, submitted, submittedEarly, failed, queuedFailures,
                   reportedFailures, replaceResult>>

(* Worker: a notify_all wakes the wait; it must then retake the mutex.    *)
WorkerWake ==
    /\ wpc = "wait" /\ notified
    /\ wpc' = "relockAfterWait"
    /\ UNCHANGED <<commit, targetTime, lockHolder, notified, sleepUntil,
                   interruption, rpc, now, handedOver, superseded, submitted, submittedEarly,
                   failed, queuedFailures, reportedFailures, replaceResult>>

(* std::condition_variable::wait may also return spuriously.              *)
SpuriousWakeup ==
    /\ wpc = "wait" /\ ~notified
    /\ wpc' = "relockAfterWait"
    /\ UNCHANGED <<commit, targetTime, lockHolder, notified, sleepUntil,
                   interruption, rpc, now, handedOver, superseded, submitted, submittedEarly,
                   failed, queuedFailures, reportedFailures, replaceResult>>

WorkerRelockAfterWait ==
    /\ wpc = "relockAfterWait" /\ Unlocked
    /\ lockHolder' = "worker" /\ wpc' = "check"
    /\ UNCHANGED <<commit, targetTime, notified, sleepUntil, interruption, rpc,
                   now, handedOver, superseded, submitted, submittedEarly, failed,
                   queuedFailures, reportedFailures, replaceResult>>

(* Worker, holding the mutex: no commit ends the iteration (the lock goes *)
(* out of scope); a commit due later makes it unlock; a commit already    *)
(* due is submitted.                                                       *)
WorkerCheckCommit ==
    /\ wpc = "check"
    /\ \/ /\ commit = NoCommit
          /\ wpc' = "top" /\ lockHolder' = "none"
          /\ UNCHANGED sleepUntil
       \/ /\ commit # NoCommit /\ targetTime > now
          /\ wpc' = "unlocked" /\ lockHolder' = "none"
          /\ UNCHANGED sleepUntil
       \/ /\ commit # NoCommit /\ targetTime <= now
          /\ wpc' = "submit"
          /\ UNCHANGED <<lockHolder, sleepUntil>>
    /\ UNCHANGED <<commit, targetTime, notified, interruption, rpc, now,
                   handedOver, superseded, submitted, submittedEarly, failed, queuedFailures,
                   reportedFailures, replaceResult>>

(* Worker, after the unlock: sleep_for(m_targetCommitTime - now) reads   *)
(* the target again, without the mutex, so a setCommit that ran since    *)
(* the unlock has already replaced it.  The deadline is that target (now *)
(* is the instant read under the lock; a target already past returns at *)
(* once).                                                                  *)
WorkerReadTarget ==
    /\ wpc = "unlocked"
    /\ wpc' = "sleep" /\ sleepUntil' = targetTime
    /\ UNCHANGED <<commit, targetTime, lockHolder, notified, interruption, rpc,
                   now, handedOver, superseded, submitted, submittedEarly, failed,
                   queuedFailures, reportedFailures, replaceResult>>

(* Worker: sleep_for returns once the computed deadline has passed.       *)
WorkerWakeFromSleep ==
    /\ wpc = "sleep" /\ now >= sleepUntil
    /\ wpc' = "relock"
    /\ UNCHANGED <<commit, targetTime, lockHolder, notified, sleepUntil,
                   interruption, rpc, now, handedOver, superseded, submitted, submittedEarly,
                   failed, queuedFailures, reportedFailures, replaceResult>>

WorkerRelock ==
    /\ wpc = "relock" /\ Unlocked
    /\ lockHolder' = "worker" /\ wpc' = "submit"
    /\ UNCHANGED <<commit, targetTime, notified, sleepUntil, interruption, rpc,
                   now, handedOver, superseded, submitted, submittedEarly, failed,
                   queuedFailures, reportedFailures, replaceResult>>

(* WorkerSubmit with the m_commit.reset() missing.                        *)
WorkerSubmitNoReset ==
    /\ wpc = "submit"
    /\ \E ok \in BOOLEAN :
        /\ submitted' = Append(submitted, commit)
        /\ submittedEarly' = IF now < targetTime THEN submittedEarly \cup {commit}
                                                 ELSE submittedEarly
        /\ failed' = IF ok THEN failed ELSE failed \cup {commit}
        /\ queuedFailures' = IF ok THEN queuedFailures ELSE queuedFailures + 1
    /\ lockHolder' = "none" /\ wpc' = "top"
    /\ UNCHANGED <<commit, targetTime, notified, sleepUntil, interruption, rpc,
                   now, handedOver, superseded, reportedFailures, replaceResult>>

(* Worker, holding the mutex: submit whatever m_commit holds now; on      *)
(* failure queue commitFailed to the owner's thread; reset the slot and   *)
(* end the iteration.                                                      *)
WorkerSubmit ==
    /\ wpc = "submit"
    /\ \E ok \in BOOLEAN :
        /\ submitted' = Append(submitted, commit)
        /\ submittedEarly' = IF now < targetTime THEN submittedEarly \cup {commit}
                                                 ELSE submittedEarly
        /\ failed' = IF ok THEN failed ELSE failed \cup {commit}
        /\ queuedFailures' = IF ok THEN queuedFailures ELSE queuedFailures + 1
    /\ commit' = NoCommit
    /\ lockHolder' = "none" /\ wpc' = "top"
    /\ UNCHANGED <<targetTime, notified, sleepUntil, interruption, rpc, now,
                   handedOver, superseded, reportedFailures, replaceResult>>

-----------------------------------------------------------------------------
(* setCommit without m_commitPending.notify_all().                        *)
SetCommitNoNotify(c, t) ==
    /\ rpc = "running" /\ Unlocked /\ c \notin handedOver
    /\ commit' = c /\ targetTime' = t
    /\ superseded' = IF commit = NoCommit THEN superseded ELSE superseded \cup {commit}
    /\ handedOver' = handedOver \cup {c}
    /\ UNCHANGED <<notified, lockHolder, wpc, sleepUntil, interruption, rpc, now,
                   submitted, submittedEarly, failed, queuedFailures,
                   reportedFailures, replaceResult>>

(* Render thread: setCommit(commit, targetCommitTime).                    *)
SetCommit(c, t) ==
    /\ rpc = "running" /\ Unlocked /\ c \notin handedOver
    /\ commit' = c /\ targetTime' = t
    /\ superseded' = IF commit = NoCommit THEN superseded ELSE superseded \cup {commit}
    /\ handedOver' = handedOver \cup {c}
    /\ notified' = TRUE
    /\ UNCHANGED <<lockHolder, wpc, sleepUntil, interruption, rpc, now,
                   submitted, submittedEarly, failed, queuedFailures, reportedFailures,
                   replaceResult>>

(* The same call with the dropped guard of replaceCommit: it stores the   *)
(* commit whether or not one is pending.                                   *)
ReplaceCommitUnguarded(c) ==
    /\ rpc = "running" /\ Unlocked /\ c \notin handedOver
    /\ commit' = c /\ replaceResult' = "true" /\ notified' = TRUE
    /\ handedOver' = handedOver \cup {c}
    /\ superseded' = IF commit = NoCommit THEN superseded ELSE superseded \cup {commit}
    /\ UNCHANGED <<targetTime, lockHolder, wpc, sleepUntil, interruption, rpc,
                   now, submitted, submittedEarly, failed, queuedFailures, reportedFailures>>

(* Render thread: replaceCommit(commit) swaps in the commit only while one *)
(* is pending, and returns whether it did; a refused commit stays with    *)
(* the caller.                                                             *)
ReplaceCommit(c) ==
    /\ rpc = "running" /\ Unlocked /\ c \notin handedOver
    /\ \/ /\ commit # NoCommit
          /\ commit' = c /\ replaceResult' = "true" /\ notified' = TRUE
          /\ handedOver' = handedOver \cup {c}
          /\ superseded' = superseded \cup {commit}
       \/ /\ commit = NoCommit
          /\ replaceResult' = "false"
          /\ UNCHANGED <<commit, notified, handedOver, superseded>>
    /\ UNCHANGED <<targetTime, lockHolder, wpc, sleepUntil, interruption, rpc,
                   now, submitted, submittedEarly, failed, queuedFailures, reportedFailures>>

(* Render thread: the event loop runs one queued commitFailed.            *)
DeliverFailure ==
    /\ rpc = "running" /\ queuedFailures > 0
    /\ queuedFailures' = queuedFailures - 1
    /\ reportedFailures' = reportedFailures + 1
    /\ UNCHANGED <<commit, targetTime, lockHolder, wpc, notified, sleepUntil,
                   interruption, rpc, now, handedOver, superseded, submitted, submittedEarly,
                   failed, replaceResult>>

(* ~DrmCommitThread, first statement: requestInterruption(), no lock.     *)
RequestInterruption ==
    /\ rpc = "running"
    /\ interruption' = TRUE /\ rpc' = "notifying"
    /\ UNCHANGED <<commit, targetTime, lockHolder, wpc, notified, sleepUntil,
                   now, handedOver, superseded, submitted, submittedEarly, failed,
                   queuedFailures, reportedFailures, replaceResult>>

(* ~DrmCommitThread, rest: lock, notify_all, unlock, and return; the      *)
(* members are destroyed after it, and the thread is not waited for.      *)
DestroyNotify ==
    /\ rpc = "notifying" /\ Unlocked
    /\ notified' = TRUE /\ rpc' = "destroyed"
    /\ UNCHANGED <<commit, targetTime, lockHolder, wpc, sleepUntil,
                   interruption, now, handedOver, superseded, submitted, submittedEarly,
                   failed, queuedFailures, reportedFailures, replaceResult>>

(* The clock.                                                              *)
Tick ==
    /\ now < MaxTime
    /\ now' = now + 1
    /\ UNCHANGED <<commit, targetTime, lockHolder, wpc, notified, sleepUntil,
                   interruption, rpc, handedOver, superseded, submitted, submittedEarly,
                   failed, queuedFailures, reportedFailures, replaceResult>>

Worker ==
    \/ WorkerCheckInterruption \/ WorkerLock \/ WorkerWake
    \/ WorkerRelockAfterWait \/ WorkerCheckCommit \/ WorkerReadTarget
    \/ WorkerWakeFromSleep
    \/ WorkerRelock \/ WorkerSubmit

Render ==
    \/ \E c \in Commits, t \in now..MaxTime : SetCommit(c, t)
    \/ \E c \in Commits : ReplaceCommit(c)
    \/ DeliverFailure \/ RequestInterruption \/ DestroyNotify

Next == Worker \/ SpuriousWakeup \/ Render \/ Tick

(* The worker thread runs whenever it can (TimeCriticalPriority); time    *)
(* passes; a destructor that has started finishes.  The render thread is  *)
(* not obliged to produce commits, run its queued calls nor to tear the   *)
(* thread down.                                                            *)
Spec == Init /\ [][Next]_vars
        /\ WF_vars(Worker) /\ WF_vars(Tick) /\ WF_vars(DestroyNotify)

-----------------------------------------------------------------------------
(* Properties.                                                             *)

(* Refinement: with the threads, the lock and the clock hidden, the       *)
(* commit thread is the single-slot mailbox of CommitMailbox.  It fails   *)
(* if the worker submits a commit other than the one in m_commit when it  *)
(* submits (e.g. one read before it unlocked to sleep, and replaced       *)
(* meanwhile), or if replaceCommit stores into an empty slot.             *)
Mailbox == INSTANCE CommitMailbox
             WITH slot <- commit,
                  delivered <- submitted,
                  answer <- replaceResult
MailboxRefinement == Mailbox!Spec

(* Every commit handed to setCommit/replaceCommit before teardown is      *)
(* eventually submitted to the kernel or superseded by a newer one: the   *)
(* worker never sleeps in m_commitPending.wait while a commit waits.      *)
CommitEventuallyResolved ==
    \A c \in Commits :
        (c \in handedOver) ~> (c \in SubmittedCommits \/ c \in superseded \/ interruption)

(* No commit reaches the kernel before the target time it was given:     *)
(* m_targetCommitTime when the commit is submitted has passed.            *)
NoEarlySubmit == submittedEarly = {}

(* Once the destructor has asked the thread to stop, the worker loop      *)
(* eventually returns.                                                     *)
TeardownStopsWorker == interruption ~> (wpc = "exited")

=============================================================================
