---------------------------- MODULE NodeThreads ----------------------------
(***************************************************************************)
(* The threads of one RaftNode, its mutex mu_ and its condition variables  *)
(* electionCv_ and applyCv_: what wakes whom, and how Stop ends them.      *)
(*                                                                         *)
(* The election and the apply thread each sleep on a condition variable of *)
(* their own, so a notification names the threads it reaches.  A wait with *)
(* a predicate tests it, holding mu_, and goes to sleep in a later step    *)
(* that releases mu_; a notification in between reaches nobody.  The RPC   *)
(* handlers and the replication thread hold mu_ for one step.  Only        *)
(* whether role_ is Leader matters here: "Follower" includes candidates.   *)
(***************************************************************************)
EXTENDS Integers

CONSTANTS
  None,      \* nobody holds mu_
  MaxCommit  \* bound: the largest commitIndex_

ASSUME MaxCommitAssumption == MaxCommit \in Nat

Thread == {"election", "replication", "apply"}

VARIABLES
  running,     \* running_
  role,        \* role_
  commitIndex, \* commitIndex_
  lastApplied, \* lastApplied_
  mu,          \* which of the threads that keep it over a step holds mu_
  pc,          \* where each thread is
  stop         \* where the call of Stop is

vars == <<running, role, commitIndex, lastApplied, mu, pc, stop>>

\* Start has been called on a node that recovered nothing.
Init ==
  /\ running = TRUE
  /\ role = "Follower"
  /\ commitIndex = 0 /\ lastApplied = 0
  /\ mu = None
  /\ pc = [t \in Thread |-> "loop"]
  /\ stop = "running"

Goto(t, place) == pc' = [pc EXCEPT ![t] = place]

Holding(t) == mu = t

Acquire(t) == mu = None /\ mu' = t

Release(t) == mu = t /\ mu' = None

\* notify_all, on the condition variables the threads T sleep on.
NotifyAll(T) == [t \in Thread |-> IF t \in T /\ pc[t] = "asleep" THEN "wake" ELSE pc[t]]

\* Faulty: the loops do not test running_.
LoopOn(t) ==
  /\ pc[t] = "loop"
  /\ Goto(t, "body")
  /\ UNCHANGED <<running, role, commitIndex, lastApplied, mu, stop>>

\* `while (running_)' of the three loops.
Loop(t) ==
  /\ pc[t] = "loop"
  /\ Goto(t, IF running THEN "body" ELSE "ended")
  /\ UNCHANGED <<running, role, commitIndex, lastApplied, mu, stop>>

\* The sleep of a wait: mu_ is released as the thread joins the waiters.
Sleep(t) ==
  /\ pc[t] = "sleep"
  /\ Release(t)
  /\ Goto(t, "asleep")
  /\ UNCHANGED <<running, role, commitIndex, lastApplied, stop>>

\* A notified thread, or one whose sleep has a timeout, takes mu_ again.
Wake(t) ==
  /\ pc[t] = "wake"
  /\ Acquire(t)
  /\ Goto(t, "test")
  /\ UNCHANGED <<running, role, commitIndex, lastApplied, stop>>
-----------------------------------------------------------------------------
(***************************************************************************)
(* ElectionLoop                                                            *)
(***************************************************************************)

\* The timed wait.  Its timeout ends it whatever happens, so where it sleeps
\* is left out: mu_ is free until the thread takes it.
ElectionTimedWait ==
  /\ pc["election"] = "body"
  /\ Acquire("election")
  /\ Goto("election", "timedOut")
  /\ UNCHANGED <<running, role, commitIndex, lastApplied, stop>>

\* What follows the timed wait: the loop ends, or a leader goes on to the
\* untimed wait, or an election starts, or a heartbeat came in time.
ElectionTimedOut ==
  /\ pc["election"] = "timedOut" /\ Holding("election")
  /\ \/ ~ running /\ Goto("election", "ended") /\ mu' = None
     \/ running /\ role = "Leader" /\ Goto("election", "test") /\ UNCHANGED mu
     \/ /\ running /\ role # "Leader" /\ mu' = None
        /\ \E next \in {"electing", "loop"} : Goto("election", next)
  /\ UNCHANGED <<running, role, commitIndex, lastApplied, stop>>

\* The untimed wait of a leader tests its predicate.
LeaderWait ==
  /\ pc["election"] = "test" /\ Holding("election")
  /\ IF ~ running \/ role # "Leader" THEN Goto("election", "loop") /\ mu' = None
                                     ELSE Goto("election", "sleep") /\ UNCHANGED mu
  /\ UNCHANGED <<running, role, commitIndex, lastApplied, stop>>

\* StartElection returns, the node being leader or not.
StartElection ==
  /\ pc["election"] = "electing" /\ mu = None
  /\ role' \in {role, "Leader"}
  /\ Goto("election", "loop")
  /\ UNCHANGED <<running, commitIndex, lastApplied, mu, stop>>
-----------------------------------------------------------------------------
(***************************************************************************)
(* ReplicationLoop and the handlers of the RPC server                      *)
(***************************************************************************)

\* The sleep of heartbeatInterval, and the test of role_ without mu_.
Heartbeat ==
  /\ pc["replication"] = "body"
  /\ Goto("replication", IF role = "Leader" THEN "sending" ELSE "loop")
  /\ UNCHANGED <<running, role, commitIndex, lastApplied, mu, stop>>

\* Faulty: the election thread is not told.
BecomeFollowerQuietly(alsoNotified) ==
  /\ role' = "Follower"
  /\ pc' = NotifyAll(alsoNotified)

\* BecomeFollower with its ResetElectionTimer.
BecomeFollower(alsoNotified) ==
  /\ role' = "Follower"
  /\ pc' = NotifyAll({"election"} \cup alsoNotified)

\* Faulty: the apply thread looks at commitIndex_ by itself.
CommitNotifiesNobody(index) == {}

\* Whom a store of commitIndex_ notifies.
CommitNotifies(index) == IF index > commitIndex THEN {"apply"} ELSE {}

\* ReplicateToPeer has an answer: of a later term, or one that lets
\* AdvanceCommitIndex go on.
ReplicateToPeer ==
  /\ pc["replication"] = "sending" /\ mu = None
  /\ \/ BecomeFollower({}) /\ UNCHANGED commitIndex
     \/ /\ role = "Leader"
        /\ commitIndex' \in commitIndex + 1 .. MaxCommit
        /\ pc' = NotifyAll(CommitNotifies(commitIndex'))
        /\ UNCHANGED role
  /\ UNCHANGED <<running, lastApplied, mu, stop>>

\* SendHeartbeatsToAll returns.
HeartbeatsSent ==
  /\ pc["replication"] = "sending"
  /\ Goto("replication", "loop")
  /\ UNCHANGED <<running, role, commitIndex, lastApplied, mu, stop>>

\* HandleAppendEntries, of a later term or of the one this node follows in.
HandleAppendEntries ==
  /\ mu = None
  /\ commitIndex' \in commitIndex .. MaxCommit
  /\ \/ BecomeFollower(CommitNotifies(commitIndex'))
     \/ /\ role # "Leader" /\ UNCHANGED role
        /\ pc' = NotifyAll({"election"} \cup CommitNotifies(commitIndex'))
  /\ UNCHANGED <<running, lastApplied, mu, stop>>

\* HandleRequestVote of a later term.  Otherwise the vote at most resets the
\* timer of a node that is no leader, whose wait is timed.
HandleRequestVote ==
  /\ mu = None
  /\ BecomeFollower({})
  /\ UNCHANGED <<running, commitIndex, lastApplied, mu, stop>>
-----------------------------------------------------------------------------
(***************************************************************************)
(* ApplyLoop                                                               *)
(***************************************************************************)
ApplyLock ==
  /\ pc["apply"] = "body"
  /\ Acquire("apply")
  /\ Goto("apply", "test")
  /\ UNCHANGED <<running, role, commitIndex, lastApplied, stop>>

\* The wait tests its predicate; then the loop ends, or the inner loop starts.
ApplyWait ==
  /\ pc["apply"] = "test" /\ Holding("apply")
  /\ IF running /\ lastApplied >= commitIndex
     THEN Goto("apply", "sleep") /\ UNCHANGED mu
     ELSE IF running THEN Goto("apply", "applying") /\ UNCHANGED mu
                     ELSE Goto("apply", "ended") /\ mu' = None
  /\ UNCHANGED <<running, role, commitIndex, lastApplied, stop>>

\* Faulty: the inner loop runs once more.
ApplyEntryOnceMore ==
  /\ pc["apply"] = "applying" /\ Holding("apply") /\ mu' = None
  /\ Goto("apply", IF lastApplied <= commitIndex THEN "unlocked" ELSE "loop")
  /\ UNCHANGED <<running, role, commitIndex, lastApplied, stop>>

\* The inner loop: mu_ is released while an entry is applied.
ApplyEntry ==
  /\ pc["apply"] = "applying" /\ Holding("apply") /\ mu' = None
  /\ Goto("apply", IF lastApplied < commitIndex THEN "unlocked" ELSE "loop")
  /\ UNCHANGED <<running, role, commitIndex, lastApplied, stop>>

EntryApplied ==
  /\ pc["apply"] = "unlocked"
  /\ Acquire("apply")
  /\ lastApplied' = lastApplied + 1
  /\ Goto("apply", "applying")
  /\ UNCHANGED <<running, role, commitIndex, stop>>
-----------------------------------------------------------------------------
(***************************************************************************)
(* Stop, which does not take mu_                                           *)
(***************************************************************************)
Stop ==
  /\ stop = "running"
  /\ running' = FALSE
  /\ stop' = "notifyElection"
  /\ UNCHANGED <<role, commitIndex, lastApplied, mu, pc>>

StopNotifies ==
  /\ \/ /\ stop = "notifyElection" /\ stop' = "notifyApply"
        /\ pc' = NotifyAll({"election"})
     \/ /\ stop = "notifyApply" /\ stop' = "joining"
        /\ pc' = NotifyAll({"apply"})
  /\ UNCHANGED <<running, role, commitIndex, lastApplied, mu>>

\* The three joins.
Join ==
  /\ stop = "joining"
  /\ \A t \in Thread : pc[t] = "ended"
  /\ stop' = "stopped"
  /\ UNCHANGED <<running, role, commitIndex, lastApplied, mu, pc>>
-----------------------------------------------------------------------------
ElectionLoop ==
  \/ Loop("election") \/ ElectionTimedWait \/ ElectionTimedOut
  \/ LeaderWait \/ Sleep("election") \/ Wake("election") \/ StartElection

ReplicationLoop == Loop("replication") \/ Heartbeat \/ HeartbeatsSent

ApplyLoop ==
  \/ Loop("apply") \/ ApplyLock \/ ApplyWait \/ Sleep("apply") \/ Wake("apply")
  \/ ApplyEntry \/ EntryApplied

Handlers == ReplicateToPeer \/ HandleAppendEntries \/ HandleRequestVote

StopCall == StopNotifies \/ Join

Next ==
  ElectionLoop \/ ReplicationLoop \/ ApplyLoop \/ Handlers \/ Stop \/ StopCall

(***************************************************************************)
(* Every thread goes on, and gets mu_ if it is free again and again.       *)
(* Nobody has to call Stop or to send an RPC.                              *)
(***************************************************************************)
Fairness ==
  /\ SF_vars(ElectionLoop) /\ SF_vars(ReplicationLoop) /\ SF_vars(ApplyLoop)
  /\ WF_vars(StopCall)

Spec == Init /\ [][Next]_vars /\ Fairness
-----------------------------------------------------------------------------
\* Every variable has its type, and mu_ is held exactly where the code is
\* inside its locks.
TypeOK ==
  /\ running \in BOOLEAN
  /\ role \in {"Follower", "Leader"}
  /\ commitIndex \in 0 .. MaxCommit /\ lastApplied \in 0 .. commitIndex
  /\ \A t \in Thread : Holding(t) <=> pc[t] \in {"timedOut", "test", "sleep", "applying"}

\* A committed entry is applied, however its commit falls between the apply
\* thread's test of the predicate, its sleep and its unlocked ApplyEntry:
\* "woken by commitIndex advance" in the README's concurrency table.
CommittedIsApplied ==
  \A i \in 1 .. MaxCommit : commitIndex >= i ~> lastApplied >= i \/ ~ running

\* The election thread of a deposed leader leaves its untimed wait, so that the
\* node can stand for election again.
DeposedLeaderWakes ==
  pc["election"] = "asleep" /\ role # "Leader" ~> pc["election"] # "asleep"

\* A call of Stop returns, or it waits for a thread that sleeps on its condition
\* variable since the notification was lost: nothing else, such as mu_ or a
\* loop that goes on, keeps the joins of Stop waiting.
StopWaitsForSleepersOnly ==
  \/ [](stop = "running") \/ <>(stop = "stopped")
  \/ <>[](~ running /\ "asleep" \in {pc["election"], pc["apply"]})

\* A call of Stop returns, which the tests' TearDown and the end of main rely
\* on.
StopReturns == stop # "running" ~> stop = "stopped"
=============================================================================
