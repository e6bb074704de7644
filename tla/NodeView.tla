------------------------------ MODULE NodeView ------------------------------
(***************************************************************************)
(* What one RaftNode promises to the code above it while its process       *)
(* lives: how role_, currentTerm_, the log and commitIndex_ may change.    *)
(* RaftNode is shown to implement it at every node; Proposals builds on    *)
(* it.                                                                     *)
(***************************************************************************)
EXTENDS Integers, Sequences

CONSTANT Logs  \* the logs there may be, as sequences of terms

VARIABLES leader, currentTerm, log, commitIndex

nodeVars == <<leader, currentTerm, log, commitIndex>>

NodeInit == leader = FALSE /\ currentTerm = 0 /\ log = <<>> /\ commitIndex = 0

\* BecomeLeader: the no-op of the new term goes to the end of the log.
BecomeLeader ==
  /\ ~ leader /\ leader' = TRUE
  /\ log' = Append(log, currentTerm)
  /\ UNCHANGED <<currentTerm, commitIndex>>

\* Propose: a command goes to the end of a leader's log.
AppendCommand ==
  /\ leader
  /\ log' = Append(log, currentTerm)
  /\ UNCHANGED <<leader, currentTerm, commitIndex>>

\* AdvanceCommitIndex: a leader commits up to an entry of its own term.
AdvanceCommitIndex ==
  /\ leader
  /\ \E i \in commitIndex + 1 .. Len(log) : log[i] = currentTerm /\ commitIndex' = i
  /\ UNCHANGED <<leader, currentTerm, log>>

\* Everything a candidate or a follower does, and how a leader stops being
\* one: at a higher term.  What is committed stays where it is in the log.
Follow ==
  /\ leader' = FALSE
  /\ leader => currentTerm' > currentTerm
  /\ ~ leader => currentTerm' >= currentTerm
  /\ log' \in Logs
  /\ commitIndex <= Len(log') /\ SubSeq(log', 1, commitIndex) = SubSeq(log, 1, commitIndex)
  /\ commitIndex' \in commitIndex .. Len(log')

NodeNext == BecomeLeader \/ AppendCommand \/ AdvanceCommitIndex \/ Follow
=============================================================================
