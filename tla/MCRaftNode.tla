----------------------------- MODULE MCRaftNode -----------------------------
(***************************************************************************)
(* RaftNode for TLC.  States that differ only in data no later step reads  *)
(* are one state: LiveState is the VIEW of the runs.                       *)
(***************************************************************************)
EXTENDS RaftNode, TLC

Symmetry == Permutations(Node)

\* Only a candidate or a leader has counted votes; StartElection resets them.
LiveVotes == [n \in Node |-> IF role[n] = "Follower" THEN {} ELSE votes[n]]
\* nextIndex_ and matchIndex_ are set anew by BecomeLeader.
LiveNext == [n \in Node |-> IF role[n] = "Leader" THEN <<nextIndex[n], matchIndex[n]>> ELSE None]
\* A request nobody waits for, which the voter would refuse, changes nothing.
LiveVoteReq == [c \in Node |-> [v \in Node |->
    IF /\ voteReq[c][v] # None
       /\ electing[c] # voteReq[c][v].term
       /\ \/ voteReq[c][v].term < currentTerm[v]
          \/ voteReq[c][v].term = currentTerm[v] /\ votedFor[v] # None
    THEN None ELSE voteReq[c][v]]]
\* A refusal of no higher term, or a vote for an election that is over, is not
\* counted.
LiveVoteResp == [c \in Node |-> [v \in Node |->
    IF /\ voteResp[c][v] # None
       /\ voteResp[c][v].term <= currentTerm[c]
       /\ \/ ~ voteResp[c][v].voteGranted
          \/ currentTerm[c] # electing[c]
    THEN None ELSE voteResp[c][v]]]
\* A request of an old term is refused, and nobody waits for the refusal.
LiveAppendReq == [l \in Node |-> [f \in Node |->
    IF /\ appendReq[l][f] # None
       /\ appendReq[l][f].term < currentTerm[f]
       /\ ~ (rpc[l] # None /\ rpc[l].peer = f)
    THEN None ELSE appendReq[l][f]]]

LiveState == <<currentTerm, votedFor, role, log, wal, commitIndex, LiveNext, electing, LiveVotes,
      rpc, LiveVoteReq, LiveVoteResp, LiveAppendReq, appendResp, bounds>>
-----------------------------------------------------------------------------
View(n) == INSTANCE NodeView WITH
  Logs <- Log, leader <- role[n] = "Leader", currentTerm <- currentTerm[n],
  log <- log[n], commitIndex <- commitIndex[n]

=============================================================================
