------------------------- MODULE RaftElectionProofs -------------------------
(***************************************************************************)
(* Election safety of RaftNode, for every cluster and every value of the   *)
(* bounds.  The inductive invariant follows a vote from the disk of the    *)
(* voter over the answer to the candidate's count.                         *)
(***************************************************************************)
EXTENDS RaftNodeProofs, FiniteSetTheorems

\* The types of the variables of an election.
ElectionTypes ==
  /\ currentTerm \in [Node -> Nat] /\ votedFor \in [Node -> Node \cup {None}]
  /\ role \in [Node -> {"Follower", "Candidate", "Leader"}]
  /\ electing \in [Node -> Nat] /\ votes \in [Node -> SUBSET Node]
  /\ voteReq \in [Node -> [Node -> VoteRequest \cup {None}]]
  /\ voteResp \in [Node -> [Node -> VoteResponse \cup {None}]]

ElectionInv == ElectionTypes /\ VoteIsPersisted /\ OneVotePerTerm /\ ElectionIsCurrent

\* The types of the election's variables are part of the type invariant.
LEMMA ElectionTypesHold == TypeInv => ElectionTypes
BY DEF TypeInv, TypeOK, ElectionTypes, Term

\* A step in which no vote is cast and no voter changes its vote within a term
\* keeps what is said about votes.
LEMMA VotesKept ==
  ASSUME VoteIsPersisted, OneVotePerTerm,
         currentTerm \in [Node -> Nat], currentTerm' \in [Node -> Nat],
         electing \in [Node -> Nat], electing' \in [Node -> Nat],
         \A v, c \in Node : \A t \in Nat : VoteCast(v, c, t)' => VoteCast(v, c, t),
         \A v \in Node : \/ currentTerm'[v] > currentTerm[v]
                         \/ currentTerm'[v] = currentTerm[v] /\ votedFor'[v] = votedFor[v]
  PROVE  VoteIsPersisted' /\ OneVotePerTerm'
<1>1. \A v, c \in Node : \A t \in Nat :
        VoteCast(v, c, t) => t \in {electing[c], currentTerm[c]}
  BY DEF VoteCast
<1>2. VoteIsPersisted'
  <2> SUFFICES ASSUME NEW v \in Node, NEW c \in Node, NEW t \in Nat, VoteCast(v, c, t)'
               PROVE  \/ currentTerm'[v] > t
                      \/ currentTerm'[v] = t /\ votedFor'[v] = c
    BY DEF VoteIsPersisted
  <2>1. currentTerm[v] > t \/ (currentTerm[v] = t /\ votedFor[v] = c)
    BY <1>1 DEF VoteIsPersisted
  <2> QED
    BY <2>1
<1>3. OneVotePerTerm'
  <2> SUFFICES ASSUME NEW v \in Node, NEW c \in Node, NEW d \in Node, NEW t \in Nat,
                      VoteCast(v, c, t)', VoteCast(v, d, t)'
               PROVE  c = d
    BY DEF OneVotePerTerm
  <2> QED
    BY <1>1 DEF OneVotePerTerm
<1> QED
  BY <1>2, <1>3

\* Nobody has voted in the initial state.
LEMMA ElectionInit == Init => ElectionInv
<1> SUFFICES ASSUME Init PROVE ElectionInv
  OBVIOUS
<1>1. ElectionTypes
  BY TypeInit, ElectionTypesHold
<1>2. \A v, c \in Node : \A t : ~ VoteCast(v, c, t)
  BY DEF Init, NoVotes, VoteCast
<1>3. ElectionIsCurrent
  BY DEF Init, ElectionIsCurrent, NoVotes
<1> QED
  BY <1>1, <1>2, <1>3 DEF ElectionInv, VoteIsPersisted, OneVotePerTerm

\* The election timer fires: the candidate votes for itself.
LEMMA ElectionStart ==
  ASSUME ElectionInv, ElectionTypes', NEW n \in Node, StartElection(n)
  PROVE  ElectionInv'
<1> USE DEF ElectionTypes
<1> DEFINE term == currentTerm[n] + 1
<1>1. /\ currentTerm' = [currentTerm EXCEPT ![n] = term]
      /\ votedFor' = [votedFor EXCEPT ![n] = n]
      /\ role' = [role EXCEPT ![n] = "Candidate"]
      /\ electing' = [electing EXCEPT ![n] = term]
      /\ votes' = [votes EXCEPT ![n] = {n}]
      /\ voteResp' = voteResp /\ electing[n] = 0 /\ role[n] # "Leader"
  BY DEF StartElection
<1>2. voteResp[n] = NoVotes
  BY <1>1 DEF ElectionInv, ElectionIsCurrent
<1>3. \A v \in Node : voteResp[n][v] = None
  BY <1>2 DEF NoVotes
<1>4. \A v, c \in Node : \A t \in Nat :
        VoteCast(v, c, t)' => VoteCast(v, c, t) \/ (v = n /\ c = n /\ t = term)
  BY <1>1, <1>3 DEF VoteCast, ElectionInv
<1>5. \A v, c \in Node : \A t \in Nat : VoteCast(v, c, t) =>
        currentTerm[v] > t \/ (currentTerm[v] = t /\ votedFor[v] = c)
  BY DEF VoteCast, ElectionInv, VoteIsPersisted
<1>6. VoteIsPersisted'
  <2> SUFFICES ASSUME NEW v \in Node, NEW c \in Node, NEW t \in Nat, VoteCast(v, c, t)'
               PROVE  currentTerm'[v] > t \/ (currentTerm'[v] = t /\ votedFor'[v] = c)
    BY DEF VoteIsPersisted
  <2> QED
    BY <1>1, <1>4, <1>5 DEF ElectionInv
<1>7. OneVotePerTerm'
  <2> SUFFICES ASSUME NEW v \in Node, NEW c \in Node, NEW d \in Node, NEW t \in Nat,
                      VoteCast(v, c, t)', VoteCast(v, d, t)'
               PROVE  c = d
    BY DEF OneVotePerTerm
  <2>1. CASE VoteCast(v, c, t) /\ VoteCast(v, d, t)
    BY <2>1 DEF ElectionInv, OneVotePerTerm, VoteCast
  <2>2. CASE v = n /\ t = term
    <3>1. currentTerm[v] \in Nat /\ ~ (currentTerm[v] >= t)
      BY <2>2 DEF ElectionInv
    <3>2. ~ VoteCast(v, c, t) /\ ~ VoteCast(v, d, t)
      <4> HIDE DEF ElectionTypes
      <4> QED
        BY <1>5, <3>1
    <3> QED
      BY <1>4, <3>2
  <2> QED
    BY <1>4, <2>1, <2>2
<1>8. ElectionIsCurrent'
  BY <1>1 DEF ElectionInv, ElectionIsCurrent, NoVotes
<1> QED
  BY <1>6, <1>7, <1>8 DEF ElectionInv

\* A voter answers a request.
LEMMA ElectionVote ==
  ASSUME ElectionInv, ElectionTypes', NEW v \in Node, NEW c \in Node, v # c,
         HandleRequestVote(v, c)
  PROVE  ElectionInv'
<1> USE DEF ElectionTypes
<1> DEFINE m == voteReq[c][v]
           granted == VoteGranted(v, c, m)
<1>1. m.term \in Nat /\ m.term # 0
  <2>1. m \in VoteRequest
    BY DEF HandleRequestVote, ElectionInv
  <2> QED
    BY <2>1 DEF VoteRequest, Term
<1>2. /\ currentTerm' = [currentTerm EXCEPT ![v] = IF m.term > @ THEN m.term ELSE @]
      /\ votedFor' = [votedFor EXCEPT ![v] =
           IF granted THEN c ELSE IF m.term > currentTerm[v] THEN None ELSE @]
      /\ role' = [role EXCEPT ![v] = IF m.term > currentTerm[v] THEN "Follower" ELSE @]
      /\ voteResp' = [voteResp EXCEPT ![c][v] =
           IF electing[c] = m.term
           THEN [term |-> currentTerm[v], voteGranted |-> granted] ELSE @]
      /\ UNCHANGED <<electing, votes>>
  BY DEF HandleRequestVote
<1>3. granted => /\ m.term >= currentTerm[v]
                 /\ m.term > currentTerm[v] \/ votedFor[v] \in {None, c}
  BY DEF VoteGranted
<1> HIDE DEF m, granted
<1>4. \A u, d \in Node : \A t \in Nat :
        VoteCast(u, d, t)' => VoteCast(u, d, t) \/ (u = v /\ d = c /\ t = m.term /\ granted)
  <2> SUFFICES ASSUME NEW u \in Node, NEW d \in Node, NEW t \in Nat,
                      VoteCast(u, d, t)', ~ VoteCast(u, d, t)
               PROVE  u = v /\ d = c /\ t = m.term /\ granted
    OBVIOUS
  <2>1. voteResp'[d][u] # None /\ voteResp'[d][u].voteGranted /\ electing'[d] = t
    BY <1>1, <1>2 DEF VoteCast, ElectionInv
  <2>2. u = v /\ d = c
    BY <1>2, <2>1 DEF VoteCast, ElectionInv
  <2>3. electing[c] = m.term
    BY <1>2, <2>1, <2>2 DEF VoteCast, ElectionInv
  <2>4. voteResp'[c][v] = [term |-> currentTerm[v], voteGranted |-> granted]
    BY <1>2, <2>3 DEF ElectionInv
  <2> QED
    BY <1>2, <2>1, <2>2, <2>3, <2>4
<1>5. \A u, d \in Node : \A t \in Nat : VoteCast(u, d, t) =>
        currentTerm[u] > t \/ (currentTerm[u] = t /\ votedFor[u] = d)
  BY DEF VoteCast, ElectionInv, VoteIsPersisted
<1>6. granted => \A d \in Node : VoteCast(v, d, m.term) => d = c
  <2> SUFFICES ASSUME granted, NEW d \in Node, VoteCast(v, d, m.term)
               PROVE  d = c
    OBVIOUS
  <2>1. currentTerm[v] \in Nat
    BY DEF ElectionInv
  <2>2. currentTerm[v] > m.term \/ (currentTerm[v] = m.term /\ votedFor[v] = d)
    BY <1>1, <1>5
  <2>3. votedFor[v] = d /\ votedFor[v] \in {None, c}
    BY <1>1, <1>3, <2>1, <2>2
  <2> QED
    BY <2>3, NodeAssumption
<1>7. VoteIsPersisted'
  <2> SUFFICES ASSUME NEW u \in Node, NEW d \in Node, NEW t \in Nat, VoteCast(u, d, t)'
               PROVE  currentTerm'[u] > t \/ (currentTerm'[u] = t /\ votedFor'[u] = d)
    BY DEF VoteIsPersisted
  <2>1. CASE u = v /\ d = c /\ t = m.term /\ granted
    <3>1. currentTerm[v] \in Nat
      BY DEF ElectionInv
    <3>2. currentTerm'[v] = m.term
      <4>1. currentTerm'[v] = IF m.term > currentTerm[v] THEN m.term ELSE currentTerm[v]
        BY <1>2 DEF ElectionInv
      <4>2. m.term >= currentTerm[v]
        BY <1>3, <2>1
      <4> HIDE DEF ElectionTypes
      <4> QED
        BY <1>1, <3>1, <4>1, <4>2
    <3>3. votedFor'[v] = c
      BY <1>2, <2>1 DEF ElectionInv
    <3> QED
      BY <2>1, <3>2, <3>3
  <2>2. CASE VoteCast(u, d, t)
    <3>1. currentTerm[u] > t \/ (currentTerm[u] = t /\ votedFor[u] = d)
      BY <1>5, <2>2
    <3>2. CASE u = v /\ granted
      BY <1>1, <1>2, <1>3, <3>1, <3>2, NodeAssumption DEF ElectionInv
    <3>3. CASE u # v \/ ~ granted
      BY <1>1, <1>2, <3>1, <3>3 DEF ElectionInv
    <3> QED
      BY <3>2, <3>3
  <2> QED
    BY <1>4, <2>1, <2>2
<1>8. OneVotePerTerm'
  <2> SUFFICES ASSUME NEW u \in Node, NEW d \in Node, NEW e \in Node, NEW t \in Nat,
                      VoteCast(u, d, t)', VoteCast(u, e, t)'
               PROVE  d = e
    BY DEF OneVotePerTerm
  <2>1. CASE VoteCast(u, d, t) /\ VoteCast(u, e, t)
    BY <2>1 DEF ElectionInv, OneVotePerTerm, VoteCast
  <2>2. CASE u = v /\ t = m.term /\ granted
    <3>1. d = c /\ e = c
      BY <1>4, <1>6, <2>2
    <3> QED
      BY <3>1
  <2> QED
    BY <1>4, <2>1, <2>2
<1>9. ElectionIsCurrent'
  <2>1. \A d \in Node : electing[d] = 0 => voteResp'[d] = voteResp[d]
    BY <1>1, <1>2 DEF ElectionInv
  <2>2. \A d \in Node : /\ currentTerm'[d] >= currentTerm[d]
                        /\ role'[d] # "Follower" =>
                             role'[d] = role[d] /\ currentTerm'[d] = currentTerm[d]
    BY <1>1, <1>2 DEF ElectionInv
  <2>3. NoVotes' = NoVotes /\ \A d \in Node : IsQuorum(votes[d])' <=> IsQuorum(votes[d])
    BY <1>2 DEF NoVotes, IsQuorum, QuorumSize
  <2>4. ASSUME NEW d \in Node
        PROVE  /\ electing'[d] # 0 => role'[d] # "Leader" /\ electing'[d] <= currentTerm'[d]
               /\ electing'[d] # 0 /\ role'[d] # "Follower" => electing'[d] = currentTerm'[d]
               /\ electing'[d] = 0 => voteResp'[d] = NoVotes'
               /\ role'[d] = "Leader" => IsQuorum(votes[d])'
    <3>1. electing'[d] = electing[d] /\ electing[d] \in Nat /\ currentTerm[d] \in Nat
          /\ currentTerm'[d] \in Nat
      BY <1>2 DEF ElectionInv
    <3>2. /\ electing[d] # 0 => role[d] # "Leader" /\ electing[d] <= currentTerm[d]
          /\ electing[d] # 0 /\ role[d] # "Follower" => electing[d] = currentTerm[d]
          /\ electing[d] = 0 => voteResp[d] = NoVotes
          /\ role[d] = "Leader" => IsQuorum(votes[d])
      BY DEF ElectionIsCurrent, ElectionInv
    <3> QED
      BY <2>1, <2>2, <2>3, <3>1, <3>2
  <2> QED
    BY ONLY <2>4 DEF ElectionIsCurrent
<1> QED
  BY <1>7, <1>8, <1>9 DEF ElectionInv

\* The candidate receives an answer or ends its election.
LEMMA ElectionCount ==
  ASSUME ElectionInv, ElectionTypes', NEW c \in Node, NEW p \in Node,
         ReceiveVote(c, p) \/ FinishElection(c)
  PROVE  ElectionInv'
<1> USE DEF ElectionTypes
<1>1. CASE ReceiveVote(c, p)
  <2> DEFINE r == voteResp[c][p]
             counts == r.voteGranted /\ currentTerm[c] = electing[c] /\ role[c] = "Candidate"
  <2>1. r.term \in Nat
    <3>1. r \in VoteResponse
      BY <1>1 DEF ReceiveVote, ElectionInv
    <3> QED
      BY <3>1 DEF VoteResponse, Term
  <2>2. CASE r.term > currentTerm[c] /\ BecomeFollower(c, r.term) /\ ReturnFromElection(c)
             /\ UNCHANGED votes
    <3>1. \A u, d \in Node : \A t \in Nat : VoteCast(u, d, t)' => VoteCast(u, d, t)
      BY <2>1, <2>2 DEF VoteCast, BecomeFollower, ReturnFromElection, NoVotes, ElectionInv
    <3>2. \A u \in Node : \/ currentTerm'[u] > currentTerm[u]
                          \/ currentTerm'[u] = currentTerm[u] /\ votedFor'[u] = votedFor[u]
      BY <2>1, <2>2 DEF BecomeFollower, ElectionInv
    <3>3. VoteIsPersisted' /\ OneVotePerTerm'
      BY <3>1, <3>2, VotesKept DEF ElectionInv
    <3>4. ElectionIsCurrent'
      BY <2>1, <2>2
      DEF ElectionIsCurrent, BecomeFollower, ReturnFromElection, NoVotes, IsQuorum, QuorumSize,
          ElectionInv
    <3> QED
      BY <3>3, <3>4 DEF ElectionInv
  <2>3. CASE /\ votes' = [votes EXCEPT ![c] = IF counts THEN @ \cup {p} ELSE @]
             /\ voteResp' = [voteResp EXCEPT ![c][p] = None]
             /\ UNCHANGED <<hardState, role, electing>>
    <3>0. UNCHANGED <<currentTerm, votedFor, role, electing>>
      BY <2>3 DEF hardState
    <3>1. \A u, d \in Node : \A t \in Nat : VoteCast(u, d, t)' => VoteCast(u, d, t)
      <4> SUFFICES ASSUME NEW u \in Node, NEW d \in Node, NEW t \in Nat,
                          VoteCast(u, d, t)', ~ VoteCast(u, d, t)
                   PROVE  FALSE
        OBVIOUS
      <4>1. u \in votes'[d] /\ role[d] # "Follower" /\ currentTerm[d] = t
        BY <2>3, <3>0 DEF VoteCast, ElectionInv
      <4>2. u = p /\ d = c /\ counts
        BY <2>3, <4>1 DEF VoteCast, ElectionInv
      <4>3. voteResp[c][p] # None
        BY <1>1 DEF ReceiveVote
      <4> QED
        BY <4>1, <4>2, <4>3 DEF VoteCast
    <3>2. VoteIsPersisted' /\ OneVotePerTerm'
      BY <3>0, <3>1, VotesKept DEF ElectionInv
    <3>3. ElectionIsCurrent'
      <4>1. electing[c] # 0
        BY <1>1 DEF ReceiveVote, ElectionInv, ElectionIsCurrent, NoVotes
      <4>2. role[c] # "Leader"
        BY <4>1 DEF ElectionInv, ElectionIsCurrent
      <4>3. \A d \in Node : d # c => votes'[d] = votes[d] /\ voteResp'[d] = voteResp[d]
        BY <2>3 DEF ElectionInv
      <4>4. \A d \in Node : d # c => (IsQuorum(votes[d]) => IsQuorum(votes[d])')
        BY <4>3 DEF IsQuorum, QuorumSize
      <4> QED
        BY <3>0, <4>1, <4>2, <4>3, <4>4 DEF ElectionInv, ElectionIsCurrent, NoVotes
    <3> QED
      BY <3>2, <3>3 DEF ElectionInv
  <2> QED
    BY <1>1, <2>2, <2>3 DEF ReceiveVote
<1>2. CASE FinishElection(c)
  <2>1. /\ electing' = [electing EXCEPT ![c] = 0]
        /\ voteResp' = [voteResp EXCEPT ![c] = NoVotes]
        /\ UNCHANGED <<currentTerm, votedFor, votes>>
    BY <1>2 DEF FinishElection, ReturnFromElection, hardState
  <2>2. \/ role' = role
        \/ role[c] = "Candidate" /\ IsQuorum(votes[c]) /\ role' = [role EXCEPT ![c] = "Leader"]
    BY <1>2, Zenon DEF FinishElection
  <2>3. electing[c] # 0
    BY <1>2 DEF FinishElection
  <2>4. \A u, d \in Node : \A t \in Nat : VoteCast(u, d, t)' => VoteCast(u, d, t)
    <3>1. \A d \in Node : role'[d] # "Follower" => role[d] # "Follower"
      BY <2>2 DEF ElectionInv
    <3>2. \A d, u \in Node : voteResp'[d][u] # None => voteResp'[d][u] = voteResp[d][u] /\ d # c
      BY <2>1 DEF NoVotes, ElectionInv
    <3> QED
      BY <2>1, <3>1, <3>2 DEF VoteCast, ElectionInv
  <2>5. VoteIsPersisted' /\ OneVotePerTerm'
    BY <2>1, <2>4, VotesKept DEF ElectionInv
  <2>6. ElectionIsCurrent'
    <3>1. NoVotes' = NoVotes /\ \A d \in Node : IsQuorum(votes[d])' <=> IsQuorum(votes[d])
      BY <2>1 DEF NoVotes, IsQuorum, QuorumSize
    <3>2. \A d \in Node : d # c => role'[d] = role[d] /\ electing'[d] = electing[d]
                                   /\ voteResp'[d] = voteResp[d]
      BY <2>1, <2>2 DEF ElectionInv
    <3>3. role'[c] = "Leader" => IsQuorum(votes[c])
      BY <2>2, <2>3 DEF ElectionInv, ElectionIsCurrent
    <3>4. electing'[c] = 0 /\ voteResp'[c] = NoVotes
      BY <2>1 DEF ElectionInv
    <3> QED
      BY <2>1, <3>1, <3>2, <3>3, <3>4 DEF ElectionInv, ElectionIsCurrent
  <2> QED
    BY <2>5, <2>6 DEF ElectionInv
<1> QED
  BY <1>1, <1>2

\* A step outside the elections that at most makes n a follower of a later term.
LEMMA ElectionOther ==
  ASSUME ElectionInv, ElectionTypes', NEW n \in Node, NEW t \in Nat,
         UNCHANGED <<electing, votes, voteResp>>,
         \/ UNCHANGED <<hardState, role>>
         \/ t > currentTerm[n] /\ BecomeFollower(n, t)
  PROVE  ElectionInv'
<1> USE DEF ElectionTypes
<1>1. \A d \in Node :
        /\ \/ currentTerm'[d] > currentTerm[d] /\ role'[d] = "Follower"
           \/ currentTerm'[d] = currentTerm[d] /\ role'[d] = role[d] /\ votedFor'[d] = votedFor[d]
  BY DEF BecomeFollower, hardState, ElectionInv
<1>2. \A u, d \in Node : \A s \in Nat : VoteCast(u, d, s)' => VoteCast(u, d, s)
  BY <1>1 DEF VoteCast
<1>3. VoteIsPersisted' /\ OneVotePerTerm'
  BY <1>1, <1>2, VotesKept DEF ElectionInv
<1>4. ElectionIsCurrent'
  <2>1. NoVotes' = NoVotes /\ \A d \in Node : IsQuorum(votes[d])' <=> IsQuorum(votes[d])
    BY DEF NoVotes, IsQuorum, QuorumSize
  <2> QED
    BY <1>1, <2>1 DEF ElectionInv, ElectionIsCurrent
<1> QED
  BY <1>3, <1>4 DEF ElectionInv

\* A process dies and comes back as a follower with the term and the vote it
\* has written.
LEMMA ElectionCrash ==
  ASSUME ElectionInv, ElectionTypes', NEW n \in Node, NEW w, Reboot(n, w),
         \A v \in Node : \/ currentTerm'[v] > currentTerm[v] /\ v = n
                         \/ currentTerm'[v] = currentTerm[v] /\ votedFor'[v] = votedFor[v]
  PROVE  ElectionInv'
<1> USE DEF ElectionTypes
<1>1. /\ role' = [role EXCEPT ![n] = "Follower"]
      /\ electing' = [electing EXCEPT ![n] = 0]
      /\ voteResp' = [voteResp EXCEPT ![n] = NoVotes]
      /\ votes' = [votes EXCEPT ![n] = {}]
  BY DEF Reboot, ReturnFromElection
<1>2. /\ role'[n] = "Follower" /\ electing'[n] = 0 /\ votes'[n] = {} /\ voteResp'[n] = NoVotes
      /\ \A d \in Node : d # n => /\ role'[d] = role[d] /\ electing'[d] = electing[d]
                                  /\ votes'[d] = votes[d] /\ voteResp'[d] = voteResp[d]
                                  /\ currentTerm'[d] = currentTerm[d]
  BY <1>1 DEF ElectionInv
<1>3. \A u, d \in Node : \A s \in Nat : VoteCast(u, d, s)' => VoteCast(u, d, s)
  BY <1>2 DEF VoteCast, NoVotes
<1>4. VoteIsPersisted' /\ OneVotePerTerm'
  BY SMTT(30), <1>3, VotesKept DEF ElectionInv
<1>5. ElectionIsCurrent'
  <2>1. NoVotes' = NoVotes /\ \A d \in Node : d # n => (IsQuorum(votes[d])' <=> IsQuorum(votes[d]))
    BY <1>2 DEF NoVotes, IsQuorum, QuorumSize
  <2>2. ASSUME NEW d \in Node, d # n
        PROVE  /\ electing'[d] # 0 => role'[d] # "Leader" /\ electing'[d] <= currentTerm'[d]
               /\ electing'[d] # 0 /\ role'[d] # "Follower" => electing'[d] = currentTerm'[d]
               /\ electing'[d] = 0 => voteResp'[d] = NoVotes
               /\ role'[d] = "Leader" => IsQuorum(votes[d])'
    BY <1>2, <2>1, <2>2 DEF ElectionInv, ElectionIsCurrent
  <2>3. ASSUME NEW d \in Node
        PROVE  /\ electing'[d] # 0 => role'[d] # "Leader" /\ electing'[d] <= currentTerm'[d]
               /\ electing'[d] # 0 /\ role'[d] # "Follower" => electing'[d] = currentTerm'[d]
               /\ electing'[d] = 0 => voteResp'[d] = NoVotes'
               /\ role'[d] = "Leader" => IsQuorum(votes[d])'
    <3>1. CASE d = n
      BY <1>2, <2>1, <3>1
    <3>2. CASE d # n
      BY <2>1, <2>2, <3>2
    <3> QED
      BY <3>1, <3>2
  <2> QED
    BY ONLY <2>3 DEF ElectionIsCurrent
<1> QED
  BY <1>4, <1>5 DEF ElectionInv

\* Every step keeps the invariant.
LEMMA ElectionStep == TypeInv /\ ElectionInv /\ [Next]_vars => ElectionInv'
<1> SUFFICES ASSUME TypeInv, ElectionInv, [Next]_vars
             PROVE  ElectionInv'
  OBVIOUS
<1>0. ElectionTypes'
  <2>1. TypeInv'
    BY TypeStep
  <2> QED
    BY <2>1 DEF TypeInv, TypeOK, ElectionTypes, Term
<1>1. CASE UNCHANGED vars
  <2>1. UNCHANGED <<electing, votes, voteResp, hardState, role>>
    BY <1>1 DEF vars, electVars
  <2> QED
    BY <1>0, <2>1, ElectionOther, NodeAssumption
<1>2. ASSUME NEW n \in Node, StartElection(n) \/ FinishElection(n)
      PROVE  ElectionInv'
  BY <1>0, <1>2, ElectionStart, ElectionCount
<1>3. ASSUME NEW n \in Node, Propose(n) \/ ReplicateTimeout(n) \/ ReceiveAppendResponse(n)
      PROVE  ElectionInv'
  <2>1. UNCHANGED <<electing, votes, voteResp>>
    BY <1>3 DEF Propose, ReplicateTimeout, ReceiveAppendResponse, electVars
  <2>2. CASE Propose(n) \/ ReplicateTimeout(n)
    BY <1>0, <2>1, <2>2, ElectionOther DEF Propose, ReplicateTimeout
  <2>3. CASE ReceiveAppendResponse(n)
    <3>1. appendResp[n].term \in Nat
      <4>1. appendResp[n] \in AppendResponse
        BY <2>3 DEF ReceiveAppendResponse, TypeInv, TypeOK
      <4> QED
        BY <4>1 DEF AppendResponse, Term
    <3>2. \/ UNCHANGED <<hardState, role>>
          \/ appendResp[n].term > currentTerm[n] /\ BecomeFollower(n, appendResp[n].term)
      BY <2>3 DEF ReceiveAppendResponse
    <3> QED
      BY <1>0, <2>1, <3>1, <3>2, ElectionOther
  <2> QED
    BY <1>3, <2>2, <2>3
<1>4. ASSUME NEW n \in Node, NEW p \in Peers(n), HandleRequestVote(n, p) \/ ReceiveVote(n, p)
      PROVE  ElectionInv'
  <2>1. p \in Node /\ n # p
    BY DEF Peers
  <2> QED
    BY <1>0, <1>4, <2>1, ElectionVote, ElectionCount
<1>5. ASSUME NEW n \in Node, NEW p \in Peers(n), ReplicateToPeer(n, p)
      PROVE  ElectionInv'
  BY <1>0, <1>5, ElectionOther DEF ReplicateToPeer, electVars
<1>6. ASSUME NEW n \in Node, NEW p \in Peers(n), HandleAppendEntries(n, p)
      PROVE  ElectionInv'
  <2>1. appendReq[p][n].term \in Nat
    <3>1. p \in Node /\ appendReq[p][n] # None
      BY <1>6 DEF HandleAppendEntries, Peers
    <3>2. appendReq \in [Node -> [Node -> AppendRequest \cup {None}]]
      BY DEF TypeInv, TypeOK
    <3>3. appendReq[p][n] \in AppendRequest
      BY <3>1, <3>2
    <3> QED
      BY SMTT(30), <3>3 DEF AppendRequest, Term
  <2>2. /\ UNCHANGED <<electing, votes, voteResp>>
        /\ \/ UNCHANGED <<hardState, role>>
           \/ appendReq[p][n].term > currentTerm[n] /\ BecomeFollower(n, appendReq[p][n].term)
    BY <1>6 DEF HandleAppendEntries, electVars
  <2> QED
    BY <1>0, <2>1, <2>2, ElectionOther
<1>7. ASSUME NEW n \in Node, Restart(n)
      PROVE  ElectionInv'
  BY <1>0, <1>7, ElectionCrash DEF Restart, hardState
<1>8. ASSUME NEW n \in Node, NEW p \in Peers(n), CrashInVote(n, p)
      PROVE  ElectionInv'
  <2>1. \A v \in Node : \/ currentTerm'[v] > currentTerm[v] /\ v = n
                        \/ currentTerm'[v] = currentTerm[v] /\ votedFor'[v] = votedFor[v]
    BY <1>8 DEF CrashInVote, ElectionInv, ElectionTypes
  <2> QED
    BY <1>0, <1>8, <2>1, ElectionCrash DEF CrashInVote
<1>9. ASSUME NEW n \in Node, NEW p \in Peers(n), CrashInAppend(n, p)
      PROVE  ElectionInv'
  <2>1. appendReq[p][n] \in AppendRequest /\ currentTerm[n] \in Term /\ log[n] \in Log
    <3>1. p \in Node /\ appendReq[p][n] # None
      BY <1>9 DEF CrashInAppend, Peers
    <3>2. appendReq \in [Node -> [Node -> AppendRequest \cup {None}]]
      BY DEF TypeInv, TypeOK
    <3>3. currentTerm[n] \in Term /\ log[n] \in Log
      BY DEF TypeInv, TypeOK
    <3> QED
      BY <3>1, <3>2, <3>3
  <2>2. appendReq[p][n].term \in Nat /\ appendReq[p][n].term >= currentTerm[n]
    BY <1>9, <2>1, AppendAnswerType DEF CrashInAppend, AppendRequest, Term
  <2>3. \A v \in Node : \/ currentTerm'[v] > currentTerm[v] /\ v = n
                        \/ currentTerm'[v] = currentTerm[v] /\ votedFor'[v] = votedFor[v]
    <3>1. currentTerm \in [Node -> Nat] /\ votedFor \in [Node -> Node \cup {None}]
      BY DEF ElectionInv, ElectionTypes
    <3>2. /\ currentTerm' = [currentTerm EXCEPT ![n] = appendReq[p][n].term]
          /\ votedFor' = [votedFor EXCEPT ![n] =
                            IF appendReq[p][n].term > currentTerm[n] THEN None ELSE @]
      BY <1>9 DEF CrashInAppend
    <3> QED
      BY <2>2, <3>1, <3>2
  <2>4. \E w : Reboot(n, w)
    BY <1>9 DEF CrashInAppend
  <2> QED
    BY <1>0, <2>3, <2>4, ElectionCrash
<1> QED
  BY <1>1, <1>2, <1>3, <1>4, <1>5, <1>6, <1>7, <1>8, <1>9 DEF Next

\* It holds in every state of every run.
LEMMA ElectionInvariant == Spec => []ElectionInv
BY TypeInvariant, ElectionInit, ElectionStep, PTL DEF Spec

\* Two majorities of the cluster share a node.
LEMMA QuorumsIntersect ==
  ASSUME NEW S \in SUBSET Node, NEW T \in SUBSET Node, IsQuorum(S), IsQuorum(T)
  PROVE  S \cap T # {}
<1>1. IsFiniteSet(S) /\ IsFiniteSet(T)
  BY NodeAssumption, FS_Subset
<1>2. Cardinality(Node) \in Nat /\ Cardinality(S) \in Nat /\ Cardinality(T) \in Nat
  BY <1>1, NodeAssumption, FS_CardinalityType
<1>3. Cardinality(S) + Cardinality(T) > Cardinality(Node)
  BY <1>2 DEF IsQuorum, QuorumSize
<1> QED
  BY <1>3, NodeAssumption, FS_MajoritiesIntersect

\* In every run of every cluster, with processes that die at any point of the
\* election code and come back with what PersistHardState wrote, no two nodes
\* are leaders of the same term.
THEOREM ElectionIsSafe == Spec => []ElectionSafety
<1>1. ElectionInv => ElectionSafety
  <2> SUFFICES ASSUME ElectionInv, NEW m \in Node, NEW n \in Node,
                      role[m] = "Leader", role[n] = "Leader", currentTerm[m] = currentTerm[n]
               PROVE  m = n
    BY DEF ElectionSafety
  <2>1. votes[m] \in SUBSET Node /\ votes[n] \in SUBSET Node
    BY DEF ElectionInv, ElectionTypes
  <2>2. IsQuorum(votes[m]) /\ IsQuorum(votes[n])
    BY DEF ElectionInv, ElectionIsCurrent
  <2>3. PICK v \in Node : v \in votes[m] /\ v \in votes[n]
    BY <2>1, <2>2, QuorumsIntersect
  <2>4. VoteCast(v, m, currentTerm[m]) /\ VoteCast(v, n, currentTerm[m])
    BY <2>3 DEF VoteCast
  <2> QED
    BY <2>4 DEF ElectionInv, OneVotePerTerm
<1> QED
  BY <1>1, ElectionInvariant, PTL
=============================================================================
