--------------------------- MODULE RaftNodeProofs ---------------------------
(***************************************************************************)
(* Type correctness of RaftNode, for every cluster and every value of the  *)
(* bounds.                                                                 *)
(***************************************************************************)
EXTENDS RaftOperatorProofs

\* The initial state is well-typed.
LEMMA TypeInit == Init => TypeInv
<1>1. <<>> \in Log
  BY DEF Log
<1> QED
  BY <1>1 DEF Init, NoVotes, TypeInv, TypeOK, Term, Index

\* The steps of an election.
LEMMA TypeElection ==
  ASSUME TypeInv, NEW n \in Node, NEW p \in Node,
         \/ StartElection(n) \/ FinishElection(n)
         \/ HandleRequestVote(n, p) \/ ReceiveVote(n, p)
  PROVE  TypeInv'
<1> USE DEF TypeInv, TypeOK, Term, Index
<1>1. CASE StartElection(n)
  <2> DEFINE m == [term |-> currentTerm[n] + 1, lastLogIndex |-> Len(log[n]),
                   lastLogTerm |-> LastTerm(log[n])]
             reqs == [v \in Node |-> IF v = n THEN None ELSE m]
  <2>1. m \in VoteRequest
    <3>1. LastTerm(log[n]) \in Nat /\ Len(log[n]) \in Nat
      BY GetTermType DEF Log
    <3>2. currentTerm[n] + 1 \in Nat \ {0}
      OBVIOUS
    <3> HIDE DEF TypeInv, TypeOK
    <3> QED
      BY <3>1, <3>2 DEF VoteRequest
  <2> HIDE DEF m
  <2>2. reqs \in [Node -> VoteRequest \cup {None}]
    BY <2>1
  <2>3. voteReq' = [voteReq EXCEPT ![n] = reqs]
    BY <1>1 DEF StartElection, m
  <2> HIDE DEF reqs
  <2>4. voteReq' \in [Node -> [Node -> VoteRequest \cup {None}]]
    BY <2>2, <2>3
  <2>5. /\ currentTerm' = [currentTerm EXCEPT ![n] = @ + 1]
        /\ votedFor' = [votedFor EXCEPT ![n] = n]
        /\ role' = [role EXCEPT ![n] = "Candidate"]
        /\ electing' = [electing EXCEPT ![n] = currentTerm[n] + 1]
        /\ votes' = [votes EXCEPT ![n] = {n}]
        /\ elections' = elections + 1
        /\ UNCHANGED <<logVars, commitIndex, leaderVars, voteResp, replVars, restarts>>
    BY <1>1 DEF StartElection
  <2> QED
    BY <2>4, <2>5 DEF logVars, leaderVars, replVars
<1>2. CASE FinishElection(n)
  <2>1. voteResp' \in [Node -> [Node -> VoteResponse \cup {None}]]
    BY <1>2 DEF FinishElection, ReturnFromElection, NoVotes
  <2>2. log' \in [Node -> Log] /\ wal' \in [Node -> Log]
    <3>1. Append(log[n], currentTerm[n]) \in Log /\ <<currentTerm[n]>> \in Log /\ Len(log[n]) \in Nat
      BY DEF Log
    <3>2. WalAppendAll(wal[n], Len(log[n]), <<currentTerm[n]>>) \in Log
      BY <3>1, AppendAllType
    <3>3. \/ log' = log /\ wal' = wal
          \/ /\ log' = [log EXCEPT ![n] = Append(log[n], currentTerm[n])]
             /\ wal' = [wal EXCEPT ![n] =
                          WalAppendAll(wal[n], Len(log[n]), <<currentTerm[n]>>)]
      BY <1>2, Zenon DEF FinishElection, logVars
    <3>4. log \in [Node -> Log] /\ wal \in [Node -> Log]
      OBVIOUS
    <3> HIDE DEF TypeInv
    <3> QED
      BY <3>1, <3>2, <3>3, <3>4
  <2>3. nextIndex' \in [Node -> [Node -> Nat \ {0}]] /\ matchIndex' \in [Node -> [Node -> Index]]
    <3> DEFINE next == [p_1 \in Node |-> Len(log[n]) + 1]
               zero == [p_1 \in Node |-> 0]
    <3>1. next \in [Node -> Nat \ {0}] /\ zero \in [Node -> Index]
      <4>1. Len(log[n]) \in Nat
        BY LengthType
      <4> HIDE DEF TypeInv
      <4> QED
        BY <4>1
    <3>2. \/ nextIndex' = nextIndex /\ matchIndex' = matchIndex
          \/ /\ nextIndex' = [nextIndex EXCEPT ![n] = next]
             /\ matchIndex' = [matchIndex EXCEPT ![n] = zero]
      BY <1>2, Zenon DEF FinishElection, leaderVars
    <3>3. nextIndex \in [Node -> [Node -> Nat \ {0}]] /\ matchIndex \in [Node -> [Node -> Index]]
      OBVIOUS
    <3> HIDE DEF next, zero, TypeInv
    <3> QED
      BY <3>1, <3>2, <3>3
  <2>4. /\ role' = role \/ role' = [role EXCEPT ![n] = "Leader"]
        /\ electing' = [electing EXCEPT ![n] = 0]
        /\ UNCHANGED <<hardState, commitIndex, votes, voteReq, replVars, bounds>>
    BY <1>2, Zenon DEF FinishElection, ReturnFromElection
  <2> QED
    BY <2>1, <2>2, <2>3, <2>4 DEF hardState, replVars, bounds
<1>3. CASE HandleRequestVote(n, p)
  <2>1. voteReq[p][n] \in VoteRequest
    BY <1>3 DEF HandleRequestVote
  <2>2. voteReq[p][n].term \in Nat
    BY <2>1 DEF VoteRequest
  <2>3. VoteGranted(n, p, voteReq[p][n]) \in BOOLEAN
    BY DEF VoteGranted
  <2> QED
    BY <1>3, <2>2, <2>3
    DEF HandleRequestVote, VoteResponse, logVars, leaderVars, replVars, bounds
<1>4. CASE ReceiveVote(n, p)
  <2>1. voteResp[n][p] \in VoteResponse
    BY <1>4 DEF ReceiveVote
  <2>2. voteResp[n][p].term \in Nat
    BY <2>1 DEF VoteResponse
  <2>3. CASE /\ BecomeFollower(n, voteResp[n][p].term) /\ ReturnFromElection(n)
             /\ UNCHANGED votes
    BY <1>4, <2>2, <2>3
    DEF ReceiveVote, ReturnFromElection, BecomeFollower, NoVotes, logVars, leaderVars,
        replVars, bounds
  <2>4. CASE /\ votes' = votes \/ votes' = [votes EXCEPT ![n] = @ \cup {p}]
             /\ voteResp' = [voteResp EXCEPT ![n][p] = None]
             /\ UNCHANGED <<hardState, role, electing>>
    <3>1. votes' \in [Node -> SUBSET Node]
      <4>1. votes \in [Node -> SUBSET Node]
        OBVIOUS
      <4>2. votes[n] \cup {p} \in SUBSET Node
        BY <4>1
      <4> HIDE DEF TypeInv
      <4> QED
        BY <2>4, <4>1, <4>2
    <3>2. voteResp' \in [Node -> [Node -> VoteResponse \cup {None}]]
      BY <2>4
    <3> QED
      BY <1>4, <2>4, <3>1, <3>2
      DEF ReceiveVote, hardState, logVars, leaderVars, replVars, bounds
  <2> QED
    BY <1>4, <2>3, <2>4 DEF ReceiveVote
<1> QED
  BY <1>1, <1>2, <1>3, <1>4

\* The steps of the leader's replication thread and of Propose.
LEMMA TypeReplication ==
  ASSUME TypeInv, NEW n \in Node, NEW p \in Node,
         \/ Propose(n) \/ ReplicateToPeer(n, p)
         \/ ReceiveAppendResponse(n) \/ ReplicateTimeout(n)
  PROVE  TypeInv'
<1> USE DEF TypeInv, TypeOK, Term, Index
<1>1. CASE Propose(n)
  <2>1. Append(log[n], currentTerm[n]) \in Log /\ <<currentTerm[n]>> \in Log /\ Len(log[n]) \in Nat
    BY DEF Log
  <2>2. WalAppendAll(wal[n], Len(log[n]), <<currentTerm[n]>>) \in Log
    BY SMTT(30), <2>1, AppendAllType
  <2> QED
    BY SMTT(30), <1>1, <2>1, <2>2
    DEF Propose, hardState, leaderVars, electVars, replVars, bounds
<1>2. CASE ReplicateToPeer(n, p)
  <2> DEFINE prev == nextIndex[n][p] - 1
             es == SubSeq(log[n], prev + 1, Minimum(Len(log[n]), prev + MaxBatch))
             m == [term |-> currentTerm[n], prevLogIndex |-> prev,
                   prevLogTerm |-> GetTerm(log[n], prev), entries |-> es,
                   leaderCommit |-> commitIndex[n]]
             local == [peer |-> p, prevIndex |-> prev, count |-> Len(es)]
  <2>1. prev \in Nat
    OBVIOUS
  <2>2. rpc' = [rpc EXCEPT ![n] = local] /\ appendReq' = [appendReq EXCEPT ![n][p] = m]
    BY <1>2 DEF ReplicateToPeer
  <2>3. es \in Log
    BY <2>1, BatchType
  <2>5. GetTerm(log[n], prev) \in Nat
    BY GetTermType
  <2> HIDE DEF prev, es
  <2>4. Len(es) \in Nat
    BY <2>3 DEF Log
  <2>6. m \in AppendRequest /\ local \in PendingRpc
    BY <2>1, <2>3, <2>4, <2>5 DEF AppendRequest, PendingRpc
  <2> HIDE DEF m, local
  <2>7. appendReq' \in [Node -> [Node -> AppendRequest \cup {None}]]
    BY <2>2, <2>6
  <2>8. /\ rpc' \in [Node -> PendingRpc \cup {None}]
        /\ \A l \in Node : rpc[l] # None => rpc'[l] # None
    <3>1. rpc[n] = None
      BY SMTT(30), <1>2 DEF ReplicateToPeer
    <3> QED
      BY <2>2, <2>6, <3>1
  <2> QED
    BY <1>2, <2>7, <2>8
    DEF ReplicateToPeer, hardState, logVars, leaderVars, electVars, bounds
<1>3. CASE ReceiveAppendResponse(n)
  <2> DEFINE r == appendResp[n]
             f == rpc[n].peer
             newMatch == Maximum(matchIndex[n][f], rpc[n].prevIndex + rpc[n].count)
  <2>1. r \in AppendResponse /\ rpc[n] \in PendingRpc
    BY SMTT(90), <1>3 DEF ReceiveAppendResponse
  <2>2. f \in Node /\ r.term \in Nat /\ rpc[n].prevIndex + rpc[n].count \in Nat
    BY <2>1 DEF AppendResponse, PendingRpc
  <2>3. newMatch \in Nat
    BY <2>2 DEF Maximum
  <2>4. BackUp(log[n], r) \in Nat \ {0}
    BY SMTT(30), <2>1, BackUpType
  <2> HIDE DEF newMatch
  <2>5. /\ rpc' = [rpc EXCEPT ![n] = None]
        /\ appendResp' = [appendResp EXCEPT ![n] = None]
        /\ UNCHANGED <<logVars, electVars, appendReq, bounds>>
    BY <1>3 DEF ReceiveAppendResponse
  <2>6. SUFFICES /\ currentTerm' \in [Node -> Term]
                 /\ votedFor' \in [Node -> Node \cup {None}]
                 /\ role' \in [Node -> {"Follower", "Candidate", "Leader"}]
                 /\ commitIndex' \in [Node -> Index]
                 /\ nextIndex' \in [Node -> [Node -> Nat \ {0}]]
                 /\ matchIndex' \in [Node -> [Node -> Index]]
    BY SMTT(30), <2>5 DEF logVars, electVars, bounds
  <2>7. CASE BecomeFollower(n, r.term) /\ UNCHANGED <<commitIndex, leaderVars>>
    BY <2>2, <2>7 DEF BecomeFollower, leaderVars
  <2>8. CASE UNCHANGED <<hardState, role, commitIndex, leaderVars>>
    BY <2>8 DEF hardState, leaderVars
  <2>9. CASE /\ matchIndex' = [matchIndex EXCEPT ![n][f] = newMatch]
             /\ nextIndex' = [nextIndex EXCEPT ![n][f] = newMatch + 1]
             /\ commitIndex' = [commitIndex EXCEPT ![n] =
                                  AdvanceCommitIndex(n, matchIndex'[n])]
             /\ UNCHANGED <<hardState, role>>
    <3>1. AdvanceCommitIndex(n, matchIndex'[n]) \in Nat
      BY AdvanceCommitIndexType
    <3> QED
      BY <2>2, <2>3, <2>9, <3>1 DEF hardState
  <2>10. CASE /\ nextIndex' = [nextIndex EXCEPT ![n][f] = BackUp(log[n], r)]
              /\ UNCHANGED <<hardState, role, commitIndex, matchIndex>>
    BY <2>2, <2>4, <2>10 DEF hardState
  <2> QED
    BY SMTT(90), <1>3, <2>7, <2>8, <2>9, <2>10 DEF ReceiveAppendResponse, newMatch
<1>4. CASE ReplicateTimeout(n)
  BY SMTT(30), <1>4
  DEF ReplicateTimeout, hardState, logVars, leaderVars, electVars, bounds
<1> QED
  BY <1>1, <1>2, <1>3, <1>4

\* The AppendEntries handler.
LEMMA TypeHandleAppend ==
  ASSUME TypeInv, NEW f \in Node, NEW l \in Node, HandleAppendEntries(f, l)
  PROVE  TypeInv'
<1> USE DEF TypeInv, TypeOK, Term, Index
<1> DEFINE m == appendReq[l][f]
           answer == AppendAnswer(f, currentTerm[f], m)
           es == IF answer.success THEN m.entries ELSE <<>>
<1>1. m \in AppendRequest
  BY SMTT(30) DEF HandleAppendEntries
<1>2. m.term \in Nat /\ m.prevLogIndex \in Nat /\ m.leaderCommit \in Nat /\ m.entries \in Log
  BY <1>1 DEF AppendRequest
<1>3. answer \in AppendResponse /\ (answer.success => m.prevLogIndex <= Len(log[f]))
  BY <1>1, AppendAnswerType
<1>4. es \in Log /\ (m.prevLogIndex <= Len(log[f]) \/ es = <<>>)
  <2>1. <<>> \in Log
    BY SMTT(30) DEF Log
  <2> QED
    BY <1>2, <1>3, <2>1
<1>5. AppendAll(log[f], m.prevLogIndex, es) \in Log /\ WalAppendAll(wal[f], m.prevLogIndex, es) \in Log
  BY <1>2, <1>4, AppendAllType
<1>6. /\ IF m.term > currentTerm[f] THEN BecomeFollower(f, m.term) ELSE UNCHANGED <<hardState, role>>
      /\ log' = [log EXCEPT ![f] = AppendAll(@, m.prevLogIndex, es)]
      /\ wal' = [wal EXCEPT ![f] = WalAppendAll(@, m.prevLogIndex, es)]
      /\ commitIndex' = [commitIndex EXCEPT ![f] =
           IF answer.success /\ m.leaderCommit > @
           THEN Minimum(m.leaderCommit, Len(log'[f])) ELSE @]
      /\ appendResp' = [appendResp EXCEPT ![l] =
           IF rpc[l] # None /\ rpc[l].peer = f THEN answer ELSE @]
      /\ appendReq' = [appendReq EXCEPT ![l][f] = None]
      /\ UNCHANGED <<leaderVars, electVars, rpc, bounds>>
  BY SMTT(90) DEF HandleAppendEntries
<1> HIDE DEF answer, es, m
<1>7. log' \in [Node -> Log] /\ wal' \in [Node -> Log]
  BY <1>5, <1>6
<1>8. commitIndex' \in [Node -> Index]
  <2>1. Len(log'[f]) \in Nat
    BY SMTT(30), <1>7 DEF Log
  <2> QED
    BY SMTT(90), <1>2, <1>6, <2>1 DEF Minimum
<1>9. /\ appendResp' \in [Node -> AppendResponse \cup {None}]
      /\ \A k \in Node : appendResp'[k] # None => rpc[k] # None
  BY <1>3, <1>6
<1>10. /\ currentTerm' \in [Node -> Term]
       /\ votedFor' \in [Node -> Node \cup {None}]
       /\ role' \in [Node -> {"Follower", "Candidate", "Leader"}]
  BY <1>2, <1>6 DEF BecomeFollower, hardState
<1>11. appendReq' \in [Node -> [Node -> AppendRequest \cup {None}]]
  BY SMTT(90), <1>6
<1> QED
  BY <1>6, <1>7, <1>8, <1>9, <1>10, <1>11 DEF leaderVars, electVars, bounds

\* A process dies and comes back.
LEMMA TypeCrash ==
  ASSUME TypeInv, NEW n \in Node, NEW p \in Node,
         Restart(n) \/ CrashInVote(n, p) \/ CrashInAppend(n, p)
  PROVE  TypeInv'
<1> USE DEF TypeOK, Term, Index
<1>1. CASE Restart(n)
  <2>1. Reboot(n, wal[n]) /\ wal[n] \in Log
    BY <1>1 DEF Restart, TypeInv
  <2> QED
    BY <1>1, <2>1, RebootType DEF Restart, hardState, TypeInv
<1>2. CASE CrashInVote(n, p)
  <2>1. Reboot(n, wal[n]) /\ wal[n] \in Log
    BY SMTT(30), <1>2 DEF CrashInVote, TypeInv
  <2>2. voteReq[p][n].term \in Nat
    <3>1. voteReq[p][n] \in VoteRequest
      BY <1>2 DEF CrashInVote, TypeInv
    <3> QED
      BY <3>1 DEF VoteRequest
  <2>3. /\ currentTerm' \in [Node -> Term] /\ votedFor' \in [Node -> Node \cup {None}]
        /\ voteReq' \in [Node -> [Node -> VoteRequest \cup {None}]]
    BY SMTT(30), <1>2, <2>2 DEF CrashInVote, TypeInv
  <2> QED
    BY <1>2, <2>1, <2>3, RebootType DEF CrashInVote, TypeInv
<1>3. CASE CrashInAppend(n, p)
  <2> DEFINE m == appendReq[p][n]
  <2>1. m \in AppendRequest
    BY <1>3 DEF CrashInAppend, TypeInv
  <2>2. m.term \in Nat /\ m.prevLogIndex \in Nat /\ m.entries \in Log
    BY <2>1 DEF AppendRequest
  <2>3. PICK j \in 0 .. Len(m.entries) - 1 :
          Reboot(n, WalAppendAll(wal[n], m.prevLogIndex, SubSeq(m.entries, 1, j)))
    BY <1>3 DEF CrashInAppend
  <2>4. Len(m.entries) \in Nat
    BY <2>2 DEF Log
  <2>5. SubSeq(m.entries, 1, j) \in Log
    BY <2>2, <2>4, PrefixType
  <2>6. m.prevLogIndex <= Len(log[n])
    BY SMTT(30), <1>3, <2>1, AppendAnswerType DEF CrashInAppend, TypeInv
  <2>7. WalAppendAll(wal[n], m.prevLogIndex, SubSeq(m.entries, 1, j)) \in Log
    BY <2>2, <2>5, <2>6, AppendAllType DEF TypeInv
  <2>8. /\ currentTerm' \in [Node -> Term] /\ votedFor' \in [Node -> Node \cup {None}]
        /\ appendReq' \in [Node -> [Node -> AppendRequest \cup {None}]]
    BY <1>3, <2>2 DEF CrashInAppend, TypeInv
  <2> QED
    BY <1>3, <2>3, <2>7, <2>8, RebootType DEF CrashInAppend, TypeInv
<1> QED
  BY <1>1, <1>2, <1>3


\* Every step keeps the types.
LEMMA TypeStep == TypeInv /\ [Next]_vars => TypeInv'
<1> SUFFICES ASSUME TypeInv, [Next]_vars
             PROVE  TypeInv'
  OBVIOUS
<1>1. CASE UNCHANGED vars
  BY <1>1
  DEF vars, hardState, logVars, leaderVars, electVars, replVars, bounds, TypeInv, TypeOK
<1>2. ASSUME NEW n \in Node,
             \/ StartElection(n) \/ FinishElection(n)
             \/ Propose(n) \/ ReceiveAppendResponse(n) \/ ReplicateTimeout(n)
             \/ Restart(n)
      PROVE  TypeInv'
  BY <1>2, TypeElection, TypeReplication, TypeCrash
<1>3. ASSUME NEW n \in Node, NEW p \in Peers(n),
             \/ HandleRequestVote(n, p) \/ ReceiveVote(n, p)
             \/ ReplicateToPeer(n, p) \/ HandleAppendEntries(n, p)
             \/ CrashInVote(n, p) \/ CrashInAppend(n, p)
      PROVE  TypeInv'
  <2>1. p \in Node
    BY DEF Peers
  <2> QED
    BY <1>3, <2>1, TypeElection, TypeReplication, TypeHandleAppend, TypeCrash
<1> QED
  BY <1>1, <1>2, <1>3 DEF Next

\* The types hold in every state of every run.
LEMMA TypeInvariant == Spec => []TypeInv
BY TypeInit, TypeStep, PTL DEF Spec

\* Every variable of the cluster keeps its type in every run of every cluster,
\* with crashes: in particular nextIndex_ never becomes 0, whatever answers
\* ReplicateToPeer gets, so its unsigned next - 1 does not wrap around.
THEOREM TypeCorrect == Spec => []TypeOK
<1>1. TypeInv => TypeOK
  BY DEF TypeInv
<1> QED
  BY <1>1, TypeInvariant, PTL
=============================================================================
