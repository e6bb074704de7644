------------------------------ MODULE RaftNode ------------------------------
(***************************************************************************)
(* The cluster of RaftNode objects (src/raft/RaftNode.cpp) while their     *)
(* logs are shorter than snapshotThreshold, each with its RaftLog and the  *)
(* part of its WriteAheadLog that a restarted process reads back.          *)
(*                                                                         *)
(* One action is one critical section of mu_.  A log entry is its term:    *)
(* its index is its position, and (term, index) identifies its command.    *)
(* Time is left out: an election timeout may expire, and an RPC may be     *)
(* given up, at any moment.                                                *)
(*                                                                         *)
(* RPCs.  A node talks to each peer over one TCP connection, and the       *)
(* replication thread has one AppendEntries outstanding at a time.  A      *)
(* request that was given up can still be handled, until the next request  *)
(* of its kind on the same connection; so the newest request per kind and  *)
(* connection is all that has to be kept.  A request that is never handled *)
(* is a lost one.                                                          *)
(***************************************************************************)
EXTENDS Integers, Sequences, FiniteSets, LogOperators

CONSTANTS
  Node,         \* the members of the cluster, config_.nodeId and config_.peers
  None,         \* the empty votedFor_, and "no message"
  MaxBatch,     \* entries per AppendEntries request, 100 in the code
  CrashPoints,  \* where a process may die, a subset of CrashPoint
  MaxElections, \* bound: how many elections are started, over all nodes
  MaxWaiting,   \* bound: how many nodes wait for answers at the same time
  MaxLog,       \* bound: a leader with this many entries takes no proposal
  MaxRestarts   \* bound: how many times processes die, over all nodes

CrashPoint == {"idle", "vote", "append", "recovery"}

ASSUME NodeAssumption == IsFiniteSet(Node) /\ Node # {} /\ None \notin Node
ASSUME BoundAssumption ==
  /\ MaxBatch \in Nat \ {0}
  /\ MaxElections \in Nat /\ MaxWaiting \in Nat
  /\ MaxLog \in Nat /\ MaxRestarts \in Nat
ASSUME CrashAssumption == CrashPoints \subseteq CrashPoint

VARIABLES
  currentTerm,  \* currentTerm_, written to the WAL whenever it changes
  votedFor,     \* votedFor_, likewise
  role,         \* role_
  log,          \* entries_ of the RaftLog, without the sentinel
  wal,          \* the entries WriteAheadLog::Recover would return
  commitIndex,  \* commitIndex_
  nextIndex,    \* nextIndex_
  matchIndex,   \* matchIndex_
  electing,     \* the local `term' of a running StartElection, 0 if none runs
  votes,        \* who was counted in the local `votes' of the last StartElection
  rpc,          \* the locals of a ReplicateToPeer that waits for its answer
  voteReq,      \* voteReq[c][v]: newest RequestVote on the connection c to v
  voteResp,     \* voteResp[c][v]: its answer, when c still waits for it
  appendReq,    \* appendReq[l][f]: newest AppendEntries on the connection l to f
  appendResp,   \* appendResp[l]: the answer to rpc[l]
  elections,    \* how many elections were started
  restarts      \* how many processes have died

hardState  == <<currentTerm, votedFor>>
logVars    == <<log, wal>>
leaderVars == <<nextIndex, matchIndex>>
electVars  == <<electing, votes, voteReq, voteResp>>
replVars   == <<rpc, appendReq, appendResp>>
bounds     == <<elections, restarts>>
vars == <<hardState, role, logVars, commitIndex, leaderVars, electVars,
          replVars, bounds>>

Peers(n) == Node \ {n}

\* Faulty: half of an even cluster, a minority of an odd one, is enough.
QuorumSizeHalf == Cardinality(Node) \div 2

QuorumSize == (Cardinality(Node) \div 2) + 1

IsQuorum(S) == Cardinality(S) >= QuorumSize
-----------------------------------------------------------------------------
\* Bound: fewer than MaxWaiting other nodes wait for answers.
MayWait(n) ==
  Cardinality({m \in Peers(n) : electing[m] # 0 \/ rpc[m] # None}) < MaxWaiting

NoVotes == [v \in Node |-> None]

Init ==
  /\ currentTerm = [n \in Node |-> 0]
  /\ votedFor = [n \in Node |-> None]
  /\ role = [n \in Node |-> "Follower"]
  /\ log = [n \in Node |-> <<>>]
  /\ wal = [n \in Node |-> <<>>]
  /\ commitIndex = [n \in Node |-> 0]
  /\ nextIndex = [n \in Node |-> [p \in Node |-> 1]]
  /\ matchIndex = [n \in Node |-> [p \in Node |-> 0]]
  /\ electing = [n \in Node |-> 0]
  /\ votes = [n \in Node |-> {}]
  /\ rpc = [n \in Node |-> None]
  /\ voteReq = [n \in Node |-> NoVotes]
  /\ voteResp = [n \in Node |-> NoVotes]
  /\ appendReq = [n \in Node |-> [p \in Node |-> None]]
  /\ appendResp = [n \in Node |-> None]
  /\ elections = 0 /\ restarts = 0


\* BecomeFollower, always called with a term above currentTerm_.
BecomeFollower(n, t) ==
  /\ currentTerm' = [currentTerm EXCEPT ![n] = t]
  /\ votedFor' = [votedFor EXCEPT ![n] = None]
  /\ role' = [role EXCEPT ![n] = "Follower"]
-----------------------------------------------------------------------------
(***************************************************************************)
(* Elections                                                               *)
(***************************************************************************)

\* StartElection up to the last SendRequestVote.
StartElection(n) ==
  /\ role[n] # "Leader" /\ electing[n] = 0
  /\ MayWait(n)
  /\ elections < MaxElections /\ elections' = elections + 1
  /\ currentTerm' = [currentTerm EXCEPT ![n] = @ + 1]
  /\ votedFor' = [votedFor EXCEPT ![n] = n]
  /\ role' = [role EXCEPT ![n] = "Candidate"]
  /\ electing' = [electing EXCEPT ![n] = currentTerm[n] + 1]
  /\ votes' = [votes EXCEPT ![n] = {n}]
  /\ voteReq' = [voteReq EXCEPT ![n] = [v \in Node |->
       IF v = n THEN None
       ELSE [term |-> currentTerm[n] + 1, lastLogIndex |-> Len(log[n]),
             lastLogTerm |-> LastTerm(log[n])]]]
  /\ UNCHANGED <<logVars, commitIndex, leaderVars, voteResp, replVars, restarts>>

\* Faulty: a candidate that has no log at all is good enough.
IsLogAny(v, lastLogIndex, lastLogTerm) == TRUE


IsLogUpToDate(v, lastLogIndex, lastLogTerm) ==
  \/ lastLogTerm > LastTerm(log[v])
  \/ lastLogTerm = LastTerm(log[v]) /\ lastLogIndex >= Len(log[v])

\* Faulty: a vote given to another candidate of the term is not looked at.
VoteGrantedAgain(v, c, m) ==
  m.term >= currentTerm[v] /\ IsLogUpToDate(v, m.lastLogIndex, m.lastLogTerm)

\* Whether v votes for c when it gets the request m.
VoteGranted(v, c, m) ==
  /\ m.term >= currentTerm[v]
  /\ m.term > currentTerm[v] \/ votedFor[v] \in {None, c}
  /\ IsLogUpToDate(v, m.lastLogIndex, m.lastLogTerm)

\* HandleRequestVote at v.  The answer carries the term from before the call.
HandleRequestVote(v, c) ==
  /\ voteReq[c][v] # None
  /\ LET m       == voteReq[c][v]
         newer   == m.term > currentTerm[v]
         granted == VoteGranted(v, c, m)
     IN  /\ currentTerm' = [currentTerm EXCEPT ![v] = IF newer THEN m.term ELSE @]
         /\ votedFor' = [votedFor EXCEPT ![v] =
              IF granted THEN c ELSE IF newer THEN None ELSE @]
         /\ role' = [role EXCEPT ![v] = IF newer THEN "Follower" ELSE @]
         /\ voteResp' = [voteResp EXCEPT ![c][v] =
              IF electing[c] = m.term
              THEN [term |-> currentTerm[v], voteGranted |-> granted] ELSE @]
  /\ voteReq' = [voteReq EXCEPT ![c][v] = None]
  /\ UNCHANGED <<logVars, commitIndex, leaderVars, electing, votes, replVars, bounds>>

\* Faulty: answers that come in later are kept for the next election.
ReturnFromElectionKeep(c) ==
  electing' = [electing EXCEPT ![c] = 0] /\ UNCHANGED voteResp

\* StartElection returns: nobody waits for the remaining answers.
ReturnFromElection(c) ==
  /\ electing' = [electing EXCEPT ![c] = 0]
  /\ voteResp' = [voteResp EXCEPT ![c] = NoVotes]

\* One ready future of StartElection's second loop.
ReceiveVote(c, v) ==
  /\ voteResp[c][v] # None
  /\ LET r == voteResp[c][v]
     IN  \/ /\ r.term > currentTerm[c]
            /\ BecomeFollower(c, r.term)
            /\ ReturnFromElection(c)
            /\ UNCHANGED votes
         \/ /\ r.term <= currentTerm[c]
            /\ votes' = [votes EXCEPT ![c] =
                 IF /\ r.voteGranted
                    /\ currentTerm[c] = electing[c] /\ role[c] = "Candidate"
                 THEN @ \cup {v} ELSE @]
            /\ voteResp' = [voteResp EXCEPT ![c][v] = None]
            /\ UNCHANGED <<hardState, role, electing>>
  /\ UNCHANGED <<logVars, commitIndex, leaderVars, voteReq, replVars, bounds>>

\* The end of StartElection, the futures not received having timed out, and
\* BecomeLeader with its no-op when the count reaches the quorum.
FinishElection(c) ==
  /\ electing[c] # 0
  /\ ReturnFromElection(c)
  /\ \/ /\ role[c] = "Candidate" /\ currentTerm[c] = electing[c]
        /\ IsQuorum(votes[c])
        /\ role' = [role EXCEPT ![c] = "Leader"]
        /\ nextIndex' = [nextIndex EXCEPT ![c] = [p \in Node |-> Len(log[c]) + 1]]
        /\ matchIndex' = [matchIndex EXCEPT ![c] = [p \in Node |-> 0]]
        /\ log' = [log EXCEPT ![c] = Append(@, currentTerm[c])]
        /\ wal' = [wal EXCEPT ![c] = WalAppendAll(@, Len(log[c]), <<currentTerm[c]>>)]
     \/ /\ ~ (/\ role[c] = "Candidate" /\ currentTerm[c] = electing[c]
              /\ IsQuorum(votes[c]))
        /\ UNCHANGED <<role, leaderVars, logVars>>
  /\ UNCHANGED <<hardState, commitIndex, votes, voteReq, replVars, bounds>>
-----------------------------------------------------------------------------
(***************************************************************************)
(* Replication                                                             *)
(***************************************************************************)

\* Propose up to its wait: a client's command enters the leader's log.
Propose(l) ==
  /\ role[l] = "Leader"
  /\ Len(log[l]) < MaxLog
  /\ log' = [log EXCEPT ![l] = Append(@, currentTerm[l])]
  /\ wal' = [wal EXCEPT ![l] = WalAppendAll(@, Len(log[l]), <<currentTerm[l]>>)]
  /\ UNCHANGED <<hardState, role, commitIndex, leaderVars, electVars, replVars, bounds>>

\* ReplicateToPeer up to its wait, called for one peer after the other.
ReplicateToPeer(l, f) ==
  /\ role[l] = "Leader" /\ rpc[l] = None
  /\ MayWait(l)
  /\ LET prev == nextIndex[l][f] - 1
         es   == SubSeq(log[l], prev + 1, Minimum(Len(log[l]), prev + MaxBatch))
     IN  /\ rpc' = [rpc EXCEPT ![l] = [peer |-> f, prevIndex |-> prev, count |-> Len(es)]]
         /\ appendReq' = [appendReq EXCEPT ![l][f] =
              [term |-> currentTerm[l], prevLogIndex |-> prev,
               prevLogTerm |-> GetTerm(log[l], prev), entries |-> es,
               leaderCommit |-> commitIndex[l]]]
  /\ UNCHANGED <<hardState, role, logVars, commitIndex, leaderVars, electVars,
                 appendResp, bounds>>

\* Faulty: the term of the entry before the new ones is not compared.
AppendAnswerNoTerm(f, t, m) ==
  LET ok == m.term >= t /\ m.prevLogIndex <= Len(log[f])
  IN  [term |-> t, success |-> ok, conflictIndex |-> IF ok THEN 0 ELSE Len(log[f]) + 1,
       conflictTerm |-> 0]

\* Faulty: a request of an earlier term is not refused.
AppendAnswerStale(f, t, m) ==
  LET ok == /\ m.prevLogIndex <= Len(log[f])
            /\ GetTerm(log[f], m.prevLogIndex) = m.prevLogTerm
  IN  [term |-> t, success |-> ok, conflictIndex |-> IF ok THEN 0 ELSE 1, conflictTerm |-> 0]

\* What HandleAppendEntries answers at f, which is at term t when it is called.
AppendAnswer(f, t, m) ==
  LET Answer(ok, ci, ct) ==
        [term |-> t, success |-> ok, conflictIndex |-> ci, conflictTerm |-> ct]
  IN  IF m.term < t THEN Answer(FALSE, 0, 0)
      ELSE IF m.prevLogIndex > Len(log[f]) THEN Answer(FALSE, Len(log[f]) + 1, 0)
      ELSE IF m.prevLogIndex > 0 /\ log[f][m.prevLogIndex] # m.prevLogTerm
      THEN Answer(FALSE, ConflictIndex(log[f], m.prevLogIndex), log[f][m.prevLogIndex])
      ELSE Answer(TRUE, 0, 0)

\* HandleAppendEntries at f.  A candidate of the request's term stays one.
HandleAppendEntries(f, l) ==
  /\ appendReq[l][f] # None
  /\ LET m      == appendReq[l][f]
         answer == AppendAnswer(f, currentTerm[f], m)
         es     == IF answer.success THEN m.entries ELSE <<>>
     IN  /\ IF m.term > currentTerm[f] THEN BecomeFollower(f, m.term)
                                       ELSE UNCHANGED <<hardState, role>>
         /\ log' = [log EXCEPT ![f] = AppendAll(@, m.prevLogIndex, es)]
         /\ wal' = [wal EXCEPT ![f] = WalAppendAll(@, m.prevLogIndex, es)]
         /\ commitIndex' = [commitIndex EXCEPT ![f] =
              IF answer.success /\ m.leaderCommit > @
              THEN Minimum(m.leaderCommit, Len(log'[f])) ELSE @]
         /\ appendResp' = [appendResp EXCEPT ![l] =
              IF rpc[l] # None /\ rpc[l].peer = f THEN answer ELSE @]
  /\ appendReq' = [appendReq EXCEPT ![l][f] = None]
  /\ UNCHANGED <<leaderVars, electVars, rpc, bounds>>


\* The commit index AdvanceCommitIndex stores, given the new matchIndex_ m.
AdvanceCommitIndex(l, m) ==
  LET Replicated(i) == {l} \cup {p \in Peers(l) : m[p] >= i}
      ready == {i \in commitIndex[l] + 1 .. Len(log[l]) :
                  log[l][i] = currentTerm[l] /\ IsQuorum(Replicated(i))}
  IN  IF ready = {} THEN commitIndex[l]
      ELSE CHOOSE i \in ready : \A j \in ready : j <= i

\* Faulty: the search resumes behind the conflict instead of at it.
BackUpBehind(lg, r) == r.conflictIndex + 1

\* The nextIndex_ a rejected AppendEntries leads to.
BackUp(lg, r) ==
  LET lastInTerm == LastIndexOfTerm(lg, r.conflictTerm)
  IN  CASE r.conflictTerm > 0 /\ lastInTerm > 0 -> lastInTerm + 1
        [] r.conflictTerm > 0 /\ lastInTerm = 0 -> r.conflictIndex
        [] r.conflictTerm = 0 -> Maximum(r.conflictIndex, 1)

\* ReplicateToPeer when its answer is there.
ReceiveAppendResponse(l) ==
  /\ appendResp[l] # None
  /\ LET r == appendResp[l]
         f == rpc[l].peer
         newMatch == Maximum(matchIndex[l][f], rpc[l].prevIndex + rpc[l].count)
     IN  \/ /\ r.term > currentTerm[l]
            /\ BecomeFollower(l, r.term)
            /\ UNCHANGED <<commitIndex, leaderVars>>
         \/ /\ r.term <= currentTerm[l]
            /\ role[l] # "Leader" \/ r.term # currentTerm[l]
            /\ UNCHANGED <<hardState, role, commitIndex, leaderVars>>
         \/ /\ role[l] = "Leader" /\ r.term = currentTerm[l] /\ r.success
            /\ matchIndex' = [matchIndex EXCEPT ![l][f] = newMatch]
            /\ nextIndex' = [nextIndex EXCEPT ![l][f] = newMatch + 1]
            /\ commitIndex' = [commitIndex EXCEPT ![l] =
                 AdvanceCommitIndex(l, matchIndex'[l])]
            /\ UNCHANGED <<hardState, role>>
         \/ /\ role[l] = "Leader" /\ r.term = currentTerm[l] /\ ~ r.success
            /\ nextIndex' = [nextIndex EXCEPT ![l][f] = BackUp(log[l], r)]
            /\ UNCHANGED <<hardState, role, commitIndex, matchIndex>>
  /\ rpc' = [rpc EXCEPT ![l] = None]
  /\ appendResp' = [appendResp EXCEPT ![l] = None]
  /\ UNCHANGED <<logVars, electVars, appendReq, bounds>>

\* ReplicateToPeer gives up: timeout, or the peer is not connected.
ReplicateTimeout(l) ==
  /\ rpc[l] # None /\ appendResp[l] = None
  /\ rpc' = [rpc EXCEPT ![l] = None]
  /\ UNCHANGED <<hardState, role, logVars, commitIndex, leaderVars, electVars,
                 appendReq, appendResp, bounds>>
-----------------------------------------------------------------------------
(***************************************************************************)
(* Death and restart of a process.  The bytes it wrote stay in the page    *)
(* cache, so the new process reads all of them.  A node that is down is    *)
(* one that takes no step between its death and its next action.           *)
(***************************************************************************)


\* How many of the entries w in the WAL the constructor leaves there: it writes
\* each of them to the WAL again.  If the process dies after k of these writes,
\* the record of entry k makes Recover drop the entries above k.
RecoveredLengths(w) ==
  {Len(w)} \cup {k \in 1 .. Len(w) : "recovery" \in CrashPoints}

\* The new process of n finds the entries w in the WAL.
Reboot(n, w) ==
  /\ restarts < MaxRestarts /\ restarts' = restarts + 1
  /\ \E k \in RecoveredLengths(w) :
       /\ log' = [log EXCEPT ![n] = SubSeq(w, 1, k)]
       /\ wal' = [wal EXCEPT ![n] = SubSeq(w, 1, k)]
  /\ role' = [role EXCEPT ![n] = "Follower"]
  /\ commitIndex' = [commitIndex EXCEPT ![n] = 0]
  /\ nextIndex' = [nextIndex EXCEPT ![n] = [p \in Node |-> 1]]
  /\ matchIndex' = [matchIndex EXCEPT ![n] = [p \in Node |-> 0]]
  /\ ReturnFromElection(n)
  /\ votes' = [votes EXCEPT ![n] = {}]
  /\ rpc' = [rpc EXCEPT ![n] = None]
  /\ appendResp' = [appendResp EXCEPT ![n] = None]

\* Faulty: the vote was not written.
RestartForget(n) ==
  /\ "idle" \in CrashPoints
  /\ Reboot(n, wal[n])
  /\ votedFor' = [votedFor EXCEPT ![n] = None]
  /\ UNCHANGED <<currentTerm, voteReq, appendReq, elections>>

\* The process dies outside the handlers.
Restart(n) ==
  /\ "idle" \in CrashPoints
  /\ Reboot(n, wal[n])
  /\ UNCHANGED <<hardState, voteReq, appendReq, elections>>

\* It dies in HandleRequestVote after BecomeFollower wrote the new term, before
\* the vote is written.
CrashInVote(v, c) ==
  /\ "vote" \in CrashPoints
  /\ voteReq[c][v] # None
  /\ voteReq[c][v].term > currentTerm[v]
  /\ currentTerm' = [currentTerm EXCEPT ![v] = voteReq[c][v].term]
  /\ votedFor' = [votedFor EXCEPT ![v] = None]
  /\ Reboot(v, wal[v])
  /\ voteReq' = [voteReq EXCEPT ![c][v] = None]
  /\ UNCHANGED <<appendReq, elections>>

\* It dies in AppendAll after j of the entries were written to the WAL.
CrashInAppend(f, l) ==
  /\ "append" \in CrashPoints
  /\ appendReq[l][f] # None
  /\ LET m == appendReq[l][f]
     IN  /\ AppendAnswer(f, currentTerm[f], m).success
         /\ currentTerm' = [currentTerm EXCEPT ![f] = m.term]
         /\ votedFor' = [votedFor EXCEPT ![f] = IF m.term > currentTerm[f] THEN None ELSE @]
         /\ \E j \in 0 .. Len(m.entries) - 1 :
              Reboot(f, WalAppendAll(wal[f], m.prevLogIndex, SubSeq(m.entries, 1, j)))
  /\ appendReq' = [appendReq EXCEPT ![l][f] = None]
  /\ UNCHANGED <<voteReq, elections>>
-----------------------------------------------------------------------------
Next ==
  \E n \in Node :
    \/ StartElection(n) \/ FinishElection(n)
    \/ Propose(n) \/ ReceiveAppendResponse(n) \/ ReplicateTimeout(n)
    \/ Restart(n)
    \/ \E p \in Peers(n) :
         \/ HandleRequestVote(n, p) \/ ReceiveVote(n, p)
         \/ ReplicateToPeer(n, p) \/ HandleAppendEntries(n, p)
         \/ CrashInVote(n, p) \/ CrashInAppend(n, p)

Spec == Init /\ [][Next]_vars
-----------------------------------------------------------------------------
(***************************************************************************)
(* Properties                                                              *)
(***************************************************************************)
Term == Nat
Log == Seq(Term)
Index == Nat

VoteRequest == [term : Term \ {0}, lastLogIndex : Index, lastLogTerm : Term]
VoteResponse == [term : Term, voteGranted : BOOLEAN]
AppendRequest == [term : Term, prevLogIndex : Index, prevLogTerm : Term,
                  entries : Log, leaderCommit : Index]
AppendResponse ==
  {r \in [term : Term, success : BOOLEAN, conflictIndex : Index, conflictTerm : Term] :
     r.conflictTerm > 0 => r.conflictIndex > 0}
PendingRpc == [peer : Node, prevIndex : Index, count : Index]

\* Every variable has its type.  nextIndex_ is never 0, so that the unsigned
\* prevIndex = next - 1 of ReplicateToPeer does not wrap around: with a
\* conflictTerm the follower always sends a conflictIndex above 0.
TypeOK ==
  /\ currentTerm \in [Node -> Term]
  /\ votedFor \in [Node -> Node \cup {None}]
  /\ role \in [Node -> {"Follower", "Candidate", "Leader"}]
  /\ log \in [Node -> Log] /\ wal \in [Node -> Log]
  /\ commitIndex \in [Node -> Index]
  /\ nextIndex \in [Node -> [Node -> Nat \ {0}]]
  /\ matchIndex \in [Node -> [Node -> Index]]
  /\ electing \in [Node -> Term]
  /\ votes \in [Node -> SUBSET Node]
  /\ rpc \in [Node -> PendingRpc \cup {None}]
  /\ voteReq \in [Node -> [Node -> VoteRequest \cup {None}]]
  /\ voteResp \in [Node -> [Node -> VoteResponse \cup {None}]]
  /\ appendReq \in [Node -> [Node -> AppendRequest \cup {None}]]
  /\ appendResp \in [Node -> AppendResponse \cup {None}]
  /\ elections \in Nat /\ restarts \in Nat

\* No two nodes are leaders of the same term: the votes a node persists
\* (PersistHardState) and the majority StartElection asks for exclude it, also
\* when voters die and answers arrive late.
ElectionSafety ==
  \A m, n \in Node :
    role[m] = "Leader" /\ role[n] = "Leader" /\ currentTerm[m] = currentTerm[n] => m = n

\* v's vote for c in term t is on its way to c or counted there.
VoteCast(v, c, t) ==
  \/ voteResp[c][v] # None /\ voteResp[c][v].voteGranted /\ electing[c] = t
  \/ v \in votes[c] /\ role[c] # "Follower" /\ currentTerm[c] = t

\* A vote on its way or counted is on the voter's disk, or the voter has left
\* the term: no restart and no late request lets it vote again in this term.
VoteIsPersisted ==
  \A v, c \in Node : \A t \in {electing[c], currentTerm[c]} :
    VoteCast(v, c, t) => \/ currentTerm[v] > t
                         \/ currentTerm[v] = t /\ votedFor[v] = c

\* Nobody has voted for two candidates of a term.
OneVotePerTerm ==
  \A v, c, d \in Node : \A t \in {electing[c], currentTerm[c]} :
    VoteCast(v, c, t) /\ VoteCast(v, d, t) => c = d

\* Votes are counted for the term the election was started in: the term that
\* StartElection keeps in a local over its waits is the node's, as long as the
\* node is a candidate, and a leader has counted a majority.
ElectionIsCurrent ==
  \A c \in Node :
    /\ electing[c] # 0 => role[c] # "Leader" /\ electing[c] <= currentTerm[c]
    /\ electing[c] # 0 /\ role[c] # "Follower" => electing[c] = currentTerm[c]
    /\ electing[c] = 0 => voteResp[c] = NoVotes
    /\ role[c] = "Leader" => IsQuorum(votes[c])

IsPrefixOf(s, t) == Len(s) <= Len(t) /\ \A i \in 1 .. Len(s) : s[i] = t[i]

Committed(n) == SubSeq(log[n], 1, commitIndex[n])

\* Two logs with the same term at an index agree up to this index: what the
\* prevLogIndex/prevLogTerm check and AppendAll maintain together.
LogMatching ==
  \A m, n \in Node : \A i \in 1 .. Minimum(Len(log[m]), Len(log[n])) :
    log[m][i] = log[n][i] => SubSeq(log[m], 1, i) = SubSeq(log[n], 1, i)

\* A leader has every entry that a node of its term or an earlier one counts as
\* committed: what IsLogUpToDate has to ensure.
LeaderCompleteness ==
  \A l, n \in Node :
    role[l] = "Leader" /\ currentTerm[l] >= currentTerm[n] => IsPrefixOf(Committed(n), log[l])

\* What any node counts as committed would be recovered from the write-ahead
\* logs of a majority, at every moment: it survives the death of any process.
CommittedIsDurable ==
  \A n \in Node :
    commitIndex[n] <= Len(log[n]) /\ IsQuorum({v \in Node : IsPrefixOf(Committed(n), wal[v])})

\* matchIndex_ is never more than the follower holds, although ReplicateToPeer
\* combines the answer with the prevIndex and the entry count it had before it
\* released mu_, and the roles, the terms and both logs may change meanwhile.
MatchIndexSound ==
  \A l, p \in Node :
    role[l] = "Leader" /\ p # l /\ currentTerm[p] = currentTerm[l]
      => IsPrefixOf(SubSeq(log[l], 1, matchIndex[l][p]), log[p])



\* A leader only appends to its log, although HandleAppendEntries does not
\* refuse a request of the leader's own term.
LeaderAppendOnly ==
  [][\A n \in Node : role[n] = "Leader" /\ role'[n] = "Leader"
       => IsPrefixOf(log[n], log'[n])]_vars
=============================================================================
