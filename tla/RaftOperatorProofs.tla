------------------------- MODULE RaftOperatorProofs -------------------------
(***************************************************************************)
(* What the operators of LogOperators and RaftNode return.                 *)
(***************************************************************************)
EXTENDS RaftNode, SequenceTheorems, WellFoundedInduction, TLAPS

\* A non-empty set of natural numbers has a least element; the loops of the
\* code that scan a log for an index stop there.
LEMMA NatMin ==
  ASSUME NEW S \in SUBSET Nat, S # {}
  PROVE  \E m \in S : \A k \in S : m <= k
<1>1. PICK m \in S : \A k \in S : ~ (<<k, m>> \in OpToRel(<, Nat))
  BY NatLessThanWellFounded, WFMin
<1>2. \A k \in S : ~ (k < m)
  BY <1>1 DEF OpToRel
<1> QED
  BY <1>2

\* A bounded one has a greatest element.
LEMMA NatMax ==
  ASSUME NEW S \in SUBSET Nat, S # {}, NEW n \in Nat, \A k \in S : k <= n
  PROVE  \E m \in S : \A k \in S : k <= m
<1> DEFINE T == {n - k : k \in S}
<1>1. T \in SUBSET Nat /\ T # {}
  <2>1. \A k \in S : k \in Nat /\ k <= n
    OBVIOUS
  <2>2. \A k \in S : n - k \in Nat
    BY <2>1
  <2> QED
    BY <2>2, Zenon
<1>2. PICK j \in T : \A k \in T : j <= k
  BY <1>1, NatMin
<1>3. PICK m \in S : j = n - m
  BY <1>2
<1>4. \A k \in S : n - m <= n - k
  BY <1>2, <1>3
<1> QED
  BY <1>4

\* Minimum and Maximum choose one of their arguments.
LEMMA MinMaxType ==
  ASSUME NEW a \in Nat, NEW b \in Nat
  PROVE  /\ Minimum(a, b) \in Nat /\ Minimum(a, b) <= a /\ Minimum(a, b) <= b
         /\ Maximum(a, b) \in Nat /\ Maximum(a, b) >= a /\ Maximum(a, b) >= b
BY DEF Minimum, Maximum

\* GetTerm and LastTerm return terms.
LEMMA GetTermType ==
  ASSUME NEW lg \in Log
  PROVE  LastTerm(lg) \in Term /\ \A i : GetTerm(lg, i) \in Term
BY DEF GetTerm, LastTerm, Log, Term

\* LastIndex is a natural number.
LEMMA LengthType ==
  ASSUME NEW lg \in Log
  PROVE  Len(lg) \in Nat
BY DEF Log

\* A prefix of a log is a log.
LEMMA PrefixType ==
  ASSUME NEW lg \in Log, NEW k \in Nat, k <= Len(lg)
  PROVE  SubSeq(lg, 1, k) \in Log
<1>1. \A i \in 1 .. k : lg[i] \in Term
  BY DEF Log, Term
<1> QED
  BY <1>1, SubSeqProperties DEF Log

\* AppendAll and what it leaves in the WAL are logs.
LEMMA AppendAllType ==
  ASSUME NEW lg \in Log, NEW w \in Log, NEW es \in Log, NEW prev \in Nat,
         prev <= Len(lg) \/ es = <<>>
  PROVE  AppendAll(lg, prev, es) \in Log /\ WalAppendAll(w, prev, es) \in Log
<1>1. AppendAll(lg, prev, es) \in Log
  <2>1. CASE es = <<>>
    BY <2>1 DEF AppendAll, HasAll
  <2>2. CASE prev <= Len(lg)
    <3>1. SubSeq(lg, 1, prev) \o es \in Log
      BY <2>2, PrefixType, ConcatProperties DEF Log
    <3> QED
      BY <3>1 DEF AppendAll
  <2> QED
    BY <2>1, <2>2
<1>2. WalAppendAll(w, prev, es) \in Log
  <2>1. Len(w) \in Nat
    BY DEF Log
  <2>2. Minimum(prev, Len(w)) \in Nat /\ Minimum(prev, Len(w)) <= Len(w)
    BY <2>1, MinMaxType
  <2>3. SubSeq(w, 1, Minimum(prev, Len(w))) \o es \in Log
    BY <2>2, PrefixType, ConcatProperties DEF Log
  <2> QED
    BY <2>3 DEF WalAppendAll
<1> QED
  BY <1>1, <1>2

\* The while loop of HandleAppendEntries stops at an index of the log.
LEMMA ConflictIndexType ==
  ASSUME NEW lg \in Log, NEW p \in 1 .. Len(lg)
  PROVE  ConflictIndex(lg, p) \in 1 .. p
<1> DEFINE S == {i \in 1 .. p : \A j \in i .. p : lg[j] = lg[p]}
<1>0. Len(lg) \in Nat /\ p \in Nat
  BY DEF Log
<1>1. S \in SUBSET Nat /\ p \in S
  BY <1>0
<1>2. PICK m \in S : \A k \in S : m <= k
  BY <1>1, NatMin
<1>3. m \in 1 .. p /\ \A j \in m .. p : lg[j] = lg[p]
  BY <1>2
<1>4. ASSUME m # 1, lg[m - 1] = lg[p]  PROVE FALSE
  <2>1. m - 1 \in S
    BY <1>0, <1>3, <1>4
  <2> QED
    BY <1>0, <1>2, <1>3, <2>1
<1> DEFINE Start(i) == /\ \A j \in i .. p : lg[j] = lg[p]
                       /\ i = 1 \/ lg[i - 1] # lg[p]
<1>5. \E i \in 1 .. p : Start(i)
  BY <1>3, <1>4
<1>6. ConflictIndex(lg, p) = CHOOSE i \in 1 .. p : Start(i)
  BY DEF ConflictIndex
<1> HIDE DEF Start
<1>7. (CHOOSE i \in 1 .. p : Start(i)) \in 1 .. p
  BY <1>5, Zenon
<1> QED
  BY <1>0, <1>6, <1>7

\* The scan of ReplicateToPeer for the last entry of a term ends at an index.
LEMMA LastIndexOfTermType ==
  ASSUME NEW lg \in Log, NEW t
  PROVE  LastIndexOfTerm(lg, t) \in Nat
<1> DEFINE S == {i \in 1 .. Len(lg) : lg[i] = t}
<1>0. Len(lg) \in Nat
  BY DEF Log
<1>1. CASE S = {}
  BY <1>1 DEF LastIndexOfTerm
<1>2. CASE S # {}
  <2>1. S \in SUBSET Nat /\ \A k \in S : k <= Len(lg)
    OBVIOUS
  <2>2. PICK m \in S : \A k \in S : k <= m
    BY <1>0, <1>2, <2>1, NatMax
  <2>3. \A j \in m + 1 .. Len(lg) : lg[j] # t
    BY <1>0, <2>2
  <2>4. \E i \in 1 .. Len(lg) : lg[i] = t /\ \A j \in i + 1 .. Len(lg) : lg[j] # t
    BY <2>2, <2>3
  <2>5. LastIndexOfTerm(lg, t) \in 1 .. Len(lg)
    BY <2>4, Zenon DEF LastIndexOfTerm
  <2> QED
    BY <1>0, <2>5
<1> QED
  BY <1>1, <1>2

\* The new nextIndex_ after a rejection is an index, and not 0.
LEMMA BackUpType ==
  ASSUME NEW lg \in Log, NEW r \in AppendResponse
  PROVE  BackUp(lg, r) \in Nat \ {0}
<1>1. /\ r.conflictIndex \in Nat /\ r.conflictTerm \in Nat
      /\ r.conflictTerm > 0 => r.conflictIndex > 0
  BY DEF AppendResponse, Index, Term
<1>2. LastIndexOfTerm(lg, r.conflictTerm) \in Nat
  BY LastIndexOfTermType
<1> QED
  BY <1>1, <1>2 DEF BackUp, Maximum

\* AdvanceCommitIndex stores an index.
LEMMA AdvanceCommitIndexType ==
  ASSUME NEW l \in Node, commitIndex[l] \in Nat, log[l] \in Log, NEW m
  PROVE  AdvanceCommitIndex(l, m) \in Nat
<1> DEFINE Replicated(i) == {l} \cup {p \in Peers(l) : m[p] >= i}
           ready == {i \in commitIndex[l] + 1 .. Len(log[l]) :
                       log[l][i] = currentTerm[l] /\ IsQuorum(Replicated(i))}
<1>0. Len(log[l]) \in Nat
  BY DEF Log
<1>1. CASE ready = {}
  BY <1>1 DEF AdvanceCommitIndex
<1>2. CASE ready # {}
  <2>1. ready \in SUBSET Nat /\ \A k \in ready : k <= Len(log[l])
    OBVIOUS
  <2> HIDE DEF ready
  <2>2. \E i \in ready : \A j \in ready : j <= i
    BY <1>0, <1>2, <2>1, NatMax
  <2>3. (CHOOSE i \in ready : \A j \in ready : j <= i) \in ready
    BY <2>2, Zenon
  <2>4. AdvanceCommitIndex(l, m) = CHOOSE i \in ready : \A j \in ready : j <= i
    BY <1>2, Zenon DEF AdvanceCommitIndex, ready
  <2> QED
    BY <2>1, <2>3, <2>4
<1> QED
  BY <1>1, <1>2

\* The entries ReplicateToPeer sends are a log.
LEMMA BatchType ==
  ASSUME NEW lg \in Log, NEW prev \in Nat
  PROVE  SubSeq(lg, prev + 1, Minimum(Len(lg), prev + MaxBatch)) \in Log
<1> DEFINE last == Minimum(Len(lg), prev + MaxBatch)
<1>1. last \in Nat /\ last <= Len(lg)
  <2>1. Len(lg) \in Nat /\ prev + MaxBatch \in Nat
    BY BoundAssumption DEF Log
  <2> QED
    BY <2>1 DEF Minimum
<1>2. \A i \in prev + 1 .. last : lg[i] \in Term
  BY <1>1 DEF Log, Term
<1> HIDE DEF last
<1>3. SubSeq(lg, prev + 1, last) \in Seq(Term)
  BY <1>1, <1>2, SubSeqProperties
<1> QED
  BY <1>3 DEF last, Log

\* HandleAppendEntries answers with a response, and accepts only a request
\* whose entries start no more than one position behind the log.
LEMMA AppendAnswerType ==
  ASSUME NEW f \in Node, NEW t \in Term, NEW m \in AppendRequest, log[f] \in Log
  PROVE  /\ AppendAnswer(f, t, m) \in AppendResponse
         /\ AppendAnswer(f, t, m).success => m.prevLogIndex <= Len(log[f])
         /\ AppendAnswer(f, t, m).success => m.term >= t
<1>1. Len(log[f]) \in Nat /\ m.prevLogIndex \in Nat /\ m.term \in Nat /\ t \in Nat
  BY DEF Log, AppendRequest, Index, Term
<1>2. m.prevLogIndex \in 1 .. Len(log[f]) =>
        /\ ConflictIndex(log[f], m.prevLogIndex) \in Nat \ {0}
        /\ log[f][m.prevLogIndex] \in Nat
  BY ConflictIndexType DEF Log, Term
<1> QED
  BY <1>1, <1>2 DEF AppendAnswer, AppendResponse, Index, Term
-----------------------------------------------------------------------------
(***************************************************************************)
(* Type correctness                                                        *)
(***************************************************************************)

\* TypeOK is inductive together with: an answer is there only for a caller
\* that waits, whose locals ReceiveAppendResponse reads.
TypeInv ==
  /\ TypeOK
  /\ \A l \in Node : appendResp[l] # None => rpc[l] # None

\* The variables have their types in a process that died and came back with a
\* part of the entries w.
LEMMA RebootType ==
  ASSUME TypeInv, NEW n \in Node, NEW w \in Log, Reboot(n, w)
  PROVE  /\ log' \in [Node -> Log] /\ wal' \in [Node -> Log]
         /\ role' \in [Node -> {"Follower", "Candidate", "Leader"}]
         /\ commitIndex' \in [Node -> Index]
         /\ nextIndex' \in [Node -> [Node -> Nat \ {0}]]
         /\ matchIndex' \in [Node -> [Node -> Index]]
         /\ electing' \in [Node -> Term] /\ votes' \in [Node -> SUBSET Node]
         /\ voteResp' \in [Node -> [Node -> VoteResponse \cup {None}]]
         /\ rpc' \in [Node -> PendingRpc \cup {None}]
         /\ appendResp' \in [Node -> AppendResponse \cup {None}]
         /\ restarts' \in Nat
         /\ \A l \in Node : appendResp'[l] # None => rpc'[l] # None
<1>1. PICK k \in RecoveredLengths(w) :
        /\ log' = [log EXCEPT ![n] = SubSeq(w, 1, k)]
        /\ wal' = [wal EXCEPT ![n] = SubSeq(w, 1, k)]
  BY DEF Reboot
<1>2. k \in Nat /\ k <= Len(w)
  BY DEF RecoveredLengths, Log
<1>3. SubSeq(w, 1, k) \in Log
  BY <1>2, PrefixType
<1>4. log' \in [Node -> Log] /\ wal' \in [Node -> Log]
  BY <1>1, <1>3 DEF TypeInv, TypeOK
<1>5. voteResp' \in [Node -> [Node -> VoteResponse \cup {None}]]
  BY DEF Reboot, ReturnFromElection, NoVotes, TypeInv, TypeOK
<1> QED
  BY <1>4, <1>5 DEF Reboot, ReturnFromElection, TypeInv, TypeOK, Term, Index

=============================================================================
