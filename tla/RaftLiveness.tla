---------------------------- MODULE RaftLiveness ----------------------------
(***************************************************************************)
(* What the threads of RaftNode eventually bring about.                    *)
(***************************************************************************)
EXTENDS RaftNode

\* A request handled while its caller still waits for it.
AnswerInTime(f, l) ==
  /\ rpc[l] # None /\ rpc[l].peer = f
  /\ HandleAppendEntries(f, l)

(***************************************************************************)
(* The threads of n: StartElection returns, ReplicateToPeer returns, and   *)
(* ReplicationLoop comes back to every peer after the RPCs to the others,  *)
(* which is why its fairness is strong.  The network may delay any number  *)
(* of requests over rpcTimeout, but always answers one in time again.      *)
(***************************************************************************)
Fairness(n) ==
  /\ WF_vars(FinishElection(n))
  /\ WF_vars(ReceiveAppendResponse(n) \/ ReplicateTimeout(n))
  /\ \A p \in Peers(n) :
       SF_vars(ReplicateToPeer(n, p)) /\ SF_vars(AnswerInTime(p, n))

LiveSpec == Spec /\ \A n \in Node : Fairness(n)


\* Under a leader that stays, every node ends up with the leader's log and
\* commit index: the conflict hints of HandleAppendEntries and the way
\* ReplicateToPeer uses them always lead nextIndex_ to a matching entry.
Converges ==
  \A l \in Node :
    <>[](role[l] = "Leader")
      => <>[](\A f \in Node : log[f] = log[l] /\ commitIndex[f] = Len(log[l]))
=============================================================================
