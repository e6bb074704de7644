---------------------------- MODULE MCRaftRepair ----------------------------
(***************************************************************************)
(* Repair of diverged logs.  The runs start where three elections lead: a  *)
(* led term 1, replicated its no-op to all and wrote a second entry nobody *)
(* else got; c won term 2 with b's vote and wrote up to three entries that *)
(* nobody else has; a, deposed by c's request for a vote, won term 3 with  *)
(* b's vote and wrote its no-op.  c does not know yet.                     *)
(***************************************************************************)
EXTENDS RaftLiveness, TLC

CONSTANTS a, b, c

RepairInit ==
  /\ Node = {a, b, c}
  /\ currentTerm = (a :> 3 @@ b :> 3 @@ c :> 2)
  /\ votedFor = (a :> a @@ b :> a @@ c :> c)
  /\ role = (a :> "Leader" @@ b :> "Follower" @@ c :> "Leader")
  /\ \E logC \in {<<1, 2>>, <<1, 2, 2>>, <<1, 2, 2, 2>>} :
       log = (a :> <<1, 1, 3>> @@ b :> <<1>> @@ c :> logC)
  /\ wal = log
  /\ \E known \in 0 .. 1 : commitIndex = (a :> 1 @@ b :> known @@ c :> known)
  /\ nextIndex = [n \in Node |-> [p \in Node |-> CASE n = a -> 3 [] n = b -> 1 [] n = c -> 2]]
  /\ matchIndex = [n \in Node |-> [p \in Node |-> 0]]
  /\ electing = [n \in Node |-> 0]
  /\ votes = (a :> {a, b} @@ b :> {} @@ c :> {b, c})
  /\ rpc = [n \in Node |-> None]
  /\ voteReq = [n \in Node |-> NoVotes] /\ voteResp = [n \in Node |-> NoVotes]
  /\ appendReq = [n \in Node |-> [p \in Node |-> None]]
  /\ appendResp = [n \in Node |-> None]
  /\ elections = 3 /\ restarts = 0

\* Only the leader of the latest term has to be fair.
RepairSpec == RepairInit /\ [][Next]_vars /\ Fairness(a)
=============================================================================
