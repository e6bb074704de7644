------------------------------ MODULE Proposals ------------------------------
(***************************************************************************)
(* The client side of one RaftNode while its process lives: the calls that *)
(* wait in Propose and the apply thread, on top of what NodeView promises. *)
(*                                                                         *)
(* An entry is its term.  The pair of its term and its index identifies a  *)
(* command: only the leader of the term creates such entries, and it never *)
(* changes one.  Deadlines may pass at any moment.                         *)
(***************************************************************************)
EXTENDS NodeView

CONSTANTS
  Client,   \* the threads of the HTTP server that call Propose
  Idle,     \* "the apply thread holds no entry"
  MaxTerm,  \* bound: the highest term
  MaxLog    \* bound: the longest log

ASSUME ProposalsAssumption ==
  /\ MaxTerm \in Nat /\ MaxLog \in Nat
  /\ Logs \subseteq Seq(1 .. MaxTerm)

VARIABLES
  lastApplied,  \* lastApplied_
  taken,        \* the entry the apply thread holds outside mu_, or Idle
  applied,      \* what ApplyEntry got, in order
  call,         \* call[c]: the state of c's Propose, with its index and term
  created       \* every <<term, index>> this node wrote as a leader

applyVars == <<lastApplied, taken, applied>>
vars == <<nodeVars, applyVars, call, created>>

NoCall == [state |-> "none", index |-> 0, term |-> 0, endTerm |-> 0]

Init ==
  /\ NodeInit
  /\ lastApplied = 0 /\ taken = Idle /\ applied = <<>>
  /\ call = [c \in Client |-> NoCall]
  /\ created = {}

WriteOwn == created' = created \cup {<<currentTerm, Len(log) + 1>>}
-----------------------------------------------------------------------------
(***************************************************************************)
(* The steps of the other threads                                          *)
(***************************************************************************)

\* Nobody was the leader of the term before: ElectionSafety.
Elected ==
  /\ BecomeLeader
  /\ currentTerm > 0 /\ \A w \in created : w[1] # currentTerm
  /\ \A i \in 1 .. Len(log) : log[i] # currentTerm
  /\ Len(log) < MaxLog
  /\ WriteOwn
  /\ UNCHANGED <<applyVars, call>>

Commit == AdvanceCommitIndex /\ UNCHANGED <<applyVars, call, created>>

\* Entries of a term this node led that come back from others are its own.
FollowOthers ==
  /\ currentTerm' \in currentTerm .. MaxTerm
  /\ Follow
  /\ \A i \in 1 .. Len(log') :
       /\ log'[i] <= currentTerm' /\ (i > 1 => log'[i - 1] <= log'[i])
       /\ (\E w \in created : w[1] = log'[i]) => <<log'[i], i>> \in created
  /\ UNCHANGED <<applyVars, call, created>>
-----------------------------------------------------------------------------
(***************************************************************************)
(* Propose                                                                 *)
(***************************************************************************)

\* Propose up to its wait.
Propose(c) ==
  /\ call[c].state = "none"
  /\ Len(log) < MaxLog
  /\ AppendCommand
  /\ WriteOwn
  /\ call' = [call EXCEPT ![c] =
       [state |-> "waiting", index |-> Len(log) + 1, term |-> currentTerm, endTerm |-> 0]]
  /\ UNCHANGED applyVars

Refuse(c) ==
  /\ call[c].state = "none" /\ ~ leader
  /\ call' = [call EXCEPT ![c].state = "error"]
  /\ UNCHANGED <<nodeVars, applyVars, created>>

Return(c, result) ==
  /\ call[c].state = "waiting"
  /\ call' = [call EXCEPT ![c].state = result, ![c].endTerm = currentTerm]
  /\ UNCHANGED <<nodeVars, applyVars, created>>

\* Faulty: Propose returns when the entry is in the log.
ReturnOkEarly(c) == leader /\ Return(c, "ok")

\* The wait of Propose ends with its predicate true, in a leader.
ReturnOk(c) == lastApplied >= call[c].index /\ leader /\ Return(c, "ok")

\* It ends without a leader, or at the deadline with the predicate false.
ReturnLost(c) == ~ leader /\ Return(c, "error")

ReturnTimeout(c) == lastApplied < call[c].index /\ leader /\ Return(c, "error")
-----------------------------------------------------------------------------
(***************************************************************************)
(* ApplyLoop                                                               *)
(***************************************************************************)

\* Faulty: the newest committed entry is taken.
TakeNewest ==
  /\ taken = Idle /\ lastApplied < commitIndex
  /\ taken' = log[commitIndex]
  /\ UNCHANGED <<nodeVars, lastApplied, applied, call, created>>

\* GetEntry(lastApplied_ + 1), under mu_, which is then released.
TakeEntry ==
  /\ taken = Idle /\ lastApplied < commitIndex
  /\ taken' = log[lastApplied + 1]
  /\ UNCHANGED <<nodeVars, lastApplied, applied, call, created>>

\* ApplyEntry without mu_.
ApplyEntry ==
  /\ taken # Idle /\ Len(applied) = lastApplied
  /\ applied' = Append(applied, taken)
  /\ UNCHANGED <<nodeVars, lastApplied, taken, call, created>>

\* mu_ is taken again, lastApplied_ stored.
EntryApplied ==
  /\ taken # Idle /\ Len(applied) = lastApplied + 1
  /\ lastApplied' = lastApplied + 1
  /\ taken' = Idle
  /\ UNCHANGED <<nodeVars, applied, call, created>>

Next ==
  \/ Elected \/ Commit \/ FollowOthers
  \/ TakeEntry \/ ApplyEntry \/ EntryApplied
  \/ \E c \in Client : \/ Propose(c) \/ Refuse(c) \/ ReturnOk(c)
                       \/ ReturnLost(c) \/ ReturnTimeout(c)

Spec == Init /\ [][Next]_vars
-----------------------------------------------------------------------------
(***************************************************************************)
(* Properties                                                              *)
(***************************************************************************)
Applied(c) == call[c].index <= Len(applied) /\ applied[call[c].index] = call[c].term

\* The state machine got exactly the committed log up to lastApplied_, each
\* entry once and in order, although ApplyLoop lets go of mu_ between reading
\* an entry and storing lastApplied_, while the log's tail is replaced.
AppliesTheCommittedLog ==
  /\ Len(applied) <= commitIndex
  /\ applied = SubSeq(log, 1, Len(applied))
  /\ Len(applied) \in {lastApplied, lastApplied + 1}

\* When Propose returns ok in the term it was called in, the command itself has
\* been applied: the node did not stop being the leader in between, so the
\* entry at the index is the one the call wrote.
AckedInItsTermIsApplied ==
  \A c \in Client :
    call[c].state = "ok" /\ call[c].endTerm = call[c].term => Applied(c)

\* When Propose returns ok, the command itself has been applied.
AckedIsApplied == \A c \in Client : call[c].state = "ok" => Applied(c)
=============================================================================
