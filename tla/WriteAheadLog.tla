---------------------------- MODULE WriteAheadLog ----------------------------
(***************************************************************************)
(* The write-ahead log (src/storage/WriteAheadLog.cpp) of one node: what a *)
(* process writes to it, what is left when the process or the machine dies *)
(* and what the next process recovers.                                     *)
(*                                                                         *)
(* The caller is RaftNode: it writes entries without gaps and of terms up  *)
(* to the one in the hard state, takes snapshots of entries it has, and    *)
(* after a restart writes all recovered entries again.                     *)
(***************************************************************************)
EXTENDS WalRecords

CONSTANTS
  Voter,        \* values of votedFor_
  SnapshotTail, \* whether a snapshot is taken while entries above it exist
  MaxTerm,      \* bound: the highest term
  MaxIndex,     \* bound: the highest index of an entry
  MaxWrites     \* bound: calls of the three write operations, and restarts

ASSUME ConstantsAssumption ==
  /\ NoVoter \notin Voter /\ SnapshotTail \in BOOLEAN
  /\ MaxTerm \in Nat /\ MaxIndex \in Nat /\ MaxWrites \in Nat

VARIABLES
  segments, \* the files
  synced,   \* how many records of the open file fdatasync has reached
  held,     \* what the process has handed over: what Recover has to return
  writes    \* how many operations were called

vars == <<segments, synced, held, writes>>

LastIndex(r) == IF r.entries = <<>> THEN r.snapshotIndex ELSE Last(r.entries).index

Init ==
  /\ segments = << <<>> >> /\ synced = 0
  /\ held = Nothing /\ writes = 0

Count == writes < MaxWrites /\ writes' = writes + 1
-----------------------------------------------------------------------------

\* AppendLogEntry with its fdatasync; one that rotates syncs the old file too.
AppendLogEntry(e) ==
  /\ Count
  /\ segments' = AppendRecords(segments, <<e>>)
  /\ synced' = Len(Last(segments'))
  /\ held' = [held EXCEPT !.entries = Append(DropFrom(@, e.index), e)]

\* WriteHardState: neither fdatasync nor rotation.
WriteHardState(h) ==
  /\ Count
  /\ segments' = WriteRecord(segments, HardStateRecord(h))
  /\ held' = [held EXCEPT !.hardState = h]
  /\ UNCHANGED synced

\* WriteSnapshot of the state up to the entry e, its Sync and its new file.
WriteSnapshot(e) ==
  /\ Count
  /\ segments' = Append(WriteRecord(segments, SnapshotRecord(e.index, e.term)), <<>>)
  /\ synced' = 0
  /\ held' = [held EXCEPT !.snapshotIndex = e.index, !.snapshotTerm = e.term,
                          !.entries = SelectSeq(@, LAMBDA x : x.index > e.index)]
-----------------------------------------------------------------------------
(***************************************************************************)
(* Failures.  The next process opens the last file and appends to it.      *)
(***************************************************************************)

\* A process starts on the files segs, of whose last one s records are synced:
\* RaftNode recovers, and RaftLog::Append writes each recovered entry again.
Reopen(segs, s) ==
  /\ Count
  /\ held' = Recover(segs)
  /\ segments' = AppendRecords(segs, Recover(segs).entries)
  /\ synced' = IF Recover(segs).entries = <<>> THEN s ELSE Len(Last(segments'))

\* The process dies; what it wrote is in the page cache.
ProcessDies == Reopen(segments, synced)

\* write() stores a part of a record only: WriteRecord throws, nobody catches.
PartialWrite == Reopen(WriteRecord(segments, TornRecord), synced)

\* The files as the disk has them when k records of the open file are complete.
Survivors(k) == ReplaceAt(segments, Len(segments), SubSeq(Last(segments), 1, k))

\* The machine dies: any number of records that were not synced are lost.
PowerLoss == \E k \in synced .. Len(Last(segments)) : Reopen(Survivors(k), k)
-----------------------------------------------------------------------------
Entry == [index : 1 .. MaxIndex, term : 1 .. MaxTerm]
HardState == [term : 0 .. MaxTerm, votedFor : Voter \cup {NoVoter}]


\* RaftNode may write e: the entry after a prefix of its log, of no smaller
\* term than those before it.
MayAppend(e) ==
  /\ held.snapshotIndex < e.index /\ e.index <= LastIndex(held) + 1
  /\ held.snapshotTerm <= e.term /\ e.term <= held.hardState.term
  /\ \A x \in ToSet(held.entries) : x.index < e.index => x.term <= e.term

\* BecomeFollower and StartElection write a higher term, HandleRequestVote and
\* StartElection a vote.
MayPersist(h) ==
  \/ h.term > held.hardState.term
  \/ /\ h.term = held.hardState.term /\ h.votedFor \in Voter
     /\ held.hardState.votedFor \in {NoVoter, h.votedFor}

\* MaybeSnapshot: e is an entry the node has, the last one without a tail.
MaySnapshot(e) ==
  e \in ToSet(held.entries) /\ (e.index < LastIndex(held) => SnapshotTail)

Next ==
  \/ \E e \in Entry : MayAppend(e) /\ AppendLogEntry(e)
  \/ \E h \in HardState : MayPersist(h) /\ WriteHardState(h)
  \/ \E e \in Entry : MaySnapshot(e) /\ WriteSnapshot(e)
  \/ ProcessDies
  \/ PowerLoss

Spec == Init /\ [][Next]_vars

PartialWriteSpec == Init /\ [][Next \/ PartialWrite]_vars
-----------------------------------------------------------------------------
(***************************************************************************)
(* Properties                                                              *)
(***************************************************************************)

\* A process that dies now leaves files from which Recover returns exactly the
\* entries, the hard state and the snapshot the process had handed over:
\* through rotations, entries that are written again, and earlier restarts.
RecoverExact == Recover(segments) = held



\* If the machine dies now, the term and the vote that WriteHardState was given
\* last are recovered, whichever unsynced records are lost.
HardStateSurvivesPowerLoss ==
  \A k \in synced .. Len(Last(segments)) :
    Recover(Survivors(k)).hardState = held.hardState
=============================================================================
