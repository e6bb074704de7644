------------------------------- MODULE RaftLog -------------------------------
(***************************************************************************)
(* RaftLog (src/raft/RaftLog.cpp) over the files of its WriteAheadLog, as  *)
(* RaftNode calls it: the vector entries_ with its sentinel, the unsigned  *)
(* offsets into it, and the loops that append and search.                  *)
(***************************************************************************)
EXTENDS WalRecords, LogOperators

CONSTANTS
  Word,              \* the number of values of an uint64_t
  SnapshotThreshold, \* config_.snapshotThreshold
  MaxTerm,           \* bound: the highest term
  MaxIndex,          \* bound: the highest index
  MaxRecords         \* bound: the number of records in the files

ASSUME WordAssumption == MaxIndex \in Nat /\ MaxTerm \in Nat /\ Word > 2 * MaxIndex

VARIABLES
  entries,       \* entries_, the sentinel at position 1
  snapshotIndex, \* snapshotIndex_
  snapshotTerm,  \* snapshotTerm_
  segments       \* the files of the WAL

vars == <<entries, snapshotIndex, snapshotTerm, segments>>

LogEntry(i, t) == [index |-> i, term |-> t]

\* The unsigned difference: an index below the snapshot is far out of range.
Offset(i) == (i - snapshotIndex) % Word

Present(i) == Offset(i) < Len(entries)

GetEntry(i) == entries[Offset(i) + 1]

LastIndexOf(es) == es[Len(es)].index

LastTermOf(es) == es[Len(es)].term

\* RaftLog::GetTerm
TermAt(i) ==
  IF i = snapshotIndex THEN snapshotTerm
  ELSE IF Present(i) THEN GetEntry(i).term ELSE 0

Init ==
  /\ entries = <<LogEntry(0, 0)>> /\ snapshotIndex = 0 /\ snapshotTerm = 0
  /\ segments = << <<>> >>

\* The terms of the entries behind the sentinel, and of those on disk.
Terms == [k \in 1 .. Len(entries) - 1 |-> entries[k + 1].term]
WalTerms ==
  LET es == Recover(segments).entries IN [k \in 1 .. Len(es) |-> es[k].term]

\* Bound: nothing more happens to a log once the one on disk differs from it,
\* and the files have room for n records.
Continues(n) == WalTerms = Terms /\ Len(FlattenSeq(segments)) + n <= MaxRecords
-----------------------------------------------------------------------------
\* Append, called by Propose and BecomeLeader for the next index.
AppendEntry(t) ==
  LET e == LogEntry(LastIndexOf(entries) + 1, t)
  IN  /\ Continues(1) /\ e.index <= MaxIndex /\ t >= LastTermOf(entries)
      /\ entries' = Append(entries, e)
      /\ segments' = AppendRecords(segments, <<e>>)
      /\ UNCHANGED <<snapshotIndex, snapshotTerm>>

\* Faulty: the conflicting entry is replaced, those behind it are kept.
PlaceOver(es, e) ==
  LET off == Offset(e.index)
  IN  IF off < Len(es) THEN ReplaceAt(es, off + 1, e) ELSE Append(es, e)

\* Faulty: the truncation leaves the conflicting entry itself.
PlaceBehind(es, e) ==
  LET off == Offset(e.index)
  IN  IF off >= Len(es) THEN Append(es, e)
      ELSE IF es[off + 1].term # e.term THEN Append(SubSeq(es, 1, off + 1), e)
      ELSE es

\* One round of the loop of AppendAll, which has made entries_ es.
Place(es, e) ==
  LET off == Offset(e.index)
  IN  IF off >= Len(es) THEN Append(es, e)
      ELSE IF es[off + 1].term # e.term THEN Append(SubSeq(es, 1, off), e)
      ELSE es

\* AppendAll, called by HandleAppendEntries for the terms ts behind an entry
\* prev that the log has.
AppendBatch(prev, ts) ==
  LET new == [k \in 1 .. Len(ts) |-> LogEntry(prev + k, ts[k])]
  IN  /\ Continues(Len(ts))
      /\ TermAt(prev) <= ts[1] /\ \A k \in 2 .. Len(ts) : ts[k - 1] <= ts[k]
      /\ entries' = FoldLeft(Place, entries, new)
      /\ segments' = AppendRecords(segments, new)
      /\ UNCHANGED <<snapshotIndex, snapshotTerm>>

\* The process dies: the constructor of RaftNode fills a new RaftLog with what
\* Recover returns (without a snapshot), by Append.
Restart ==
  LET es == Recover(segments).entries
  IN  /\ Continues(Len(es)) /\ snapshotIndex = 0
      /\ entries' = <<LogEntry(0, 0)>> \o es
      /\ segments' = AppendRecords(segments, es)
      /\ UNCHANGED <<snapshotIndex, snapshotTerm>>

\* MaybeSnapshot with i = lastApplied_: WriteSnapshot, then SetSnapshot.
MaybeSnapshot(i) ==
  LET t == TermAt(i)
  IN  /\ Continues(1) /\ Len(entries) - 1 > SnapshotThreshold
      /\ segments' = Append(WriteRecord(segments, SnapshotRecord(i, t)), <<>>)
      /\ entries' = <<LogEntry(i, t)>> \o
                    (IF Present(i) THEN SubSeq(entries, Offset(i) + 1, Len(entries)) ELSE <<>>)
      /\ snapshotIndex' = i /\ snapshotTerm' = t
-----------------------------------------------------------------------------
Batches(n) == UNION {[1 .. k -> 1 .. MaxTerm] : k \in 1 .. n}

Next ==
  \/ \E t \in 1 .. MaxTerm : AppendEntry(t)
  \/ \E prev \in snapshotIndex .. LastIndexOf(entries) :
       \E ts \in Batches(MaxIndex - prev) : AppendBatch(prev, ts)
  \/ Restart

Spec == Init /\ [][Next]_vars

SnapshotSpec ==
  Init /\ [][Next \/ \E i \in snapshotIndex + 1 .. LastIndexOf(entries) : MaybeSnapshot(i)]_vars
-----------------------------------------------------------------------------
(***************************************************************************)
(* The searches of RaftNode through the log                                *)
(***************************************************************************)

\* Faulty: one step only.
FirstOfRunIf(ci, t) == IF ci > snapshotIndex /\ TermAt(ci - 1) = t THEN ci - 1 ELSE ci

\* The while loop of HandleAppendEntries, from ci on.
RECURSIVE FirstOfRun(_, _)
FirstOfRun(ci, t) ==
  IF ci > snapshotIndex /\ TermAt(ci - 1) = t THEN FirstOfRun(ci - 1, t) ELSE ci

\* The for loop of ReplicateToPeer, from i on.
RECURSIVE LastInTerm(_, _)
LastInTerm(i, t) ==
  IF i <= snapshotIndex THEN 0
  ELSE IF TermAt(i) = t THEN i ELSE LastInTerm(i - 1, t)
-----------------------------------------------------------------------------
(***************************************************************************)
(* Properties                                                              *)
(***************************************************************************)
Abstract == INSTANCE ReplicatedLog WITH log <- Terms, wal <- WalTerms

\* RaftLog's loops over its vector, and Recover over the records they leave in
\* the files, are the closed forms that RaftNode is built from.
ImplementsReplicatedLog == Abstract!Spec

\* GetEntry(i) returns the entry of index i, for every index the log has, and
\* Offset reaches nothing else: truncations and restarts keep index and
\* position together.
IndexedByOffset ==
  /\ LastIndexOf(entries) = snapshotIndex + Len(entries) - 1
  /\ \A i \in 0 .. MaxIndex : Present(i) => GetEntry(i).index = i

\* The two searches that back up nextIndex_ find what ConflictIndex and
\* LastIndexOfTerm define: the first entry of the run of equal terms, and the
\* last entry of the term, or 0.
SearchesExact ==
  /\ \A p \in 1 .. LastIndexOf(entries) : FirstOfRun(p, TermAt(p)) = ConflictIndex(Terms, p)
  /\ \A t \in 1 .. MaxTerm + 1 :
       LastInTerm(LastIndexOf(entries), t) = LastIndexOfTerm(Terms, t)
=============================================================================
