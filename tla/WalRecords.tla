----------------------------- MODULE WalRecords -----------------------------
(***************************************************************************)
(* The files of a write-ahead log (src/storage/WriteAheadLog.cpp) as       *)
(* values: what a write adds to them and what Recover reads from them.     *)
(*                                                                         *)
(* A file is a sequence of records, and the WAL the sequence of its files, *)
(* wal-0.log, wal-1.log, ..., of which the last is open.  A record is what *)
(* its frame holds, and has size 1; one that was not written in full is    *)
(* TornRecord.  An entry is its index and term.                            *)
(***************************************************************************)
EXTENDS Integers, Sequences, SequencesExt

CONSTANTS
  NoVoter,     \* the empty votedFor
  SegmentSize  \* maxSegmentBytes_, in records

ASSUME SegmentAssumption == SegmentSize \in Nat \ {0}

EntryRecord(e) == [type |-> "LogEntry", entry |-> e]
HardStateRecord(h) == [type |-> "HardState", hardState |-> h]
SnapshotRecord(i, t) == [type |-> "Snapshot", index |-> i, term |-> t]
TornRecord == [type |-> "torn"]

\* The RecoveryResult of empty files; snapshotIndex 0 is no latestSnapshot.
Nothing == [entries |-> <<>>, hardState |-> [term |-> 0, votedFor |-> NoVoter],
            snapshotIndex |-> 0, snapshotTerm |-> 0]
-----------------------------------------------------------------------------
\* es without the entries at its end whose index is i or above.
DropFrom(es, i) ==
  LET below == {0} \cup {k \in 1 .. Len(es) : es[k].index < i}
  IN  SubSeq(es, 1, CHOOSE k \in below : \A j \in below : j <= k)

\* Faulty: an entry that is written again is recovered twice.
ReadRecordTwice(r, rec) ==
  CASE rec.type = "LogEntry"  -> [r EXCEPT !.entries = Append(@, rec.entry)]
    [] rec.type = "HardState" -> [r EXCEPT !.hardState = rec.hardState]
    [] rec.type = "Snapshot"  -> [r EXCEPT !.snapshotIndex = rec.index,
                                           !.snapshotTerm = rec.term, !.entries = <<>>]

\* What one record does to the result r.
ReadRecord(r, rec) ==
  CASE rec.type = "LogEntry"  ->
         [r EXCEPT !.entries = Append(DropFrom(@, rec.entry.index), rec.entry)]
    [] rec.type = "HardState" -> [r EXCEPT !.hardState = rec.hardState]
    [] rec.type = "Snapshot"  -> [r EXCEPT !.snapshotIndex = rec.index,
                                           !.snapshotTerm = rec.term, !.entries = <<>>]

\* Reading a file stops at a record whose frame or CRC is wrong.
Readable(seg) ==
  LET whole == {k \in 0 .. Len(seg) : \A j \in 1 .. k : seg[j] # TornRecord}
  IN  SubSeq(seg, 1, CHOOSE k \in whole : \A j \in whole : j <= k)

Recover(segs) ==
  FoldLeft(ReadRecord, Nothing, FlattenSeq([s \in DOMAIN segs |-> Readable(segs[s])]))
-----------------------------------------------------------------------------
\* WriteRecord: the record is added to the open file.
WriteRecord(segs, rec) == [segs EXCEPT ![Len(segs)] = Append(@, rec)]

\* MaybeRotate: a new file once the open one is full.
MaybeRotate(segs) == IF Len(Last(segs)) >= SegmentSize THEN Append(segs, <<>>) ELSE segs

\* One AppendLogEntry after the other.
AppendRecords(segs, es) ==
  FoldLeft(LAMBDA s, e : MaybeRotate(WriteRecord(s, EntryRecord(e))), segs, es)
=============================================================================
