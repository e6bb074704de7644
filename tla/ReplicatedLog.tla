---------------------------- MODULE ReplicatedLog ----------------------------
(***************************************************************************)
(* What RaftNode takes RaftLog and the WriteAheadLog below it for: one log *)
(* in memory and one on disk, changed by the closed forms of LogOperators. *)
(***************************************************************************)
EXTENDS LogOperators

CONSTANTS
  MaxTerm,  \* bound: the highest term
  MaxIndex  \* bound: the highest index

VARIABLES
  log, \* the terms of the entries in memory
  wal  \* the terms of the entries that Recover would return

vars == <<log, wal>>

Init == log = <<>> /\ wal = <<>>

\* All sequences of 1 to n terms.
Batches(n) == UNION {[1 .. k -> 1 .. MaxTerm] : k \in 1 .. n}

\* The entries es arrive for the indices from prev + 1 on.
Write(prev, es) ==
  /\ log' = AppendAll(log, prev, es)
  /\ wal' = WalAppendAll(wal, prev, es)

\* The process dies and its successor reads the log from disk.
Recovery == log' = wal /\ UNCHANGED wal

Next ==
  \/ \E prev \in 0 .. Len(log) : \E es \in Batches(MaxIndex - prev) : Write(prev, es)
  \/ Recovery

Spec == Init /\ [][Next]_vars
=============================================================================
