---------------------------- MODULE LogOperators ----------------------------
(***************************************************************************)
(* What the operations of RaftLog (src/raft/RaftLog.cpp) and the scans of  *)
(* RaftNode over it compute, in closed form, for a log without a snapshot: *)
(* a log is the sequence of the terms of its entries.  RaftNode is built   *)
(* from these operators; RaftLog and WriteAheadLog check them against the  *)
(* loops of the code.                                                      *)
(***************************************************************************)
EXTENDS Integers, Sequences

Minimum(a, b) == IF a <= b THEN a ELSE b
Maximum(a, b) == IF a >= b THEN a ELSE b

GetTerm(lg, i) == IF i \in 1 .. Len(lg) THEN lg[i] ELSE 0

LastTerm(lg) == GetTerm(lg, Len(lg))

\* All of es is already in lg behind position prev.
HasAll(lg, prev, es) ==
  \A j \in 1 .. Len(es) : prev + j <= Len(lg) /\ lg[prev + j] = es[j]

\* Faulty: an entry at an occupied index is taken for the one that is there.
AppendAllKeep(lg, prev, es) ==
  IF prev + Len(es) <= Len(lg) THEN lg ELSE SubSeq(lg, 1, prev) \o es

\* AppendAll of es, whose indices start at prev + 1 <= LastIndex + 1: the
\* first conflicting entry truncates the log, present entries are kept.
AppendAll(lg, prev, es) ==
  IF HasAll(lg, prev, es) THEN lg ELSE SubSeq(lg, 1, prev) \o es


\* What the same call leaves to Recover.  Every entry of es is written to the
\* WAL, present or not, and a record of index i drops the entries from i on.
\* Behind a WAL that is shorter than the log, the entries close up to it.
WalAppendAll(w, prev, es) ==
  IF es = <<>> THEN w ELSE SubSeq(w, 1, Minimum(prev, Len(w))) \o es

\* Faulty: the loop goes one index too far.
ConflictIndexLow(lg, p) ==
  (CHOOSE i \in 1 .. p : /\ \A j \in i .. p : lg[j] = lg[p]
                         /\ i = 1 \/ lg[i - 1] # lg[p]) - 1

\* The first index of the run of equal terms that ends at p.
ConflictIndex(lg, p) ==
  CHOOSE i \in 1 .. p : /\ \A j \in i .. p : lg[j] = lg[p]
                        /\ i = 1 \/ lg[i - 1] # lg[p]

\* The last index of an entry of term t, 0 if there is none.
LastIndexOfTerm(lg, t) ==
  IF \E i \in 1 .. Len(lg) : lg[i] = t
  THEN CHOOSE i \in 1 .. Len(lg) : lg[i] = t /\ \A j \in i + 1 .. Len(lg) : lg[j] # t
  ELSE 0
=============================================================================
