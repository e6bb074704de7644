------------------------------- MODULE KVStore -------------------------------
(***************************************************************************)
(* The operations of KVStore (src/storage/KVStore.cpp) on data_, each of   *)
(* which runs under mu_.  A store maps every key to its KVEntry or to      *)
(* Absent.  A key is a sequence of characters, given by numbers that are   *)
(* ordered as the characters are.  Time is counted in ticks of the clock.  *)
(* createdAt and updatedAt, which nothing reads, are left out.             *)
(***************************************************************************)
EXTENDS Integers, Sequences, SequencesExt, FiniteSets

CONSTANTS
  Key,         \* the keys of data_
  Absent,      \* "no entry"
  Never,       \* an empty expiresAt
  TicksPerMs   \* ticks of the system clock in a millisecond

ASSUME KVAssumption ==
  /\ Key \subseteq Seq(Nat) /\ IsFiniteSet(Key)
  /\ TicksPerMs \in Nat \ {0}

EmptyStore == [k \in Key |-> Absent]

\* Whether the entry e has passed its TTL.
Expired(e, now) == e.expiresAt # Never /\ e.expiresAt < now

\* Get returns an entry for k.
Visible(d, k, now) == d[k] # Absent /\ ~ Expired(d[k], now)

\* Faulty: an expired entry is taken for a missing one.
PutFresh(d, k, v, raftIndex, ttl, now) ==
  [d EXCEPT ![k] =
     [value |-> v, raftIndex |-> raftIndex,
      version |-> IF Visible(d, k, now) THEN d[k].version + 1 ELSE 1,
      expiresAt |-> IF ttl = Never THEN Never ELSE now + ttl * TicksPerMs]]

\* Faulty: a put without a TTL keeps the deadline of the value before it.
PutLikeBefore(d, k, v, raftIndex, ttl, now) ==
  [d EXCEPT ![k] =
     [value |-> v, raftIndex |-> raftIndex,
      version |-> IF d[k] # Absent THEN d[k].version + 1 ELSE 1,
      expiresAt |-> IF ttl # Never THEN now + ttl * TicksPerMs
                    ELSE IF d[k] # Absent THEN d[k].expiresAt ELSE Never]]

Put(d, k, v, raftIndex, ttl, now) ==
  [d EXCEPT ![k] =
     [value |-> v, raftIndex |-> raftIndex,
      version |-> IF d[k] # Absent THEN d[k].version + 1 ELSE 1,
      expiresAt |-> IF ttl = Never THEN Never ELSE now + ttl * TicksPerMs]]

Delete(d, k) == [d EXCEPT ![k] = Absent]

CASSucceeds(d, k, expected) == d[k] # Absent /\ d[k].value = expected

CAS(d, k, expected, new, raftIndex) ==
  IF CASSucceeds(d, k, expected)
  THEN [d EXCEPT ![k].value = new, ![k].version = @ + 1, ![k].raftIndex = raftIndex]
  ELSE d
-----------------------------------------------------------------------------
\* operator< of std::string.
Less(s, t) ==
  \/ IsStrictPrefix(s, t)
  \/ \E i \in 1 .. Len(s) : /\ i <= Len(t) /\ s[i] < t[i]
                            /\ SubSeq(s, 1, i - 1) = SubSeq(t, 1, i - 1)

\* Faulty: the search starts behind the key that is the prefix itself.
LowerBoundBehind(d, prefix) ==
  SetToSortSeq({k \in Key : d[k] # Absent /\ Less(prefix, k)}, Less)

\* The keys of data_ from lower_bound(prefix) on, in the order of the map.
LowerBound(d, prefix) ==
  SetToSortSeq({k \in Key : d[k] # Absent /\ ~ Less(k, prefix)}, Less)

\* The keys Scan returns: up to the first key without the prefix, and up to
\* the limit, which is tested after a key was added.
Scan(d, prefix, limit, now) ==
  LET ks   == LowerBound(d, prefix)
      run  == {i \in 1 .. Len(ks) : \A j \in 1 .. i : IsPrefix(prefix, ks[j])}
      live == SelectSeq(SubSeq(ks, 1, Cardinality(run)), LAMBDA k : ~ Expired(d[k], now))
      most == IF limit = 0 THEN 1 ELSE limit
  IN  IF limit = Never \/ Len(live) <= most THEN live ELSE SubSeq(live, 1, most)
-----------------------------------------------------------------------------
\* TakeSnapshot: expired entries are left out, and a deadline is written in
\* whole milliseconds.
TakeSnapshot(d, now) ==
  [k \in Key |->
     IF ~ Visible(d, k, now) THEN Absent
     ELSE [d[k] EXCEPT !.expiresAt = IF @ = Never THEN -1 ELSE @ \div TicksPerMs]]

\* Faulty: the deadline is not restored.
RestoreSnapshotForever(s) ==
  [k \in Key |-> IF s[k] = Absent THEN Absent ELSE [s[k] EXCEPT !.expiresAt = Never]]

\* RestoreSnapshot of what TakeSnapshot wrote.
RestoreSnapshot(s) ==
  [k \in Key |->
     IF s[k] = Absent THEN Absent
     ELSE [s[k] EXCEPT !.expiresAt = IF @ >= 0 THEN @ * TicksPerMs ELSE Never]]
=============================================================================
