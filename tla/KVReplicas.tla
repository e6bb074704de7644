----------------------------- MODULE KVReplicas -----------------------------
(***************************************************************************)
(* The stores of a cluster: the writes of KVHandler (src/api/KVHandler.cpp)*)
(* go through the log that RaftNode replicates, each replica applies this  *)
(* log at its own pace (ApplyEntry), and a process that dies applies it    *)
(* again from the start.  CompareAndSwap does not go through the log.      *)
(***************************************************************************)
EXTENDS KVStore

CONSTANTS
  Replica,
  Value,
  Ttl,          \* the ttl_ms of requests; one that is not above 0 means none
  MaxLog,       \* bound: how many writes are committed
  MaxTime,      \* bound: how far the clock runs
  MaxRestarts,  \* bound: how many times processes die
  MaxCas        \* bound: the highest version a swap starts from

ASSUME ReplicasAssumption ==
  /\ Ttl \subseteq Int
  /\ {MaxLog, MaxTime, MaxRestarts, MaxCas} \subseteq Nat

VARIABLES
  now,          \* the system clock
  log,          \* the committed writes, with the time they were proposed at
  leader,       \* the replica whose IsLeader() is true
  data,         \* data[r]: data_ of the store of r
  lastApplied,  \* lastApplied_
  restarts

vars == <<now, log, leader, data, lastApplied, restarts>>

Init ==
  /\ now = 0 /\ log = <<>> /\ restarts = 0
  /\ leader \in Replica
  /\ data = [r \in Replica |-> EmptyStore]
  /\ lastApplied = [r \in Replica |-> 0]

Propose(op) ==
  /\ Len(log) < MaxLog
  /\ log' = Append(log, op)
  /\ UNCHANGED <<now, leader, data, lastApplied, restarts>>

\* KVHandler::Put at the leader.
HandlePut(k, v, ttl) ==
  Propose([type |-> "Put", key |-> k, value |-> v, ttl |-> ttl, at |-> now])

\* KVHandler::Delete at the leader: 404 if its own store has no such key.
HandleDelete(k) ==
  /\ Visible(data[leader], k, now)
  /\ Propose([type |-> "Delete", key |-> k, at |-> now])

\* KVHandler::CompareAndSwap at the leader.
HandleCas(k, expected, new) ==
  /\ data[leader][k] # Absent => data[leader][k].version <= MaxCas
  /\ data' = [data EXCEPT ![leader] = CAS(@, k, expected, new, 0)]
  /\ UNCHANGED <<now, log, leader, lastApplied, restarts>>

\* What ApplyEntry makes of the store d.
Applied(d, op, index) ==
  IF op.type = "Put"
  THEN Put(d, op.key, op.value, index, IF op.ttl > 0 THEN op.ttl ELSE Never, now)
  ELSE Delete(d, op.key)

\* One round of ApplyLoop.
ApplyEntry(r) ==
  /\ lastApplied[r] < Len(log)
  /\ LET next == lastApplied[r] + 1
     IN  /\ data' = [data EXCEPT ![r] = Applied(@, log[next], next)]
         /\ lastApplied' = [lastApplied EXCEPT ![r] = next]
  /\ UNCHANGED <<now, log, leader, restarts>>

\* The process of r dies.  The new one has an empty store and its log, which
\* is shorter than snapshotThreshold.
Restart(r) ==
  /\ restarts < MaxRestarts /\ restarts' = restarts + 1
  /\ data' = [data EXCEPT ![r] = EmptyStore]
  /\ lastApplied' = [lastApplied EXCEPT ![r] = 0]
  /\ UNCHANGED <<now, log, leader>>

Elect(r) == leader' = r /\ leader # r /\ UNCHANGED <<now, log, data, lastApplied, restarts>>

Tick == now < MaxTime /\ now' = now + 1 /\ UNCHANGED <<log, leader, data, lastApplied, restarts>>

WriteStep ==
  \E k \in Key : \/ HandleDelete(k)
                 \/ \E v \in Value : \E ttl \in Ttl : HandlePut(k, v, ttl)

CasStep == \E k \in Key : \E v, w \in Value : HandleCas(k, v, w)

Next ==
  \/ Tick \/ WriteStep
  \/ \E r \in Replica : ApplyEntry(r) \/ Restart(r) \/ Elect(r)

\* With clients that use CompareAndSwap.
CasNext == Next \/ CasStep

Spec == Init /\ [][Next]_vars

CasSpec == Init /\ [][CasNext]_vars
-----------------------------------------------------------------------------
(***************************************************************************)
(* Properties                                                              *)
(***************************************************************************)
Content(r, k) ==
  IF data[r][k] = Absent THEN Absent
  ELSE <<data[r][k].value, data[r][k].version, data[r][k].raftIndex>>

\* Replicas that have applied the same part of the log hold the same values
\* under the same versions, whenever each applied it, whether entries expired
\* meanwhile and whether it was restarted: ApplyEntry reads nothing but the log
\* and the store.  (README: a strongly-consistent store.)
ReplicasAgree ==
  \A r, s \in Replica : lastApplied[r] = lastApplied[s] =>
    \A k \in Key : Content(r, k) = Content(s, k)

\* Scan, which starts at lower_bound and stops at the first key without the
\* prefix, returns the visible keys with the prefix, in order and as many as
\* the limit allows (one, if the limit is 0).
ScanExact ==
  \A r \in Replica : \A limit \in {Never} \cup 0 .. 2 :
  \A prefix \in {<<>>} \cup Key \cup {Append(k, 1) : k \in Key} :
    LET hits  == {k \in Key : IsPrefix(prefix, k) /\ Visible(data[r], k, now)}
        found == Scan(data[r], prefix, limit, now)
    IN  /\ ToSet(found) \subseteq hits /\ IsSorted(found, LAMBDA s, t : s = t \/ Less(s, t))
        /\ \A k \in hits \ ToSet(found) :
             limit # Never /\ Len(found) >= limit /\ \A f \in ToSet(found) : Less(f, k)

\* A store rebuilt by RestoreSnapshot from TakeSnapshot shows, now and at every
\* later time, what the store shows: no expired key comes back, and a key is
\* gone at most one millisecond early, because deadlines are cut to whole
\* milliseconds.
SnapshotRoundTrip ==
  \A r \in Replica :
    LET rebuilt == RestoreSnapshot(TakeSnapshot(data[r], now))
    IN  \A k \in Key : \A t \in now .. MaxTime :
          /\ Visible(rebuilt, k, t) =>
               /\ Visible(data[r], k, t)
               /\ rebuilt[k].value = data[r][k].value
               /\ rebuilt[k].version = data[r][k].version
          /\ Visible(data[r], k, t) /\ ~ Visible(rebuilt, k, t) =>
               data[r][k].expiresAt < t + TicksPerMs

\* A key with a TTL is not visible when the TTL has passed since Propose was
\* called: "ttl_ms: key expiry in milliseconds from now" (RaftNode.hpp).
TtlCountsFromPropose ==
  \A r \in Replica : \A k \in Key :
    Visible(data[r], k, now) /\ data[r][k].expiresAt # Never =>
      LET op == log[data[r][k].raftIndex] IN now <= op.at + op.ttl * TicksPerMs

\* A key stays visible until its TTL has passed since Propose was called: no
\* replica, late, restarted or not, lets it expire early, and an overwritten
\* TTL has no effect on the new value.
TtlIsKept ==
  \A r \in Replica : \A k \in Key : data[r][k] # Absent =>
    LET op == log[data[r][k].raftIndex]
    IN  op.ttl < 0 \/ now <= op.at + op.ttl * TicksPerMs => Visible(data[r], k, now)

\* A swap changes a value only if Get would have returned it: "only updates if
\* current value == expected" (KVStore.hpp).
CasSeesWhatGetSees ==
  [][\A r \in Replica : \A k \in Key :
       data'[r][k] # data[r][k] /\ data'[r][k] # Absent /\ data'[r][k].raftIndex = 0
         => Visible(data[r], k, now)]_vars
=============================================================================
