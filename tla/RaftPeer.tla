------------------------------ MODULE RaftPeer ------------------------------
(***************************************************************************)
(* One RaftPeer (src/raft/RaftPeer.cpp): the threads of a RaftNode that    *)
(* call it, its receiving thread, the TCP connection, and HandleConn of    *)
(* the RaftRpcServer at the other end.                                     *)
(*                                                                         *)
(* A frame is its sequence number; an answer carries the number of its     *)
(* request.  RpcFrame::Decode keeps frames whole and in order, so channels *)
(* are queues of frames.  The detached thread of a call and the caller's   *)
(* own wait are one wait here: both give up after rpcTimeout, and nobody   *)
(* reads a future that its caller has given up.                            *)
(***************************************************************************)
EXTENDS Integers, Sequences, FiniteSets, SequencesExt

CONSTANTS
  Thread,    \* the election thread and the replication thread
  MaxCalls   \* bound: how many RPCs are made

ASSUME PeerAssumption == MaxCalls \in Nat /\ IsFiniteSet(Thread)

Calls == 1 .. MaxCalls

VARIABLES
  nextSeq,     \* seqGen_
  call,        \* call[s]: where SendAppendEntries or SendRequestVote is, and for whom
  inner,       \* inner[s]: the inner promise: not set, an exception, or an answer
  pending,     \* the sequence numbers in pending_
  connected,   \* connected_
  open,        \* sockfd_ >= 0
  recvThread,  \* recvThread_: not started, where RecvLoop is, or ended and not joined
  toServer,    \* requests on the connection
  fromServer   \* answers on the connection

vars == <<nextSeq, call, inner, pending, connected, open, recvThread,
          toServer, fromServer>>
connection == <<connected, open, recvThread, toServer, fromServer>>

NotSet == 0
Exception == -1

Connected(c) ==
  /\ connected = c /\ open = c
  /\ recvThread = IF c THEN "running" ELSE "none"

\* The constructor has tried to connect.
Init ==
  /\ nextSeq = 1
  /\ call = [s \in Calls |-> [at |-> "unused"]]
  /\ inner = [s \in Calls |-> NotSet]
  /\ pending = {}
  /\ \E c \in BOOLEAN : Connected(c)
  /\ toServer = <<>> /\ fromServer = <<>>

Ended == {"unused", "ok", "error", "timeout", "lost"}

Goto(s, label) == call' = [call EXCEPT ![s].at = label]
-----------------------------------------------------------------------------
(***************************************************************************)
(* Disconnect, which the receiving thread and a sender may both run        *)
(***************************************************************************)

\* Up to close(): what was on the connection is lost.
Close == connected' = FALSE /\ open' = FALSE /\ toServer' = <<>> /\ fromServer' = <<>>

\* Faulty: pending_ is not emptied.
FailPendingOnly ==
  /\ inner' = [s \in Calls |-> IF s \in pending THEN Exception ELSE inner[s]]
  /\ UNCHANGED pending

\* The rest, under pendingMu_.
FailPending ==
  /\ inner' = [s \in Calls |-> IF s \in pending THEN Exception ELSE inner[s]]
  /\ pending' = {}
-----------------------------------------------------------------------------
(***************************************************************************)
(* SendAppendEntries and SendRequestVote                                   *)
(***************************************************************************)

\* NextSeq, and whether there is a connection.
BeginCall(t) ==
  /\ nextSeq <= MaxCalls /\ nextSeq' = nextSeq + 1
  /\ \A s \in Calls : call[s].at \notin Ended => call[s].thread # t
  /\ call' = [call EXCEPT ![nextSeq] =
       [at |-> IF connected THEN "register" ELSE "connect", thread |-> t]]
  /\ UNCHANGED <<inner, pending, connection>>

ConnectFails(s) ==
  /\ call[s].at = "connect"
  /\ Goto(s, IF connected THEN "register" ELSE "error")
  /\ UNCHANGED <<nextSeq, inner, pending, connection>>

Connect(s) ==
  /\ call[s].at = "connect" /\ recvThread = "none"
  /\ connected' = TRUE /\ open' = TRUE
  /\ recvThread' = "running"
  /\ Goto(s, "register")
  /\ UNCHANGED <<nextSeq, inner, pending, toServer, fromServer>>

\* Connect succeeds once more and assigns to a std::thread that was not joined:
\* std::terminate ends the process.
ConnectAgain(s) ==
  /\ call[s].at = "connect" /\ recvThread # "none"
  /\ call' = [c \in Calls |-> [at |-> "lost"]]
  /\ recvThread' = "terminated"
  /\ nextSeq' = MaxCalls + 1
  /\ pending' = {}
  /\ Close
  /\ UNCHANGED inner

Register(s) ==
  /\ call[s].at = "register"
  /\ pending' = pending \cup {s}
  /\ Goto(s, "send")
  /\ UNCHANGED <<nextSeq, inner, connection>>

\* SendRaw under sendMu_: sent, no socket, or an error and Disconnect.
SendRaw(s) ==
  /\ call[s].at = "send"
  /\ \/ /\ open
        /\ toServer' = Append(toServer, s)
        /\ Goto(s, "wait")
        /\ UNCHANGED <<connected, open, fromServer>>
     \/ /\ ~ open
        /\ Goto(s, "unsent")
        /\ UNCHANGED <<connected, open, toServer, fromServer>>
     \/ /\ open
        /\ Close
        /\ Goto(s, "disconnect")
  /\ UNCHANGED <<nextSeq, inner, pending, recvThread>>

SenderDisconnects(s) ==
  /\ call[s].at = "disconnect"
  /\ FailPending
  /\ Goto(s, "unsent")
  /\ UNCHANGED <<nextSeq, connection>>

\* The request was not sent: its entry is erased, its future failed.
Unsent(s) ==
  /\ call[s].at = "unsent"
  /\ pending' = pending \ {s}
  /\ Goto(s, "error")
  /\ UNCHANGED <<nextSeq, inner, connection>>

\* The promise was set, or the time is over.
Return(s) ==
  /\ call[s].at = "wait"
  /\ Goto(s, CASE inner[s] = NotSet -> "timeout"
               [] inner[s] = Exception -> "error"
               [] OTHER -> "ok")
  /\ UNCHANGED <<nextSeq, inner, pending, connection>>
-----------------------------------------------------------------------------
(***************************************************************************)
(* RecvLoop and the other end                                              *)
(***************************************************************************)

\* HandleConn: decode, call the RaftNode, send the answer.
HandleConn ==
  /\ toServer # <<>>
  /\ toServer' = Tail(toServer)
  /\ fromServer' = Append(fromServer, Head(toServer))
  /\ UNCHANGED <<nextSeq, call, inner, pending, connected, open, recvThread>>


\* One frame of RecvLoop: the promise of its call is set, if there is one.
Receive ==
  /\ recvThread = "running" /\ fromServer # <<>>
  /\ fromServer' = Tail(fromServer)
  /\ LET s == Head(fromServer)
     IN  IF s \in pending THEN /\ inner' = [inner EXCEPT ![s] = s]
                               /\ pending' = pending \ {s}
                          ELSE UNCHANGED <<inner, pending>>
  /\ UNCHANGED <<nextSeq, call, connected, open, recvThread, toServer>>

\* recv fails: the peer closed the connection, or a sender did.
ReceiveFails ==
  /\ recvThread = "running"
  /\ recvThread' = "disconnect"
  /\ Close
  /\ UNCHANGED <<nextSeq, call, inner, pending>>

ReceiverDisconnects ==
  /\ recvThread = "disconnect"
  /\ recvThread' = "ended"
  /\ FailPending
  /\ UNCHANGED <<nextSeq, call, connected, open, toServer, fromServer>>

\* RecvLoop ends because a sender has cleared connected_.
ReceiverStops ==
  /\ recvThread = "running" /\ ~ connected
  /\ recvThread' = "ended"
  /\ UNCHANGED <<nextSeq, call, inner, pending, connected, open, toServer, fromServer>>

Next ==
  \/ \E t \in Thread : BeginCall(t)
  \/ \E s \in Calls : \/ ConnectFails(s) \/ Connect(s) \/ ConnectAgain(s)
                      \/ Register(s) \/ SendRaw(s)
                      \/ SenderDisconnects(s) \/ Unsent(s) \/ Return(s)
  \/ HandleConn \/ Receive \/ ReceiveFails \/ ReceiverDisconnects \/ ReceiverStops

Spec == Init /\ [][Next]_vars
-----------------------------------------------------------------------------
(***************************************************************************)
(* Properties                                                              *)
(***************************************************************************)


\* pending_ does not fill up with calls that can no longer be answered: each
\* number in it belongs to a call that is being sent, to a frame on the
\* connection, or to a Disconnect that is about to fail it, also when the
\* connection breaks between Register and SendRaw.
PendingIsOutstanding ==
  \A s \in pending :
    \/ call[s].at \in {"send", "disconnect", "unsent"}
    \/ s \in ToSet(toServer) \cup ToSet(fromServer)
    \/ recvThread = "disconnect" \/ \E c \in Calls : call[c].at = "disconnect"

\* Reconnecting works: "automatic reconnect" (RaftPeer.hpp).
Reconnects == recvThread # "terminated"
=============================================================================
