--------------------------- MODULE HttpConnection ---------------------------
(***************************************************************************)
(* One client connection of the TcpServer (src/network/TcpServer.cpp): the *)
(* client, the socket, edge-triggered epoll, and the IO thread that owns   *)
(* the connection.                                                         *)
(*                                                                         *)
(* The client sends the requests of Script, one after the other.  A        *)
(* response is ResponseLength units of bytes, each of them the number of   *)
(* the request it answers.                                                 *)
(***************************************************************************)
EXTENDS HttpParser

CONSTANTS
  Script,         \* Script[i]: the kinds of the pieces of the i-th request
  Cut,            \* whether a request may arrive in several segments
  ResponseLength, \* units of bytes in a response
  SendBuffer      \* units of bytes the kernel's send buffer takes

ASSUME ConnectionAssumption ==
  /\ Script \in Seq(Seq(Kind)) /\ Cut \in BOOLEAN
  /\ ResponseLength \in Nat \ {0} /\ SendBuffer \in Nat \ {0}

VARIABLES
  sent,        \* how many requests the client has sent
  client,      \* "open", or "closed" by the client, or "reset"
  network,     \* the pieces on their way to the server
  socket,      \* the pieces in the server's receive buffer
  parser,      \* conn.parser
  handled,     \* the requests handler_ was called with
  writeBuf,    \* conn.writeBuf
  sending,     \* the kernel's send buffer
  received,    \* the units the client has got
  markedClose, \* conn.markedClose
  epollOut,    \* whether EPOLLOUT is registered
  ready,       \* whether the connection is in epoll's ready list
  events,      \* the events IoLoop is working on
  io           \* where IoLoop is; "gone" once the connection is closed

clientVars == <<sent, client, network, received>>
connVars == <<parser, handled, writeBuf, markedClose>>
epollVars == <<epollOut, ready, events, io>>
vars == <<clientVars, socket, sending, connVars, epollVars>>

Init ==
  /\ sent = 0 /\ client = "open"
  /\ network = <<>> /\ socket = <<>> /\ sending = <<>> /\ received = <<>>
  /\ parser = NewParser /\ handled = <<>> /\ writeBuf = <<>> /\ markedClose = FALSE
  /\ epollOut = FALSE /\ ready = FALSE /\ events = {} /\ io = "wait"
-----------------------------------------------------------------------------
(***************************************************************************)
(* The client and the network                                              *)
(***************************************************************************)
Pieces(i) == [j \in 1 .. Len(Script[i]) |-> [kind |-> Script[i][j], req |-> i]]

HasResponse(i) == Len(received) >= i * ResponseLength

SendRequest ==
  /\ client = "open" /\ sent < Len(Script)
  /\ sent' = sent + 1
  /\ network' = network \o Pieces(sent + 1)
  /\ UNCHANGED <<client, received, socket, sending, connVars, epollVars>>

\* How many of the pieces on their way a segment may bring.
SegmentEnds ==
  {k \in 1 .. Len(network) :
     Cut \/ k = Len(network) \/ network[k + 1].kind = "request"}

\* A segment arrives: the edge EPOLLIN waits for.
Arrive ==
  \E k \in SegmentEnds :
    /\ socket' = socket \o SubSeq(network, 1, k)
    /\ network' = SubSeq(network, k + 1, Len(network))
    /\ ready' = (io # "gone")
    /\ UNCHANGED <<sent, client, received, sending, connVars, epollOut, events, io>>

\* The client reads.  Space in a full send buffer is the edge EPOLLOUT waits for.
ReadResponse ==
  /\ client = "open" /\ sending # <<>>
  /\ received' = Append(received, Head(sending))
  /\ sending' = Tail(sending)
  /\ ready' = (ready \/ (Len(sending) = SendBuffer /\ epollOut /\ io # "gone"))
  /\ UNCHANGED <<sent, client, network, socket, connVars, epollOut, events, io>>

\* A client that has all its responses closes the connection.
ClientCloses ==
  /\ client = "open" /\ network = <<>> /\ HasResponse(sent)
  /\ client' = "closed"
  /\ ready' = (io # "gone")
  /\ UNCHANGED <<sent, network, received, socket, sending, connVars, epollOut, events, io>>

\* The client dies, or the connection breaks.
ClientResets ==
  /\ client = "open"
  /\ client' = "reset"
  /\ network' = <<>> /\ socket' = <<>> /\ sending' = <<>>
  /\ ready' = (io # "gone")
  /\ UNCHANGED <<sent, received, connVars, epollOut, events, io>>
-----------------------------------------------------------------------------
(***************************************************************************)
(* The IO thread                                                           *)
(***************************************************************************)

\* What epoll_wait reports for the connection when it is in the ready list.
CurrentEvents ==
  {e \in {"in", "out", "hup"} :
     \/ e = "in" /\ (socket # <<>> \/ client # "open")
     \/ e = "out" /\ epollOut /\ Len(sending) < SendBuffer
     \/ e = "hup" /\ client = "reset"}

EpollWait ==
  /\ io = "wait" /\ ready
  /\ ready' = FALSE
  /\ events' = CurrentEvents
  /\ io' = CASE "hup" \in events' -> "close"
             [] "hup" \notin events' /\ "in" \in events' -> "read"
             [] events' = {"out"} -> "write"
             [] events' = {} -> "wait"
  /\ UNCHANGED <<clientVars, socket, sending, connVars, epollOut>>

\* Faulty: EPOLLOUT is not registered when bytes are left to write.
RegisterOutNever == UNCHANGED <<epollOut, ready>>

\* EPOLL_CTL_MOD with EPOLLOUT.  It looks at the socket at once.
RegisterOut ==
  /\ epollOut' = TRUE
  /\ ready' = (ready \/ socket' # <<>> \/ Len(sending) < SendBuffer)

\* One round of HandleRead's loop that gets bytes.
HandleRead ==
  /\ io = "read" /\ socket # <<>>
  /\ socket' = <<>>
  /\ LET fed == Feed(parser, socket)
         req == fed.parser.current
     IN  IF fed.result = "Complete"
         THEN /\ parser' = TakeRequest(fed.parser)
              /\ handled' = Append(handled, req)
              /\ writeBuf' = writeBuf \o [u \in 1 .. ResponseLength |-> Len(handled) + 1]
              /\ markedClose' = (markedClose \/ ~ IsKeepAlive(req))
              /\ RegisterOut
         ELSE /\ parser' = fed.parser
              /\ UNCHANGED <<handled, writeBuf, markedClose, epollOut, ready>>
  /\ UNCHANGED <<clientVars, sending, events, io>>

\* Where IoLoop goes from HandleRead, close being the value of markedClose.
AfterRead(close) ==
  IF close THEN "close" ELSE IF "out" \in events THEN "write" ELSE "wait"

\* recv finds nothing: EAGAIN, the end of the stream, or an error.
HandleReadEnds ==
  /\ io = "read" /\ socket = <<>>
  /\ markedClose' = (markedClose \/ client # "open")
  /\ io' = AfterRead(markedClose')
  /\ UNCHANGED <<clientVars, socket, sending, parser, handled, writeBuf,
                 epollOut, ready, events>>

\* Faulty: writeBuf keeps what was sent.
WrittenNot(n) == UNCHANGED writeBuf

\* writeBuf after send has taken n units of it.
Written(n) == writeBuf' = SubSeq(writeBuf, n + 1, Len(writeBuf))

\* One round of HandleWrite's loop that sends bytes.
HandleWrite ==
  /\ io = "write" /\ client # "reset"
  /\ LET n == Min({Len(writeBuf), SendBuffer - Len(sending)})
     IN  /\ n > 0
         /\ sending' = sending \o SubSeq(writeBuf, 1, n)
         /\ Written(n)
  /\ UNCHANGED <<clientVars, socket, parser, handled, markedClose, epollVars>>

\* HandleWrite returns: writeBuf is empty, or EAGAIN, or an error.
HandleWriteEnds ==
  /\ io = "write"
  /\ writeBuf = <<>> \/ Len(sending) = SendBuffer \/ client = "reset"
  /\ markedClose' = (markedClose \/ (writeBuf # <<>> /\ client = "reset"))
  /\ io' = IF markedClose' /\ writeBuf = <<>> THEN "close" ELSE "wait"
  /\ UNCHANGED <<clientVars, socket, sending, parser, handled, writeBuf,
                 epollOut, ready, events>>

\* CloseConnection, and the connection leaves connections_.
CloseConnection ==
  /\ io = "close"
  /\ io' = "gone" /\ ready' = FALSE
  /\ UNCHANGED <<clientVars, socket, sending, connVars, epollOut, events>>
-----------------------------------------------------------------------------
IoLoop ==
  \/ EpollWait \/ HandleRead \/ HandleReadEnds
  \/ HandleWrite \/ HandleWriteEnds \/ CloseConnection

Client == SendRequest \/ ReadResponse \/ ClientCloses \/ ClientResets

Next == IoLoop \/ Client \/ Arrive

Spec == Init /\ [][Next]_vars

\* IoLoop goes on, TCP delivers what it carries, and the client reads.
LiveSpec == Spec /\ WF_vars(IoLoop) /\ WF_vars(Arrive) /\ WF_vars(ReadResponse)
-----------------------------------------------------------------------------
\* The request the client composed, from the definition of HTTP's parts.
Composed(i) ==
  LET ps == Pieces(i)
      Of(kinds) == SelectSeq(ps, LAMBDA piece : piece.kind \in kinds)
      headers == Of({"header", "length", "close"})
  IN  [line |-> Of({"request"}), body |-> Of({"body"}),
       headers |-> {<<headers[j]>> : j \in 1 .. Len(headers)}]


\* The client gets every byte of the responses once and in order, whatever
\* the kernel takes of writeBuf at a time.
ResponsesInOrder ==
  \A j \in 1 .. Len(received) : (received[j] - 1) * ResponseLength < j
                             /\ j <= received[j] * ResponseLength

\* A client that stays gets a response to each of its requests: "Keep any
\* unparsed bytes in buffer_ for pipelining" in TakeRequest.
EveryRequestAnswered ==
  \A i \in 1 .. Len(Script) : sent >= i ~> HasResponse(i) \/ client # "open"

\* A client that never has two requests outstanding gets a response to each:
\* no edge of epoll is lost between HandleRead, EPOLL_CTL_MOD and HandleWrite.
PatientClientAnswered ==
  [](sent > 0 => HasResponse(sent - 1)) => EveryRequestAnswered

\* A connection that the server closes has no unsent response: "Register for
\* EPOLLOUT so we can flush the write buffer" in HandleRead.
FlushedBeforeClose == io = "gone" /\ client = "open" => writeBuf = <<>>

\* Feeding a well-formed request in several pieces is no error, as the test
\* IncrementalFeed of the parser has it.
IncrementalFeed == parser.state # "Error"
=============================================================================
