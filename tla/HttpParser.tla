----------------------------- MODULE HttpParser -----------------------------
(***************************************************************************)
(* The parser of one connection (src/network/HttpParser.cpp), as operators *)
(* on its fields.                                                          *)
(*                                                                         *)
(* Its input is a sequence of pieces: whole lines with their CRLF, and     *)
(* units of a body, which hold no CRLF and no blank.  A segment that ends  *)
(* inside a line behaves like one that ends before it, since the parser    *)
(* leaves an unfinished line in buffer_.  A piece knows its kind, and the  *)
(* request it was sent in, for the properties.                             *)
(***************************************************************************)
EXTENDS Integers, Sequences, FiniteSets, SequencesExt

CONSTANT BodyLength  \* the value of every Content-Length header

ASSUME BodyAssumption == BodyLength \in Nat \ {0}

Kind == {"request", "header", "length", "close", "blank", "body"}

NoRequest == [line |-> <<>>, headers |-> {}, body |-> <<>>]

NewParser == [state |-> "RequestLine", buffer |-> <<>>, current |-> NoRequest,
              contentLength |-> 0, bodyBytesRead |-> 0]

HasLine(buf) == \E i \in 1 .. Len(buf) : buf[i].kind # "body"

\* How many pieces the first line in the buffer has: body units that are still
\* in front of it are part of it.
LineLength(buf) ==
  CHOOSE i \in 1 .. Len(buf) :
    buf[i].kind # "body" /\ \A j \in 1 .. i - 1 : buf[j].kind = "body"

Line(buf) == SubSeq(buf, 1, LineLength(buf))

DropLine(p) == [p EXCEPT !.buffer = SubSeq(@, LineLength(@) + 1, Len(@))]

\* A line gives a method and a path if it has two words: an empty line, and
\* the end of a body before one, do not.
HasTwoWords(line) == Last(line).kind # "blank"

Outcome(p, result) == [parser |-> p, result |-> result]

Fails(p) == Outcome([p EXCEPT !.state = "Error"], "Error")

ParseBody(p) ==
  LET take == Min({Len(p.buffer), p.contentLength - p.bodyBytesRead})
      q == [p EXCEPT !.current.body = @ \o SubSeq(p.buffer, 1, take),
                     !.buffer = SubSeq(@, take + 1, Len(@)),
                     !.bodyBytesRead = @ + take]
  IN  IF p.contentLength = 0
      THEN Outcome([p EXCEPT !.state = "Complete"], "Complete")
      ELSE IF q.bodyBytesRead >= q.contentLength
      THEN Outcome([q EXCEPT !.state = "Complete"], "Complete")
      ELSE Outcome(q, "Incomplete")

HasHeader(req, kind) == \E line \in req.headers : Len(line) = 1 /\ line[1].kind = kind

\* contentLength_ at the end of the headers.
ContentLength(p) == IF HasHeader(p.current, "length") THEN BodyLength ELSE p.contentLength

RECURSIVE ParseHeaders(_)
ParseHeaders(p) ==
  IF ~ HasLine(p.buffer) THEN Outcome(p, "Incomplete")
  ELSE LET line == Line(p.buffer)
           q == DropLine(p)
       IN  IF Len(line) = 1 /\ line[1].kind = "blank"
           THEN ParseBody([q EXCEPT !.contentLength = ContentLength(q), !.state = "Body"])
           ELSE IF Len(line) = 1 /\ line[1].kind = "request" THEN Fails(q)
           ELSE ParseHeaders([q EXCEPT !.current.headers = @ \cup {line}])

ParseRequestLine(p) ==
  IF p.state \in {"Complete", "Error"} THEN Outcome(p, "Error")
  ELSE IF ~ HasLine(p.buffer) THEN Outcome(p, "Incomplete")
  ELSE LET line == Line(p.buffer)
       IN  IF HasTwoWords(line)
           THEN ParseHeaders([DropLine(p) EXCEPT !.current.line = line, !.state = "Headers"])
           ELSE Fails(DropLine(p))

\* Feed always starts with a request line, whatever was parsed before.
Feed(p, data) == ParseRequestLine([p EXCEPT !.buffer = @ \o data])


\* The parser after TakeRequest and its Reset.
TakeRequest(p) == [NewParser EXCEPT !.buffer = p.buffer]

IsKeepAlive(req) == ~ HasHeader(req, "close")
=============================================================================
