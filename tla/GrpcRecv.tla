------------------------------ MODULE GrpcRecv ------------------------------
(***************************************************************************)
(* The receiving side of a gRPC call (src/grpc/stream.go, framing.go,      *)
(* status.go; InvokeInto in conn.go): events become messages and a status. *)
(*                                                                         *)
(* Bytes are units.  A message is PrefixLen units, its compression flag    *)
(* and its length, and then its payload; DATA frames cut the body anywhere.*)
(* The server answers as HTTP/2 allows: headers, then DATA, then trailers, *)
(* with END_STREAM on any of them, and a reset at any time.                *)
(***************************************************************************)
EXTENDS Integers, Sequences, SequencesExt

CONSTANTS
  Responses,   \* what the server may answer: sequences of messages [size, flag]
  MaxChunk,    \* units in a DATA frame
  MaxMessage,  \* MaxRecvMessageSize
  RpcEvents,   \* StreamEventBuffer
  MaxFrames    \* DATA frames of one answer (bound)

VARIABLES
  script,   \* the messages of this answer
  wrote,    \* units of the body the server has sent
  srv,      \* "silent", "body" or "over"
  verdict,  \* what the server has said of the call so far
  streamEvents,   \* the stream's events
  dataSent, \* DATA frames sent: each has a slab of its own
  dec,      \* decoder
  rx,       \* Stream's receive-side state
  unary,    \* the call is InvokeInto
  rpc,      \* where the caller is
  got,      \* the messages Recv returned
  outcome   \* the error Recv returned, or "none"

rpcRecvVars == <<script, wrote, srv, verdict, streamEvents, dataSent, dec, rx, unary, rpc, got, outcome>>
server   == <<script, wrote, srv, verdict, dataSent>>

PrefixLen == 2
Payload(i) == [j \in 1..script[i].size |-> <<"byte", i>>]
Encoded(i) == <<<<"flag", script[i].flag>>, <<"len", script[i].size>>>> \o Payload(i)
ServerBody == FlattenSeq([i \in DOMAIN script |-> Encoded(i)])
Ends(i) == Len(FlattenSeq([j \in 1..i |-> Encoded(j)]))

-----------------------------------------------------------------------------
\* decoder: home counts how often each slab went back to the pool.
Pending(d) == Len(d.buf) - d.off
PutDataSlab(d, s) == [d EXCEPT !.home[s] = @ + 1]

\* endBorrow, and release
EndBorrow(d) ==
  IF d.borrowed = 0 THEN d
  ELSE LET rest == SubSeq(d.buf, d.off + 1, Len(d.buf))
       IN [PutDataSlab(d, d.borrowed) EXCEPT !.own = rest, !.buf = rest, !.off = 0, !.borrowed = 0]

Compact(d) ==
  LET rest == SubSeq(d.own, d.off + 1, Len(d.own))
  IN IF d.off > 0 /\ d.off * 2 >= Len(d.own) THEN [d EXCEPT !.own = rest, !.buf = rest, !.off = 0]
     ELSE d

DecoderPush(d, chunk) ==
  LET c == Compact(EndBorrow(d))
  IN IF chunk = <<>> THEN d ELSE [c EXCEPT !.own = c.own \o chunk, !.buf = c.own \o chunk]

\* PushBorrowed, and what pump does when the borrow is not taken
PushData(d, chunk, slab) ==
  IF chunk = <<>> \/ Pending(d) # 0 THEN PutDataSlab(DecoderPush(d, chunk), slab)
  ELSE [EndBorrow(d) EXCEPT !.buf = chunk, !.off = 0, !.borrowed = slab]

\* Next: its error, or whether there is a whole message
DecErr ==
  IF Pending(dec) < PrefixLen THEN "none"
  ELSE IF dec.buf[dec.off + 1][2] # 0 THEN "ErrCompressed"
  ELSE IF dec.buf[dec.off + 2][2] > MaxMessage THEN "ErrMessageTooLarge"
  ELSE "none"
DecLen == dec.buf[dec.off + 2][2]
DecOk == Pending(dec) >= PrefixLen /\ DecErr = "none" /\ Pending(dec) - PrefixLen >= DecLen

-----------------------------------------------------------------------------
statusFromHTTP(http) ==
  CASE http = 400 -> "Internal" [] http = 503 -> "Unavailable" [] OTHER -> "Unknown"
statusFromRST(rst) ==
  CASE rst = "REFUSED_STREAM" -> "Unavailable" [] rst = "CANCEL" -> "Canceled" [] OTHER -> "Internal"

\* Faulty variant: the server's own word is taken, whatever the HTTP status.
FinishTrusting(r, code) ==
  [r EXCEPT !.done = TRUE,
            !.status = IF code # "absent" THEN code
                       ELSE IF r.http # 0 THEN statusFromHTTP(r.http) ELSE "Unknown"]

\* finish: httpStatus 0 is a :status that is not three digits.
Finish(r, code) ==
  LET badHTTP == r.http # 0 /\ r.http # 200
  IN [r EXCEPT !.done = TRUE,
               !.status = IF code # "absent" /\ (~badHTTP \/ code # "OK") THEN code
                          ELSE IF r.http # 0 THEN statusFromHTTP(r.http)
                          ELSE "Unknown"]

OnHeaders(r, e) ==
  LET s == [r EXCEPT !.headersSeen = TRUE, !.http = e.http]
  IN IF e.end \/ e.http # 200 THEN Finish(s, e.code)
     ELSE IF ~e.ct THEN [s EXCEPT !.status = "Internal", !.done = TRUE]
     ELSE s

Fail(err) == IF rx.err = "none" THEN err ELSE rx.err

\* pump reads one event.
Pump ==
  /\ streamEvents # <<>> /\ streamEvents' = Tail(streamEvents)
  /\ LET e == Head(streamEvents)
     IN /\ rx' = CASE e.t = "headers"  -> OnHeaders(rx, e)
                   [] e.t = "data"     -> IF e.end THEN Finish(rx, "absent") ELSE rx
                   [] e.t = "trailers" -> Finish(rx, e.code)
                   [] e.t = "reset"    -> [rx EXCEPT !.status = statusFromRST(e.code), !.done = TRUE]
                   [] OTHER            -> rx
        /\ dec' = IF e.t = "data" THEN PushData(dec, e.units, e.slab) ELSE dec

Waits == rx.err = "none" /\ ~rx.done

\* A Recv that returns an error. InvokeInto turns a missing message into an error, too.
Told(err) ==
  /\ rx' = IF err \in {"OK", rx.status} THEN rx ELSE [rx EXCEPT !.err = err]
  /\ outcome' = IF err # "OK" THEN err
                ELSE IF unary /\ rpc = "recv" THEN "Internal" ELSE "EOF"
  /\ rpc' = IF unary THEN "over" ELSE rpc

\* Header waits for the response headers only.
HeaderPumps == rpc = "header" /\ ~rx.headersSeen /\ Waits /\ Pump
               /\ UNCHANGED <<server, unary, rpc, got, outcome>>

HeaderReturns ==
  /\ rpc = "header" /\ (rx.headersSeen \/ ~Waits) /\ rpc' = "recv"
  /\ UNCHANGED <<server, streamEvents, dec, rx, unary, got, outcome>>

RecvMessage ==
  /\ rpc \in {"recv", "drain"} /\ DecOk
  /\ got' = Append(got, SubSeq(dec.buf, dec.off + PrefixLen + 1, dec.off + PrefixLen + DecLen))
  /\ dec' = [dec EXCEPT !.off = @ + PrefixLen + DecLen]
  /\ rpc' = IF ~unary THEN rpc ELSE IF rpc = "recv" THEN "drain" ELSE "over"
  /\ outcome' = IF unary /\ rpc = "drain" THEN "Internal" ELSE outcome
  /\ UNCHANGED <<server, streamEvents, rx, unary>>

RecvMalformed ==
  /\ rpc \in {"recv", "drain"} /\ DecErr # "none" /\ Told(Fail(DecErr))
  /\ UNCHANGED <<server, streamEvents, dec, unary, got>>

RecvPumps ==
  /\ rpc \in {"recv", "drain"} /\ ~DecOk /\ DecErr = "none" /\ Waits /\ Pump
  /\ UNCHANGED <<server, unary, rpc, got, outcome>>

\* s.err, or terminal
RecvEnds ==
  /\ rpc \in {"recv", "drain"} /\ ~DecOk /\ DecErr = "none" /\ ~Waits
  /\ Told(IF rx.err # "none" THEN rx.err
          ELSE IF rx.status # "OK" THEN rx.status
          ELSE IF Pending(dec) > 0 THEN "Internal" ELSE "OK")
  /\ UNCHANGED <<server, streamEvents, dec, unary, got>>

\* The context ends, or the connection does: statusFromTransport.
RecvFails(err) ==
  /\ rpc \in {"recv", "drain"} /\ ~DecOk /\ DecErr = "none" /\ Waits /\ Told(Fail(err))
  /\ UNCHANGED <<server, streamEvents, dec, unary, got>>

\* Close, and InvokeInto's deferred one: the borrow ends with the stream.
CloseRpc ==
  /\ rpc \in {"recv", "over"} /\ (rpc = "recv" => ~unary) /\ rpc' = "closed"
  /\ dec' = [EndBorrow(dec) EXCEPT !.buf = <<>>, !.own = <<>>, !.off = 0]
  /\ UNCHANGED <<server, streamEvents, rx, unary, got, outcome>>

-----------------------------------------------------------------------------
\* The server.
Room == Len(streamEvents) < RpcEvents /\ rpc # "closed"

ServerHeaders(http, ct, code, end) ==
  /\ srv = "silent" /\ Room /\ srv' = IF end THEN "over" ELSE "body"
  /\ streamEvents' = Append(streamEvents, [t |-> "headers", http |-> http, ct |-> ct, code |-> code, end |-> end])
  /\ verdict' = [http |-> http, ct |-> ct \/ end, code |-> IF end THEN code ELSE "absent", by |-> "server"]
  /\ UNCHANGED <<script, wrote, dataSent, dec, rx, unary, rpc, got, outcome>>

SendInterim ==
  /\ srv = "silent" /\ streamEvents = <<>> /\ rpc # "closed" /\ streamEvents' = <<[t |-> "interim"]>>
  /\ UNCHANGED <<server, dec, rx, unary, rpc, got, outcome>>

SendBody(n, end) ==
  /\ srv = "body" /\ Room /\ wrote + n <= Len(ServerBody) /\ wrote' = wrote + n
  /\ dataSent < MaxFrames /\ dataSent' = dataSent + 1 /\ srv' = IF end THEN "over" ELSE "body"
  /\ streamEvents' = Append(streamEvents, [t |-> "data", units |-> SubSeq(ServerBody, wrote + 1, wrote + n),
                               slab |-> dataSent + 1, end |-> end])
  /\ UNCHANGED <<script, verdict, dec, rx, unary, rpc, got, outcome>>

SendTrailers(code) ==
  /\ srv = "body" /\ Room /\ srv' = "over"
  /\ streamEvents' = Append(streamEvents, [t |-> "trailers", code |-> code])
  /\ verdict' = [verdict EXCEPT !.code = code]
  /\ UNCHANGED <<script, wrote, dataSent, dec, rx, unary, rpc, got, outcome>>

\* A reset, and the RST_STREAM(NO_ERROR) that may follow a whole answer.
SendReset(rst) ==
  /\ Room /\ verdict.by # "reset"
  /\ srv' = "over" /\ streamEvents' = Append(streamEvents, [t |-> "reset", code |-> rst])
  /\ verdict' = IF srv = "over" THEN [verdict EXCEPT !.by = "reset"]
                ELSE [verdict EXCEPT !.code = statusFromRST(rst), !.by = "reset"]
  /\ UNCHANGED <<script, wrote, dataSent, dec, rx, unary, rpc, got, outcome>>

RpcRecvInit ==
  /\ script \in Responses /\ wrote = 0 /\ srv = "silent" /\ streamEvents = <<>> /\ dataSent = 0
  /\ verdict = [http |-> 200, ct |-> TRUE, code |-> "absent", by |-> "none"]
  /\ dec = [buf |-> <<>>, own |-> <<>>, off |-> 0, borrowed |-> 0,
            home |-> [s \in 1..MaxFrames |-> 0]]
  /\ rx = [headersSeen |-> FALSE, http |-> 0, status |-> "OK", done |-> FALSE, err |-> "none"]
  /\ unary \in BOOLEAN /\ rpc \in (IF unary THEN {"recv"} ELSE {"header", "recv"})
  /\ got = <<>> /\ outcome = "none"

Codes == {"OK", "NotFound", "absent"}
RpcRecvNext ==
  \/ HeaderPumps \/ HeaderReturns \/ RecvMessage \/ RecvMalformed \/ RecvPumps \/ RecvEnds
  \/ \E err \in {"Canceled", "Unavailable"} : RecvFails(err)
  \/ CloseRpc \/ SendInterim
  \/ \E code \in Codes, end \in BOOLEAN : \E http \in {0, 200, 503} : ServerHeaders(http, TRUE, code, end)
  \/ ServerHeaders(200, FALSE, "absent", FALSE)
  \/ \E n \in 0..MaxChunk, end \in BOOLEAN : SendBody(n, end)
  \/ \E code \in Codes : SendTrailers(code)
  \/ \E rst \in {"NO_ERROR", "REFUSED_STREAM"} : SendReset(rst)

-----------------------------------------------------------------------------
(***************************************************************************)
(* Recv tells the truth: however the body was cut into frames, the         *)
(* messages returned are the first ones the server wrote, whole; a call    *)
(* ends well only if the server said OK on a response that was no HTTP     *)
(* error and, for a 200, every message was handed over; a failure the      *)
(* server named is reported under its name; and a unary call ends well     *)
(* with exactly one message.  Every DATA slab the stream took goes back to *)
(* the pool once, and not while the decoder still reads from it            *)
(* (src/grpc/stream.go:295, 443, 649; conn.go:788; framing.go:112-152).    *)
(***************************************************************************)
AnswerIsHonest ==
  /\ \A i \in DOMAIN got : got[i] = Payload(i)
  /\ outcome = "EOF" =>
       /\ verdict.http \in {0, 200}
       /\ verdict.http = 200 => verdict.code = "OK" /\ wrote = Ends(Len(got))
       /\ unary => Len(got) = 1
  /\ outcome # "none" /\ rx.done /\ rx.err = "none" /\ verdict.code \notin {"OK", "absent"}
     /\ verdict.http = 200 /\ verdict.ct =>
       outcome = verdict.code \/ (unary /\ Len(got) = 2)
  /\ LET waiting == {streamEvents[i].slab :
                       i \in {j \in DOMAIN streamEvents : streamEvents[j].t = "data"}}
     IN \A s \in 1..dataSent :
          dec.home[s] = IF s \in waiting \cup {dec.borrowed} THEN 0 ELSE 1
  /\ rpc = "closed" => dec.borrowed = 0
=============================================================================
