----------------------------- MODULE H1Exchange -----------------------------
(***************************************************************************)
(* Consecutive HTTP/1.1 exchanges on one persistent connection:            *)
(* http1.Exchange (WriteRequest, WriteBody, ReadResponse, ReadBodyChunk,   *)
(* KeepAlive) and the residue check that gates reuse.  The question is     *)
(* whether client and server agree where each message ends, because a      *)
(* connection on which they disagree must never carry another request.     *)
(*                                                                         *)
(* Octets are abstracted to tokens: a whole head, one octet of body, one   *)
(* chunk-size line, the CRLF after a chunk, a trailer section, the FIN.    *)
(* Each token carries the number of the request it answers ("of"; 0 is a   *)
(* response nobody asked for).  The server is the environment: it chooses  *)
(* a head freely and delimits its body by any reading of that head a       *)
(* recipient might share, and its tokens may be delayed in the network.    *)
(***************************************************************************)
EXTENDS Integers, Sequences, SequencesExt

CONSTANTS
    Answers(_, _),    \* Answers(k, m): what the server may answer request k
                      \* of method m with, as sequences of heads [code, minor,
                      \* lines]: interim ones and then a final one
    Lengths,          \* Content-Length values a caller declares
    Trailers,         \* trailer sections: sequences of field lines
    Methods,          \* request methods
    Uploads,          \* those the caller sends a body with
    MaxExchanges,     \* bound on the requests sent on the connection
    MaxInterim,       \* maxInterimResponses, reduced
    AbandonsChunked   \* may the caller stop a chunked upload half way and
                      \* still read the response?

ASSUME ExchangeBounds == MaxExchanges \in Nat \ {0} /\ MaxInterim \in Nat

VARIABLES
    ex,        \* the current Exchange
    n,         \* its number
    peerMinor, \* Conn.peerMinor; -1 while peerMinorKnown is false
    stream,    \* tokens the server sent and the client has not consumed
    arrived,   \* how many of them have reached the client's socket
    buffered,  \* how many of those are in the bufio reader
    srv        \* how the server parses the request stream

exchangeVars == <<ex, n, peerMinor, stream, arrived, buffered, srv>>

Unset == -1
NoHead == [code |-> 0, minor |-> 1, lines |-> <<>>]

Octets == [v \in {"0", "1", "2"} |->
             IF v = "0" THEN 0 ELSE IF v = "1" THEN 1 ELSE 2]

NewExchange(m) ==
    [phase |-> "new", method |-> m, reqChunked |-> FALSE,
     reqContentLen |-> Unset, reqBodyWritten |-> 0, condemned |-> FALSE,
     keepAlive |-> FALSE, interim |-> 0, first |-> TRUE, code |-> 0,
     respTE |-> FALSE, respCL |-> FALSE, clSeen |-> FALSE, clValue |-> 0,
     respChunked |-> FALSE, contentLen |-> Unset, bodyRead |-> 0,
     at |-> "size", sawClose |-> FALSE, headOf |-> Unset, err |-> "none"]

SrvIdle == [left |-> 0, chunks |-> FALSE, asked |-> FALSE, desync |-> FALSE]

ExchangeInit ==
    /\ ex \in {NewExchange(m) : m \in Methods}
    /\ n = 1
    /\ peerMinor = Unset
    /\ stream = <<>> /\ arrived = 0 /\ buffered = 0
    /\ srv = SrvIdle

-----------------------------------------------------------------------------
(* The server, and the network between the two.                            *)

Token(k, t, hd) == [of |-> k, t |-> t, head |-> hd]

Values(hd, name) ==
    {hd.lines[i].value : i \in {j \in DOMAIN hd.lines : hd.lines[j].name = name}}

\* The final transfer coding of a head: repeated field lines are one list and
\* an empty line adds nothing to it.
FinalCoding(hd) ==
    LET named == SelectSeq(hd.lines, LAMBDA l : l.name = "transfer-encoding"
                                                /\ l.value # "")
    IN IF named = <<>> THEN "" ELSE Last(named).value

\* Every way a server that sent hd in answer to m may go on to delimit the
\* body.  Where the fields contradict the status, the version or each other
\* the server may follow either of them.
Readings(m, hd) ==
    LET coding == FinalCoding(hd)
        byTE   == IF coding = "" THEN {}
                  ELSE IF coding = "chunked" THEN {"chunked"}
                  ELSE IF coding = "open" THEN {"chunked", "close"}
                  ELSE {"close"}
        byCL   == Values(hd, "content-length") \ {"bad"}
        old    == IF hd.minor = 0 /\ byTE # {} THEN {"close"} ELSE {}
        plain  == byTE \cup byCL \cup old
    IN CASE m = "HEAD"     -> {"none"}
         [] hd.code = 204  -> {"none"} \cup byTE \cup byCL
         [] hd.code = 304  -> {"none"} \cup byTE
         [] OTHER          -> IF plain = {} THEN {"close"} ELSE plain

Bodies(k, reading) ==
    LET T(t) == Token(k, t, NoHead)
        End(ls) == Token(k, "trailer", [NoHead EXCEPT !.lines = ls])
    IN CASE reading = "chunked" ->
              {<<T("size"), T("octet"), T("crlf"), T("zero"), End(ls)>> :
                  ls \in Trailers}
              \cup {<<T("octet")>>, <<T("size"), T("octet"), T("octet")>>}
         [] reading = "close" -> {<<T("octet"), T("fin")>>}
         [] reading = "none"  -> {<<>>}
         [] OTHER -> {[i \in 1..Octets[reading] |-> T("octet")]}

NoFin == \A i \in DOMAIN stream : stream[i].t # "fin"

\* The answer to the request being served, before or after its body arrived.
ServerAnswers ==
    /\ srv.asked /\ NoFin
    /\ \E hs \in Answers(n, ex.method) :
         \E body \in UNION {Bodies(n, r) : r \in Readings(ex.method, Last(hs))} :
            stream' = stream \o [i \in DOMAIN hs |-> Token(n, "head", hs[i])] \o body
    /\ srv' = [srv EXCEPT !.asked = FALSE]
    /\ UNCHANGED <<ex, n, peerMinor, arrived, buffered>>

\* A response nobody asked for, sent behind a complete one and already at the
\* client's socket before the client asks about residue.
ServerAppends ==
    /\ ex.phase \in {"body", "done", "pooled"} /\ NoFin
    /\ \A i \in DOMAIN stream : stream[i].of # 0
    /\ stream' = Append(stream, Token(0, "head", NoHead))
    /\ arrived' = Len(stream')
    /\ UNCHANGED <<ex, n, peerMinor, buffered, srv>>

\* The server closes or dies; what it had sent and not delivered is lost.
ServerCloses ==
    /\ NoFin
    /\ stream' = Append(SubSeq(stream, 1, arrived), Token(n, "fin", NoHead))
    /\ srv' = [srv EXCEPT !.asked = FALSE]
    /\ UNCHANGED <<ex, n, peerMinor, arrived, buffered>>

Arrive ==
    /\ arrived < Len(stream)
    /\ arrived' = arrived + 1
    /\ UNCHANGED <<ex, n, peerMinor, stream, buffered, srv>>

-----------------------------------------------------------------------------
(* The request side.                                                       *)

Condemn(e) == [e EXCEPT !.keepAlive = FALSE, !.condemned = TRUE]

UnchangedRead == UNCHANGED <<n, peerMinor, stream, arrived, buffered>>

\* What the head just written tells the server to expect.  A head that lands
\* inside the previous request's body is not seen as a head at all.
SrvReadsHead(e) ==
    [left   |-> IF e.reqContentLen = Unset THEN 0 ELSE e.reqContentLen,
     chunks |-> e.reqChunked, asked |-> TRUE,
     desync |-> srv.desync \/ srv.left > 0 \/ srv.chunks]

\* WriteRequest: cl is the caller's Content-Length, Unset when it gave none.
\* Invalid fields or an ended context refuse the request before anything is
\* written; so do a length on a request without a body and a chunked body for
\* a peer known to speak HTTP/1.0.
WriteRequest(endStream, cl) ==
    /\ ex.phase = "new" /\ (endStream \/ ex.method \in Uploads)
    /\ LET e == [ex EXCEPT !.phase = IF endStream THEN "head" ELSE "upload",
                           !.reqChunked = ~endStream /\ cl = Unset,
                           !.reqContentLen =
                               IF cl # Unset THEN cl
                               ELSE IF endStream /\ ex.method = "POST" THEN 0
                               ELSE Unset]
       IN \/ ex' = [ex EXCEPT !.phase = "failed"] /\ UNCHANGED srv
          \/ /\ endStream => cl \in {Unset, 0}
             /\ e.reqChunked => peerMinor # 0
             /\ \/ ex' = e /\ srv' = SrvReadsHead(e)
                \/ ex' = Condemn(e) /\ UNCHANGED srv      \* the write failed
    /\ UnchangedRead

\* WriteBody: len octets, fin on the last call.  ok is the socket's verdict;
\* a refused or failed write leaves the caller free to read the response.
WriteBody(len, fin, ok) ==
    /\ \/ ex.phase = "upload"
       \/ ex.phase = "head" /\ len > 0 /\ ~ex.reqChunked /\ ~ex.condemned
    /\ LET wrote   == ex.reqBodyWritten + len
           refused == /\ ~ex.reqChunked
                      /\ \/ len > 0 /\ ex.reqContentLen = Unset
                         \/ ex.reqContentLen # Unset /\ wrote > ex.reqContentLen
           short   == fin /\ ~ex.reqChunked /\ ex.reqContentLen # Unset
                          /\ wrote # ex.reqContentLen
           next    == [ex EXCEPT !.phase = IF fin THEN "head" ELSE @,
                                 !.reqBodyWritten =
                                     IF ex.reqChunked THEN @ ELSE wrote]
       IN IF refused \/ ~ok
          THEN ex' = [Condemn(ex) EXCEPT !.phase = "head"] /\ UNCHANGED srv
          ELSE /\ ex' = IF short THEN Condemn(next) ELSE next
               /\ srv' = [srv EXCEPT
                            !.left = IF ex.reqChunked \/ len > @ THEN @ ELSE @ - len,
                            !.chunks = @ /\ ~fin]
    /\ UnchangedRead

\* The caller gives up on the upload (its BodyReader failed, its context
\* ended) and goes on to the response.
AbandonUpload ==
    /\ ex.phase = "upload"
    /\ ex.reqChunked => AbandonsChunked
    /\ ex' = [ex EXCEPT !.phase = "head"]
    /\ UnchangedRead /\ UNCHANGED srv

-----------------------------------------------------------------------------
(* The response head.                                                      *)

NoteContentLength(e, v) ==
    IF e.err # "none" THEN e
    ELSE IF v = "bad" \/ (e.clSeen /\ Octets[v] # e.clValue)
    THEN [e EXCEPT !.err = "content-length"]
    ELSE [e EXCEPT !.clSeen = TRUE, !.clValue = Octets[v]]

NoteTransferEncoding(e, v) ==
    LET te == [e EXCEPT !.respTE = TRUE]
    IN IF v = "open" THEN Condemn([te EXCEPT !.respChunked = FALSE])
       ELSE IF v = "" THEN te
       ELSE [te EXCEPT !.respChunked = (v = "chunked")]

\* commitHeaderLine; a content-length defect is only noted (err is judged when
\* the block ends), an invalid field aborts the block.
CommitHeaderLine(e, l, parseBody) ==
    IF e.err = "field" THEN e
    ELSE CASE l.name = "invalid" -> [Condemn(e) EXCEPT !.err = "field"]
           [] l.name = "connection" /\ l.value = "close" ->
                [Condemn(e) EXCEPT !.sawClose = TRUE]
           [] l.name = "connection" /\ l.value = "keep-alive" ->
                [e EXCEPT !.keepAlive = @ \/ ~e.condemned]
           [] parseBody /\ l.name = "content-length" ->
                NoteContentLength([e EXCEPT !.respCL = TRUE], l.value)
           [] parseBody /\ l.name = "transfer-encoding" ->
                NoteTransferEncoding(e, l.value)
           [] OTHER -> e

ConsumeHeaders(e, lines, parseBody) ==
    FoldLeft(LAMBDA acc, l : CommitHeaderLine(acc, l, parseBody), e, lines)

\* resolveContentLength: Transfer-Encoding overrides, even a defect.
ResolveContentLength(e) ==
    IF e.err = "field" THEN e
    ELSE IF e.respTE THEN [e EXCEPT !.err = "none"]
    ELSE IF e.err # "none" THEN Condemn(e)
    ELSE IF e.clSeen THEN [e EXCEPT !.contentLen = e.clValue] ELSE e

CheckBodylessAllowsLength(e) == IF e.respTE THEN Condemn(e) ELSE e
CheckBodylessStatusFraming(e) ==
    IF \/ e.code = 204 /\ (e.respTE \/ (e.respCL /\ e.clValue # 0))
       \/ e.code = 304 /\ e.respTE
    THEN Condemn(e) ELSE e

FinalHead(e, hd) ==
    LET seeded == [e EXCEPT !.code = hd.code, !.contentLen = Unset,
                            !.keepAlive = hd.minor >= 1 /\ ~e.condemned]
        block  == ResolveContentLength(ConsumeHeaders(seeded, hd.lines, TRUE))
        framed == IF block.respTE /\ (block.respCL \/ hd.minor = 0)
                  THEN Condemn(block) ELSE block
    IN IF block.err # "none" THEN [Condemn(block) EXCEPT !.phase = "failed"]
       ELSE [CheckBodylessStatusFraming(framed) EXCEPT !.phase = "body"]

InterimHead(e, hd) ==
    LET drained == ConsumeHeaders([e EXCEPT !.interim = @ + 1], hd.lines, FALSE)
    IN IF hd.code = 101 \/ drained.interim > MaxInterim \/ drained.err # "none"
       THEN [Condemn(drained) EXCEPT !.phase = "failed"] ELSE drained

\* The reader takes one token; refilling an empty buffer pulls in everything
\* that had arrived behind it, or nothing if that came later.
Take ==
    /\ arrived > 0
    /\ stream' = Tail(stream)
    /\ arrived' = arrived - 1
    /\ IF buffered > 0 THEN buffered' = buffered - 1
       ELSE buffered' \in {0, arrived - 1}

Failed(e, why) == [Condemn(e) EXCEPT !.phase = "failed", !.err = why]

\* firstRead is over; headOf only records whose token was parsed.
StatusLineRead(e, tok) == [e EXCEPT !.first = FALSE, !.headOf = tok.of]

\* One turn of ReadResponse's loop.
ReadResponse ==
    /\ ex.phase = "head"
    /\ Take
    /\ LET tok == Head(stream)
           e   == StatusLineRead(ex, tok)
       IN IF tok.t = "head"
          THEN /\ ex' = IF tok.head.code \in 100..199
                        THEN InterimHead(e, tok.head) ELSE FinalHead(e, tok.head)
               /\ peerMinor' = IF tok.head.code \in 100..199
                               THEN peerMinor ELSE tok.head.minor
          ELSE /\ ex' = IF tok.t # "fin" THEN Failed(e, "status-line")
                        ELSE Failed(ex, IF ex.first THEN "closed-idle" ELSE "eof")
               /\ UNCHANGED peerMinor
    /\ UNCHANGED <<n, srv>>

\* A deadline or a cancellation ends a blocked read.
ReadTimesOut ==
    /\ ex.phase \in {"head", "body"}
    /\ ex' = Failed(ex, "context")
    /\ UnchangedRead /\ UNCHANGED srv

-----------------------------------------------------------------------------
(* The response body.                                                      *)

Bodyless == ex.method = "HEAD" \/ ex.code \in {204, 304}

\* The deferred half of ReadBodyChunk that runs when the message is complete.
Complete(e) ==
    [(IF e.keepAlive /\ buffered' > 0 THEN Condemn(e) ELSE e)
        EXCEPT !.phase = "done"]

ReadNoBody ==
    /\ ex.phase = "body"
    /\ \/ Bodyless
       \/ ~ex.respChunked /\ ex.contentLen # Unset /\ ex.bodyRead >= ex.contentLen
    /\ UnchangedRead
    /\ ex' = Complete(ex)
    /\ UNCHANGED srv

\* Octets pending at the socket; a FIN is not an octet.
SeesResidue(s, a) == \E i \in 1..a : s[i].t # "fin"

\* Content-Length framing.  A read that bypasses the bufio reader asks the
\* socket for residue, because nothing behind the body was buffered.
ReadLengthBody ==
    /\ ex.phase = "body" /\ ~Bodyless /\ ~ex.respChunked
    /\ ex.contentLen # Unset /\ ex.bodyRead < ex.contentLen
    /\ Take
    /\ LET e    == [ex EXCEPT !.bodyRead = @ + 1]
           done == e.bodyRead >= e.contentLen
       IN \/ Head(stream).t = "fin" /\ ex' = Failed(ex, "eof")
          \/ /\ Head(stream).t # "fin"
             /\ ex' = IF done THEN Complete(e) ELSE e
          \/ \* the last octets and the FIN in one read
             /\ Head(stream).t # "fin" /\ buffered = 0 /\ done
             /\ arrived > 1 /\ stream[2].t = "fin"
             /\ ex' = Complete(Condemn(e))
          \/ /\ Head(stream).t # "fin" /\ buffered = 0 /\ buffered' = 0
             /\ ex' = IF ~done THEN e
                      ELSE IF e.keepAlive /\ SeesResidue(stream', arrived')
                      THEN Complete(Condemn(e)) ELSE Complete(e)
    /\ UNCHANGED <<n, peerMinor, srv>>

\* Neither length nor chunks: the body ends when the server closes.
ReadUntilClose ==
    /\ ex.phase = "body" /\ ~Bodyless /\ ~ex.respChunked /\ ex.contentLen = Unset
    /\ Take
    /\ ex' = IF Head(stream).t = "fin" THEN Complete(Condemn(ex)) ELSE ex
    /\ UNCHANGED <<n, peerMinor, srv>>

\* One token of readChunkedChunk.
ReadChunked ==
    /\ ex.phase = "body" /\ ~Bodyless /\ ex.respChunked
    /\ Take
    /\ LET t == Head(stream).t
       IN ex' =
          CASE ex.at = "size" /\ t = "size"  -> [ex EXCEPT !.at = "data"]
            [] ex.at = "size" /\ t = "zero"  -> [ex EXCEPT !.at = "trailer"]
            [] ex.at = "data" /\ t # "fin"   -> [ex EXCEPT !.at = "crlf"]
            [] ex.at = "crlf" /\ t = "crlf"  -> [ex EXCEPT !.at = "size"]
            [] ex.at = "trailer" /\ t = "trailer" ->
                 LET e == ConsumeHeaders(ex, Head(stream).head.lines, FALSE)
                 IN IF e.err # "none" THEN Failed(e, e.err) ELSE Complete(e)
            [] ex.at = "trailer" /\ t = "fin" -> Complete(Condemn(ex))
            [] OTHER -> Failed(ex, "chunk")
    /\ UNCHANGED <<n, peerMinor, srv>>

-----------------------------------------------------------------------------
(* Release and reuse.                                                      *)

KeepAliveShort(e) == e.keepAlive
KeepAlive(e) ==
    /\ ~(e.reqContentLen > 0 /\ e.reqBodyWritten < e.reqContentLen)
    /\ e.keepAlive

\* Conn.Close: nothing on the connection is read again.
Discard ==
    /\ ex' = [NewExchange(ex.method) EXCEPT !.phase = "discarded"]
    /\ stream' = <<>> /\ arrived' = 0 /\ buffered' = 0
    /\ srv' = SrvIdle
    /\ UNCHANGED <<n, peerMinor>>

\* h1Exchange.Recv releases a completed exchange with KeepAlive(), every other
\* end closes the connection.
ReleaseExchange ==
    /\ ex.phase \in {"done", "failed"}
    /\ IF ex.phase = "done" /\ KeepAlive(ex)
       THEN /\ ex' = [ex EXCEPT !.phase = "pooled"]
            /\ UnchangedRead /\ UNCHANGED srv
       ELSE Discard

\* Checkout: a pooled connection with residue is discarded; one that sat idle
\* long enough is probed, which also notices a FIN.
Reuse(m, probes) ==
    /\ ex.phase = "pooled" /\ n < MaxExchanges
    /\ IF SeesResidue(stream, arrived) \/ (probes /\ arrived > 0)
       THEN Discard
       ELSE /\ ex' = NewExchange(m)
            /\ n' = n + 1
            /\ UNCHANGED <<peerMinor, stream, arrived, buffered, srv>>

\* A discarded connection takes no further part.
Discarded ==
    /\ ex.phase = "discarded" \/ (ex.phase = "pooled" /\ n = MaxExchanges)
    /\ UNCHANGED exchangeVars

Undiscarded == ex.phase # "discarded"

ExchangeNext ==
    \/ Undiscarded /\ (ServerAnswers \/ ServerAppends \/ ServerCloses \/ Arrive)
    \/ \E endStream \in BOOLEAN, cl \in {Unset} \cup Lengths : WriteRequest(endStream, cl)
    \/ \E len \in 0..1, fin, ok \in BOOLEAN : WriteBody(len, fin, ok)
    \/ AbandonUpload
    \/ ReadResponse \/ ReadTimesOut
    \/ ReadNoBody \/ ReadLengthBody \/ ReadUntilClose \/ ReadChunked
    \/ ReleaseExchange
    \/ \E m \in Methods, probes \in BOOLEAN : Reuse(m, probes)
    \/ Discarded

ExchangeSpec == ExchangeInit /\ [][ExchangeNext]_exchangeVars

-----------------------------------------------------------------------------
Phases == {"new", "upload", "head", "body", "done", "failed", "pooled", "discarded"}

\* The exchange is in one of its phases, the buffer holds no more than the
\* socket delivered, and a condemned exchange never reports keep-alive.
ExchangeTypeOK ==
    /\ ex.phase \in Phases
    /\ n \in 1..MaxExchanges
    /\ peerMinor \in {Unset, 0, 1}
    /\ arrived \in 0..Len(stream)
    /\ buffered \in 0..arrived
    /\ ~(ex.condemned /\ ex.keepAlive)

\* Exchanges on one connection stay apart. Whatever the server's heads say, in
\* whatever order their lines come: an exchange only parses as its own status
\* line a token the server sent in answer to it, so nothing of an earlier
\* response and no unsolicited one survives on a reused connection (the framing
\* verdict, the leftover check, KeepAlive and HasResidue together); a request
\* head only goes out where the server expects one, never while it waits for
\* body octets an earlier head promised; "close" on any head of the exchange -
\* interim, final or trailer - keeps the connection out of the pool; and
\* ErrServerClosedIdle, the one failure the client replays, is only reported
\* when nothing of a response to this request was consumed.
ExchangesApart ==
    /\ ex.headOf \in {Unset, n}
    /\ ~srv.desync
    /\ ex.phase = "pooled" => ~ex.sawClose
    /\ ex.err = "closed-idle" => ex.headOf = Unset
=============================================================================
