----------------------------- MODULE ClientCall -----------------------------
(* One call through the client package, whatever the protocol: the Retryer's
   loop, an attempt (open an exchange, send the request, read the answer) in
   the three ways an answer is read, and, when the answer is streamed, the
   caller's reads racing the Close of another goroutine.

     "buffer"   Client.Do, drainResponse reads the whole answer
     "reader"   Client.Do with BodyStream, the caller reads a
                responseBodyReader
     "events"   Client.DoStream, the caller pumps a StreamResponse

   Errors are told apart as the Retryer tells them: "retryable" ones (a
   refused stream, GOAWAY, a failed dial), hard stops ("hard": a context or a
   closed client) and the rest ("other"). Header blocks, pushed streams,
   hooks and metrics are left out; the events a reader skips (1xx, a second
   HEADERS, PUSH_PROMISE) change nothing and are not steps. *)
EXTENDS Integers, FiniteSets

CONSTANTS
    MaxAttempts,   \* RetryOptions.MaxAttempts
    MaxData,       \* bound on the DATA events of one answer
    MaxBody        \* maxResponseBodySize, in DATA events

ASSUME CallBounds ==
    MaxAttempts \in Nat \ {0} /\ MaxData \in Nat /\ MaxBody \in Nat

Attempts == 1..MaxAttempts

VARIABLES
    req,     \* the request: mode, whether canRetry allows more attempts,
             \* whether it has a Timeout
    step,    \* where the calling goroutine is
    try,     \* number of the attempt
    err,     \* what the attempt ended with, "none" for nil
    cut,     \* sendCut of the attempt
    xs,      \* per attempt: the exchange and how often it was closed, released
    wire,    \* what the peer has sent on the exchange
    resp,    \* Response or StreamResponse: which attempt filled which part
    ctx,     \* the context of the call, and the one derived from Timeout
    reader,  \* the goroutine in Read or Recv
    closer,  \* the goroutine in Close
    slabs    \* data slabs: taken from the stream, given back, kept as curData

callVars ==
    <<req, step, try, err, cut, xs, wire, resp, ctx, reader, closer, slabs>>

NoExchange == [open |-> FALSE, closed |-> 0, released |-> 0]
Silent     == [stage |-> "head", data |-> 0, coded |-> FALSE]
EmptyResp  == [head |-> {}, body |-> {}, bytes |-> 0, decoded |-> FALSE,
               owner |-> 0]

CallInit ==
    /\ req \in [mode : {"buffer", "reader", "events"}, replay : BOOLEAN,
                timeout : BOOLEAN]
    /\ step = "open" /\ try = 1 /\ err = "none" /\ cut = FALSE
    /\ xs = [a \in Attempts |-> NoExchange]
    /\ wire = Silent
    /\ resp = EmptyResp
    /\ ctx = [caller |-> "live", timeout |-> "live"]
    /\ reader = [at |-> "out", done |-> FALSE, tail |-> FALSE, saw |-> "nothing"]
    /\ closer = "out"
    /\ slabs = [taken |-> 0, put |-> 0, cur |-> 0]

-----------------------------------------------------------------------------
(* The exchange of the attempt. *)

Ended(c) == c.caller # "live" \/ c.timeout # "live"

\* s.Close then rel.Release.
CloseAndRelease ==
    xs' = [xs EXCEPT ![try].closed = @ + 1, ![try].released = @ + 1]

CloseOnly == xs' = [xs EXCEPT ![try].closed = @ + 1]

\* What an attempt returns to the loop (or to the caller): the deferred
\* cancel of a Timeout's context runs on the way out.
Leave(e) ==
    /\ err' = e
    /\ step' = "judge"
    /\ ctx' = IF req.timeout THEN [ctx EXCEPT !.timeout =
                                     IF @ = "live" THEN "returned" ELSE @]
              ELSE ctx

\* preferSendCut: once the upload was cut short, that is the error reported.
PreferSendCut(e) == IF e # "none" /\ cut THEN "other" ELSE e

OpenExchange ==
    /\ step = "open"
    /\ xs' = [xs EXCEPT ![try].open = TRUE]
    /\ wire' = Silent
    /\ cut' = FALSE
    /\ step' = "send"
    /\ UNCHANGED <<req, try, err, resp, ctx, reader, closer, slabs>>

OpenFails(e) ==
    /\ step = "open"
    /\ e = "hard" \/ ~Ended(ctx)
    /\ Leave(e)
    /\ UNCHANGED <<req, try, cut, xs, wire, resp, reader, closer, slabs>>

\* The headers, the body or the trailers could not be written.
SendFails(e) ==
    /\ step = "send"
    /\ CloseAndRelease
    /\ Leave(e)
    /\ UNCHANGED <<req, try, cut, wire, resp, reader, closer, slabs>>

\* The request went out, or the peer closed the stream on the upload: that is
\* not an error yet, the answer may be there.
SendRequest(short) ==
    /\ step = "send"
    /\ cut' = short
    /\ step' = "read"
    /\ UNCHANGED <<req, try, err, xs, wire, resp, ctx, reader, closer, slabs>>

-----------------------------------------------------------------------------
(* Client.Do reads the whole answer. *)

Draining == step = "read" /\ req.mode = "buffer"

\* drainResponse returned: do closes and releases whatever the outcome.
Drained(e) ==
    /\ CloseAndRelease
    /\ Leave(PreferSendCut(e))
    /\ UNCHANGED <<req, try, cut, reader, closer, slabs>>

Reading ==
    UNCHANGED <<req, step, try, err, cut, xs, ctx, reader, closer, slabs>>

\* The head of the answer: a status that does not parse is an error, END_STREAM
\* the end of the answer.
HandleHeaders(ok, coded, end) ==
    /\ Draining /\ wire.stage = "head"
    /\ wire' = [wire EXCEPT !.stage = IF end THEN "over" ELSE "body",
                            !.coded = coded]
    /\ resp' = IF ok THEN [resp EXCEPT !.head = @ \cup {try}] ELSE resp
    /\ IF ~ok THEN Drained("other") ELSE IF end THEN Drained("none") ELSE Reading

\* One DATA event: past the limit the call fails, at END_STREAM the body
\* gathered so far is decoded.
HandleData(end, decodes) ==
    LET over == resp.bytes + 1 > MaxBody
        whole == end /\ wire.coded
    IN  /\ Draining /\ wire.stage = "body" /\ wire.data < MaxData
        /\ wire' = [wire EXCEPT !.data = @ + 1,
                                !.stage = IF end THEN "over" ELSE @]
        /\ resp' = [resp EXCEPT
                      !.bytes = @ + 1,
                      !.body = IF over THEN @ ELSE @ \cup {try},
                      !.decoded = ~over /\ whole /\ decodes]
        /\ IF over \/ (whole /\ ~decodes) THEN Drained("other")
           ELSE IF end THEN Drained("none") ELSE Reading

HandleTrailers ==
    /\ Draining /\ wire.stage = "body"
    /\ wire' = [wire EXCEPT !.stage = "over"]
    /\ Drained("none")
    /\ UNCHANGED resp

\* RST_STREAM from the peer, or an error of the connection or of the context.
DrainFails(e) ==
    /\ Draining /\ e # "none"
    /\ Drained(e)
    /\ UNCHANGED <<wire, resp>>

-----------------------------------------------------------------------------
(* The two streaming entry points: beginStreaming. *)

Awaiting == step = "read" /\ req.mode # "buffer" /\ wire.stage = "head"

\* The head arrived and its status parses: the response owns the exchange. A
\* BodyReader whose decoder cannot be set up is closed again.
BeginResponse(coded, end, decodes) ==
    LET refused == coded /\ req.mode = "reader" /\ ~decodes
    IN  /\ Awaiting
        /\ wire' = [wire EXCEPT !.stage = IF end THEN "over" ELSE "body",
                                !.coded = coded]
        /\ resp' = [resp EXCEPT !.head = @ \cup {try},
                                !.owner = IF refused THEN 0 ELSE try]
        /\ reader' = [reader EXCEPT !.done = end]
        /\ IF refused THEN CloseAndRelease ELSE UNCHANGED xs
        /\ Leave(IF refused THEN "other" ELSE "none")
        /\ UNCHANGED <<req, try, cut, closer, slabs>>

\* No incremental reader, an error before the head, anything but HEADERS (a
\* reset included, "other" whatever its code), or a status that does not parse.
BeginFails(e) ==
    /\ Awaiting /\ e # "none"
    /\ CloseAndRelease
    /\ Leave(PreferSendCut(e))
    /\ UNCHANGED <<req, try, cut, wire, resp, reader, closer, slabs>>

-----------------------------------------------------------------------------
(* The Retryer. The user's IsRetryable may say anything of an error that is
   not a hard stop, and of a success of Do. *)

MayRetry ==
    /\ req.replay /\ try < MaxAttempts
    /\ err # "hard" /\ ~(err = "none" /\ req.mode = "events")

MustRetry == MayRetry /\ err = "retryable"

ReturnToCaller ==
    /\ step = "judge" /\ ~MustRetry
    /\ step' = "returned"
    /\ UNCHANGED <<req, try, err, cut, xs, wire, resp, ctx, reader, closer, slabs>>

\* Faulty variant: the bytes of the body stay.
ResetKeepsBody(r) == [EmptyResp EXCEPT !.body = r.body]

\* Response.Reset.
ResetResp(r) == EmptyResp

\* The previous answer is let go before the pause: a BodyReader still open owns
\* its exchange. DoStream has nothing to let go, and resets after the pause.
RetryAgain ==
    /\ step = "judge" /\ MayRetry
    /\ step' = "pause"
    /\ IF req.mode = "events" THEN UNCHANGED <<xs, resp>>
       ELSE /\ resp' = ResetResp(resp)
            /\ IF resp.owner # 0 THEN CloseAndRelease ELSE UNCHANGED xs
    /\ UNCHANGED <<req, try, err, cut, wire, ctx, reader, closer, slabs>>

SleepBackoff ==
    /\ step = "pause"
    /\ step' = "open" /\ try' = try + 1
    /\ resp' = IF req.mode = "events" THEN ResetResp(resp) ELSE resp
    /\ ctx' = [ctx EXCEPT !.timeout = "live"]
    /\ UNCHANGED <<req, err, cut, xs, wire, reader, closer, slabs>>

SleepCancelled ==
    /\ step = "pause" /\ ctx.caller # "live"
    /\ step' = "returned" /\ err' = "hard"
    /\ UNCHANGED <<req, try, cut, xs, wire, resp, ctx, reader, closer, slabs>>

-----------------------------------------------------------------------------
(* The caller reads a streamed answer. *)

Streaming == step = "returned" /\ resp.owner # 0

Caller == <<req, step, try, err, cut, resp, ctx>>

\* recycleData: curData goes back to the pool.
Recycled == [slabs EXCEPT !.put = @ + slabs.cur, !.cur = 0]

StreamClosed == closer \in {"streamClosed", "marked", "done"}
MarkedClosed == closer \in {"marked", "done"}

Comes(r) == IF StreamClosed THEN [r EXCEPT !.saw = "closed"]
            ELSE [r EXCEPT !.at = "parked"]

\* Read: what is left of the last event first, then the stream.
ReadEnter ==
    /\ Streaming /\ req.mode = "reader" /\ reader.at = "out"
    /\ ~MarkedClosed
    /\ IF reader.tail THEN reader' = [reader EXCEPT !.tail = FALSE]
       ELSE ~reader.done /\ reader' = Comes(reader)
    /\ UNCHANGED <<Caller, xs, wire, closer, slabs>>

\* Recv: the slab of the last event is given back, then the stream.
RecvEnter ==
    /\ Streaming /\ req.mode = "events" /\ reader.at = "out"
    /\ slabs' = Recycled
    /\ reader' = IF reader.done THEN reader ELSE Comes(reader)
    /\ UNCHANGED <<Caller, xs, wire, closer>>

\* The stream hands over a DATA event with its slab ...
TakeData(end) ==
    /\ reader.at = "parked" /\ wire.stage = "body" /\ wire.data < MaxData
    /\ wire' = [wire EXCEPT !.data = @ + 1, !.stage = IF end THEN "over" ELSE @]
    /\ slabs' = [slabs EXCEPT !.taken = @ + 1]
    /\ reader' = [reader EXCEPT !.at = "holding"]
    /\ UNCHANGED <<Caller, xs, closer>>

\* ... which becomes curData under the lock, unless Close came in between:
\* then the reader gives it back itself.
StoreBlind(tail) ==
    /\ reader.at = "holding"
    /\ slabs' = [Recycled EXCEPT !.cur = 1]
    /\ reader' = [reader EXCEPT !.at = "out", !.tail = tail,
                                !.done = wire.stage = "over"]
    /\ UNCHANGED <<Caller, xs, wire, closer>>

StoreData(tail) ==
    /\ reader.at = "holding"
    /\ tail => req.mode = "reader" /\ ~MarkedClosed
    /\ slabs' = IF MarkedClosed THEN [Recycled EXCEPT !.put = @ + 1]
                ELSE [Recycled EXCEPT !.cur = 1]
    /\ reader' = [reader EXCEPT !.at = "out", !.tail = tail,
                                !.done = ~MarkedClosed /\ wire.stage = "over"]
    /\ UNCHANGED <<Caller, xs, wire, closer>>

\* Trailers or a reset end the answer. A BodyReader gives its slab back at once,
\* a StreamResponse at its next call.
TakeEnd ==
    /\ reader.at = "parked" /\ wire.stage = "body"
    /\ wire' = [wire EXCEPT !.stage = "over"]
    /\ slabs' = IF req.mode = "reader" THEN Recycled ELSE slabs
    /\ reader' = [reader EXCEPT !.at = "out", !.done = TRUE]
    /\ UNCHANGED <<Caller, xs, closer>>

\* When Close forgets to cancel, only the call's own context wakes the reader.
ReadUncancelled ==
    /\ reader.at = "parked" /\ Ended(ctx)
    /\ reader' = [reader EXCEPT !.at = "out", !.saw = "context"]
    /\ UNCHANGED <<Caller, xs, wire, closer, slabs>>

\* The context the reader is parked on is done: Close cancelled it, or it was
\* the call's own.
ReadCancelled ==
    /\ reader.at = "parked" /\ (closer # "out" \/ Ended(ctx))
    /\ reader' = [reader EXCEPT !.at = "out", !.saw = "context"]
    /\ UNCHANGED <<Caller, xs, wire, closer, slabs>>

(* Close: cancel, close the stream, mark and give the slab back, release. *)

Closes(from, to) ==
    /\ Streaming /\ closer = from
    /\ closer' = to
    /\ UNCHANGED <<Caller, wire, reader>>

CloseBegins == Closes("out", "cancelled") /\ UNCHANGED <<xs, slabs>>
CloseStream == Closes("cancelled", "streamClosed") /\ CloseOnly /\ UNCHANGED slabs
CloseMarks  == Closes("streamClosed", "marked") /\ slabs' = Recycled /\ UNCHANGED xs
CloseReleases ==
    /\ Closes("marked", "done")
    /\ xs' = [xs EXCEPT ![try].released = @ + 1]
    /\ UNCHANGED slabs

CtxCancelled ==
    /\ ctx.caller = "live"
    /\ ctx' = [ctx EXCEPT !.caller = "cancelled"]
    /\ UNCHANGED <<req, step, try, err, cut, xs, wire, resp, reader, closer, slabs>>

TimeoutFires ==
    /\ req.timeout /\ ctx.timeout = "live"
    /\ ctx' = [ctx EXCEPT !.timeout = "expired"]
    /\ UNCHANGED <<req, step, try, err, cut, xs, wire, resp, reader, closer, slabs>>

-----------------------------------------------------------------------------
Errors == {"retryable", "hard", "other"}

CloseSteps == CloseBegins \/ CloseStream \/ CloseMarks \/ CloseReleases

CallNext ==
    \/ OpenExchange
    \/ \E e \in Errors : OpenFails(e) \/ SendFails(e) \/ DrainFails(e) \/ BeginFails(e)
    \/ \E short \in BOOLEAN : SendRequest(short)
    \/ \E ok, coded, end \in BOOLEAN : HandleHeaders(ok, coded, end)
    \/ \E end, decodes \in BOOLEAN : HandleData(end, decodes)
    \/ HandleTrailers
    \/ \E coded, end, decodes \in BOOLEAN : BeginResponse(coded, end, decodes)
    \/ ReturnToCaller \/ RetryAgain \/ SleepBackoff \/ SleepCancelled
    \/ ReadEnter \/ RecvEnter \/ ReadCancelled \/ TakeEnd
    \/ \E end \in BOOLEAN : TakeData(end)
    \/ \E tail \in BOOLEAN : StoreData(tail)
    \/ CloseSteps
    \/ CtxCancelled \/ TimeoutFires

\* A goroutine parked on a context that is done is scheduled.
CallFairness == WF_callVars(ReadCancelled)

CallSpec == CallInit /\ [][CallNext]_callVars /\ CallFairness

-----------------------------------------------------------------------------
\* Exchanges and slabs go back exactly once. An exchange that was opened is
\* held by the attempt in progress or by the response the caller reads, and by
\* nobody else: on every error path, before every pause of the Retryer and
\* after Close it has been closed and then released, once. The slabs the reader
\* took are accounted for whichever way Read or Recv interleaves with Close.
NothingIsKept ==
    /\ \A a \in Attempts :
         /\ xs[a].released <= xs[a].closed /\ xs[a].closed <= 1
         /\ ~xs[a].open => xs[a].closed = 0
         /\ xs[a].open /\ xs[a].released = 0 =>
              \/ a = try /\ step \in {"send", "read"}
              \/ a = resp.owner /\ closer # "done"
         /\ a = resp.owner /\ closer = "out" => xs[a].closed = 0
    /\ slabs.taken = slabs.put + slabs.cur
                     + (IF reader.at = "holding" THEN 1 ELSE 0)
    /\ MarkedClosed => slabs.cur = 0

\* A success is one attempt's answer: what Do or DoStream returns was filled by
\* the last attempt alone, however far the earlier ones got before the Retryer
\* gave them up, and there are earlier ones only for a request that may be
\* replayed.
OneAttemptsAnswer ==
    /\ try > 1 => req.replay
    /\ step = "returned" /\ err = "none" =>
         resp.head = {try} /\ resp.body \subseteq {try}

\* Close wakes a reader: a Read or Recv parked on the stream when another
\* goroutine calls Close returns, even if the peer never sends again.
CloseWakesReader ==
    closer # "out" /\ reader.at = "parked" ~> reader.at # "parked"
=============================================================================
