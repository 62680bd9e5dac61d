------------------------------ MODULE H3Exchange ------------------------------
(***************************************************************************)
(* One HTTP/3 request on a client connection (http3/client.go,             *)
(* stream_body.go, control.go): the GOAWAY gate, the response read whole   *)
(* by Do or event by event through a BodyReader, the control stream and    *)
(* the unidirectional streams beside it, and the end of the connection.    *)
(* The server sends frames of every kind in any order, ends, resets or     *)
(* truncates the stream at any point; the caller may cancel or close.      *)
(***************************************************************************)
EXTENDS Integers, Sequences, FiniteSets, SequencesExt

CONSTANTS
  MaxFrames,     \* bound: frames on the response stream
  ByteCap,       \* responseByteCap, in payloads retained
  InterimCap     \* maxInterimResponses

\* Response frames, told apart by what dispatchFrame and the decoders do with them.
Finals  == {"final", "finalOne", "noContent"}
Headers == Finals \cup {"info", "fields", "corrupt"}
Illegal == {"settings", "push"}
FrameKinds == Headers \cup Illegal \cup {"data", "grease"}

VARIABLES
  mode,      \* "do" or "stream"
  goaway,    \* the last GOAWAY id, or NoGoaway
  settings,  \* settingsRead
  uni,       \* the unidirectional streams routed so far
  frames,       \* the frames the server has sent
  ended,     \* how it ended the stream: "open", "fin", "cut" (in mid-frame) or "reset"
  rb,        \* the respBuilder, with the number of frames it has taken
  br,        \* the BodyReader
  phase,     \* "idle", "opened", "head", "body", "over"
  outcome,   \* what Do, DoStream or the last Next returned
  aborts,    \* STOP_SENDING and RESET_STREAM sent for the request
  cancels,   \* Stream Cancellations sent for it
  shut,      \* the connection is closed
  loop     \* the read loop: "running", "dead"

xvars == <<mode, goaway, settings, uni, frames, ended, rb, br, phase, outcome, aborts, cancels, shut,
           loop>>

NoGoaway == 9
NoResp   == "none"
response == <<frames, ended>>
control  == <<goaway, settings, uni>>
request  == <<rb, br, phase, outcome, aborts, cancels>>

\* DecodeResponseHeaders and DecodeTrailers: an error, or the section.
DecodeHead(f) == IF f \in Finals \cup {"info"} THEN f ELSE IF f = "corrupt" THEN "conn" ELSE "message"
DecodeTail(f) == IF f = "fields" THEN f ELSE IF f = "corrupt" THEN "conn" ELSE "message"
UsesTable(f) == f \in {"final", "fields"}

Fail(r, e) == [r EXCEPT !.err = e]
Took(r) == [r EXCEPT !.taken = @ + 1]

\* dispatchFrame, for HEADERS.
OnHeaders(r, f) ==
  LET d == IF r.resp = NoResp THEN DecodeHead(f) ELSE DecodeTail(f)
      q == [r EXCEPT !.total = @ + 1]
      a == [q EXCEPT !.refDynamic = @ \/ UsesTable(f)]
  IN IF r.trailersSeen THEN Fail(r, "conn")
     ELSE IF q.total > ByteCap THEN Fail(q, "large")
     ELSE IF d \in {"conn", "message"} THEN Fail(q, d)
     ELSE IF r.resp # NoResp THEN [a EXCEPT !.trailersSeen = TRUE]
     ELSE IF f # "info" THEN [a EXCEPT !.resp = f]
     ELSE IF r.interim >= InterimCap THEN Fail(a, "large")
     ELSE [a EXCEPT !.interim = @ + 1]

\* Faulty variant: DATA is taken after the trailers, too.
OnDataLate(r) ==
  IF r.resp = NoResp THEN Fail(r, "conn")
  ELSE IF mode = "stream" THEN [r EXCEPT !.body = @ + 1]
  ELSE IF r.total + 1 > ByteCap THEN Fail([r EXCEPT !.total = @ + 1], "large")
  ELSE [r EXCEPT !.total = @ + 1, !.body = @ + 1]

\* dispatchFrame, for DATA: kept by Do, stashed for Next by a BodyReader.
OnData(r) ==
  IF r.resp = NoResp \/ r.trailersSeen THEN Fail(r, "conn")
  ELSE IF mode = "stream" THEN [r EXCEPT !.body = @ + 1]
  ELSE IF r.total + 1 > ByteCap THEN Fail([r EXCEPT !.total = @ + 1], "large")
  ELSE [r EXCEPT !.total = @ + 1, !.body = @ + 1]

Dispatch(r, f) ==
  Took(IF f \in Headers THEN OnHeaders(r, f)
       ELSE IF f = "data" THEN OnData(r)
       ELSE IF f \in Illegal THEN Fail(r, "conn") ELSE r)

\* contentLengthMatches: "finalOne" declares one byte, "noContent" may declare anything.
LengthMatches(r) == r.resp = "finalOne" => r.body = 1

\* connError: CloseWithError, once.
Closes(e) == shut' = (shut \/ e = "conn")

-----------------------------------------------------------------------------
\* openRequestStream: OpenStream, then the GOAWAY gate.
OpenStream ==
  /\ phase = "idle" /\ ~shut /\ phase' = "opened"
  /\ UNCHANGED <<mode, control, response, rb, br, outcome, aborts, cancels, shut, loop>>

GoawayGate ==
  /\ phase = "opened"
  /\ IF goaway # NoGoaway
     THEN phase' = "over" /\ outcome' = "goaway" /\ aborts' = aborts + 1
     ELSE phase' = "head" /\ UNCHANGED <<outcome, aborts>>
  /\ UNCHANGED <<mode, control, response, rb, br, cancels, shut, loop>>

\* Do and DoStream return an error: abortStream, and qpackCancelStream when due.
Returns(r, e) ==
  /\ phase' = "over" /\ outcome' = e /\ rb' = r /\ aborts' = aborts + 1
  /\ cancels' = IF r.refDynamic THEN cancels + 1 ELSE cancels
  /\ Closes(e) /\ br' = br

\* recvStep found nothing more to read: how the stream ended.
EndOf == CASE ended = "reset" -> "reset" [] ended = "cut" -> "conn" [] OTHER -> "end"
Drained == rb.taken = Len(frames)

\* consume and recvStep while the head, or for Do the whole response, is read.
HeadFrame ==
  /\ phase = "head" /\ ~Drained
  /\ LET r == Dispatch(rb, frames[rb.taken + 1])
     IN IF r.err # "none" THEN Returns(r, r.err)
        ELSE /\ rb' = r /\ UNCHANGED <<outcome, aborts, cancels, shut, br>>
             /\ phase' = IF mode = "stream" /\ r.resp # NoResp THEN "body" ELSE "head"
  /\ UNCHANGED <<mode, control, response, loop>>

HeadEnds ==
  /\ phase = "head" /\ Drained /\ ended # "open"
  /\ IF EndOf # "end" THEN Returns(rb, EndOf)
     ELSE IF rb.resp = NoResp \/ ~LengthMatches(rb) THEN Returns(rb, "message")
     ELSE phase' = "over" /\ outcome' = "ok" /\ UNCHANGED <<rb, br, aborts, cancels, shut>>
  /\ UNCHANGED <<mode, control, response, loop>>

\* WaitReadable fails: the caller's context, or the connection.
HeadGivesUp ==
  /\ phase = "head" /\ Returns(rb, IF shut THEN "closed" ELSE "cancelled")
  /\ UNCHANGED <<mode, control, response, loop>>

-----------------------------------------------------------------------------
\* BodyReader.abort
Abort(r, b) ==
  /\ aborts' = IF b.aborted THEN aborts ELSE aborts + 1
  /\ cancels' = IF ~b.aborted /\ r.refDynamic THEN cancels + 1 ELSE cancels

\* fail; finish
NextFails(r, e) ==
  /\ br' = [br EXCEPT !.done = TRUE, !.err = e, !.aborted = TRUE]
  /\ rb' = r /\ Abort(r, br) /\ outcome' = e /\ Closes(e)

Finish(r, event) ==
  IF LengthMatches(r)
  THEN /\ br' = [br EXCEPT !.done = TRUE] /\ rb' = r /\ outcome' = event
       /\ UNCHANGED <<aborts, cancels, shut>>
  ELSE NextFails(r, "message")

\* Next: DATA is delivered frame by frame, trailers end the body at once.
NextFrame ==
  /\ phase = "body" /\ ~br.done /\ ~Drained
  /\ LET f == frames[rb.taken + 1]
         r == Dispatch(rb, f)
     IN IF r.err # "none" THEN NextFails(r, r.err)
        ELSE IF r.trailersSeen THEN Finish(r, "trailers")
        ELSE /\ rb' = r /\ outcome' = IF f = "data" THEN "data" ELSE outcome
             /\ br' = IF f = "data" THEN [br EXCEPT !.given = @ + 1] ELSE br
             /\ UNCHANGED <<aborts, cancels, shut>>
  /\ UNCHANGED <<mode, control, response, phase, loop>>

NextEnds ==
  /\ phase = "body" /\ ~br.done /\ Drained /\ ended # "open"
  /\ IF EndOf # "end" THEN NextFails(rb, EndOf) ELSE Finish(rb, "end")
  /\ UNCHANGED <<mode, control, response, phase, loop>>

NextGivesUp ==
  /\ phase = "body" /\ ~br.done /\ NextFails(rb, IF shut THEN "closed" ELSE "cancelled")
  /\ UNCHANGED <<mode, control, response, phase, loop>>

\* Next after the end returns the terminal state again.
NextAgain ==
  /\ phase = "body" /\ br.done /\ outcome' = IF br.err # "none" THEN br.err ELSE "end"
  /\ UNCHANGED <<mode, control, response, rb, br, phase, aborts, cancels, shut, loop>>

\* Close, by a caller that then stops reading.
CloseBody ==
  /\ phase = "body" /\ phase' = "over"
  /\ IF br.done /\ br.err = "none" THEN UNCHANGED <<br, aborts, cancels>>
     ELSE br' = [br EXCEPT !.done = TRUE, !.aborted = TRUE] /\ Abort(rb, br)
  /\ UNCHANGED <<mode, control, response, rb, outcome, shut, loop>>

-----------------------------------------------------------------------------
\* Bound: the read loop's other streams are explored for Do, which shares its gate with
\* DoStream, and until the request is sent: after that all they can do to it is close
\* the connection, as ClientClose does.
ReaderTurn == loop = "running" /\ ~shut /\ mode = "do" /\ phase \in {"idle", "opened"}

\* routeUni, and checkCriticalStreams when one of them ends.
RouteUni(t) ==
  /\ ReaderTurn
  /\ IF t \in uni \/ t = "push" THEN Closes("conn") /\ uni' = uni
     ELSE uni' = (IF t = "other" THEN uni ELSE uni \cup {t}) /\ shut' = shut
  /\ UNCHANGED <<mode, goaway, settings, response, request, loop>>

CriticalEnds ==
  /\ ReaderTurn /\ uni # {} /\ Closes("conn")
  /\ UNCHANGED <<mode, control, response, request, loop>>

\* readControl
ControlFrame(f, id) ==
  /\ ReaderTurn /\ "control" \in uni
  /\ LET ok == IF ~settings THEN f = "settings"
               ELSE f = "grease" \/ (f = "goaway" /\ id <= goaway)
     IN /\ settings' = (settings \/ (f = "settings"))
        /\ goaway' = IF ok /\ settings /\ f = "goaway" THEN id ELSE goaway
        /\ Closes(IF ok THEN "none" ELSE "conn")
  /\ UNCHANGED <<mode, uni, response, request, loop>>

\* readLoop sees the connection closed (fatal, markDead); Close closes it.
ReaderExits ==
  /\ loop = "running" /\ shut /\ phase \in {"idle", "opened"} /\ loop' = "dead"
  /\ UNCHANGED <<mode, control, response, request, shut>>

ClientClose ==
  /\ ~shut /\ phase # "over" /\ shut' = TRUE
  /\ UNCHANGED <<mode, control, response, request, loop>>

\* Frames are read one by one, so at most one waits at a time.
ServerFrame(f) ==
  /\ phase \in {"head", "body"} /\ ended = "open" /\ ~shut /\ aborts = 0
  /\ Len(frames) < MaxFrames /\ rb.taken = Len(frames)
  /\ frames' = Append(frames, f)
  /\ UNCHANGED <<mode, control, ended, request, shut, loop>>

ServerEnds(how) ==
  /\ phase \in {"head", "body"} /\ ended = "open" /\ ~shut /\ aborts = 0 /\ ended' = how
  /\ UNCHANGED <<mode, control, frames, request, shut, loop>>

XInit ==
  /\ mode \in {"do", "stream"} /\ goaway = NoGoaway /\ settings = FALSE /\ uni = {} /\ frames = <<>>
  /\ ended = "open" /\ phase = "idle" /\ outcome = "none" /\ aborts = 0 /\ cancels = 0
  /\ rb = [resp |-> NoResp, interim |-> 0, total |-> 0, trailersSeen |-> FALSE, body |-> 0,
           refDynamic |-> FALSE, err |-> "none", taken |-> 0]
  /\ br = [done |-> FALSE, err |-> "none", aborted |-> FALSE, given |-> 0]
  /\ shut = FALSE /\ loop = "running"

XNext ==
  \/ OpenStream \/ GoawayGate \/ HeadFrame \/ HeadEnds \/ HeadGivesUp
  \/ NextFrame \/ NextEnds \/ NextGivesUp \/ NextAgain \/ CloseBody
  \/ \E t \in {"control", "other", "push"} : RouteUni(t)
  \/ CriticalEnds \/ ReaderExits \/ ClientClose
  \/ \E f \in {"settings", "goaway", "grease", "data"} : \E id \in 0..1 : ControlFrame(f, id)
  \/ \E f \in FrameKinds : ServerFrame(f)
  \/ \E how \in {"fin", "cut", "reset"} : ServerEnds(how)

-----------------------------------------------------------------------------
\* The reference: 1xx responses, one final head, DATA, at most one trailer section.
Shape(fs) ==
  LET g == SelectSeq(fs, LAMBDA f : f # "grease")
  IN \E i \in 0..Len(g) :
       /\ \A j \in 1..i : g[j] = "info"
       /\ i < Len(g) => /\ g[i + 1] \in Finals
                        /\ \A j \in i + 2..Len(g) : g[j] = "data" \/ (g[j] = "fields" /\ j = Len(g))
Count(fs, S) == Len(SelectSeq(fs, LAMBDA f : f \in S))
Read == SubSeq(frames, 1, rb.taken)
Kept(fs) == Count(fs, Headers) + IF mode = "do" THEN Count(fs, {"data"}) ELSE 0

(***************************************************************************)
(* A response is handed over exactly when it is one: a clean end is        *)
(* reported only for frames that form a whole message, read to the end of  *)
(* the stream or to the trailers, within the limits and of the declared    *)
(* length, with every DATA frame delivered; and a message, framing or size *)
(* error is reported only for frames that do not form one                  *)
(* (src/http3/client.go:1252, src/http3/stream_body.go:150).  The server   *)
(* learns of every request that is given up, and of no other: one that     *)
(* failed, was refused after a GOAWAY, or was abandoned is reset exactly   *)
(* once, with one Stream Cancellation if one of its sections used the      *)
(* dynamic table (src/http3/stream_body.go:281, src/http3/client.go:1146). *)
(***************************************************************************)
ResponseIsWhole ==
  LET clean == outcome = "ok" \/ (br.done /\ br.err = "none" /\ ~br.aborted)
      dead  == br.aborted \/ (phase = "over" /\ ~clean)
  IN
  /\ outcome \in {"ok", "end", "trailers"} /\ br.err = "none" =>
       /\ Shape(Read) /\ Count(Read, Finals) = 1 /\ Kept(Read) <= ByteCap
       /\ rb.resp = "finalOne" => Count(Read, {"data"}) = 1
       /\ (rb.taken = Len(frames) /\ ended = "fin") \/ (mode = "stream" /\ rb.trailersSeen)
       /\ (IF mode = "do" THEN rb.body ELSE br.given) = Count(Read, {"data"})
  /\ outcome \in {"message", "large", "conn"} =>
       \/ ~Shape(Read) \/ Kept(Read) > ByteCap \/ Count(Read, {"info"}) > InterimCap
       \/ ended = "cut" \/ (rb.resp = NoResp /\ ended = "fin") \/ ~LengthMatches(rb)
  /\ aborts = IF dead THEN 1 ELSE 0
  /\ cancels = IF dead /\ rb.refDynamic THEN 1 ELSE 0
=============================================================================
