----------------------------- MODULE H2Streams -----------------------------
(***************************************************************************)
(* The life of a stream on one HTTP/2 client connection: package conn,     *)
(* types Conn (registry, in-flight count, drain, GOAWAY) and Stream (a     *)
(* pooled struct, reached only through a StreamRef that names one lifetime *)
(* of it).                                                                 *)
(*                                                                         *)
(* These goroutines share the structs: the application's sender, receiver  *)
(* and closer of each request, the connection's frame reader, the          *)
(* background goroutine that resets a stream whose event channel           *)
(* overflowed, and Shutdown.  One action is one critical section: of       *)
(* Stream.mu, of smu, or of the two nested.  markStreamDone holds smu over *)
(* two Stream.mu sections, and Close may run between them, so smu is a     *)
(* variable.                                                               *)
(*                                                                         *)
(* A flag of the struct is the set of the structs that have it set.  The   *)
(* k-th stream opened has id k (the odd numbering of the wire is left      *)
(* out).  An event keeps the id of the stream the peer sent it on and      *)
(* whether it ends the response.  Flow-control credit is always granted    *)
(* here, and server push is not enabled.                                   *)
(***************************************************************************)
EXTENDS Integers, Sequences, FiniteSets

CONSTANTS
  Requests,    \* the NewStream calls, each with the StreamRef it returned
  Structs,     \* the Stream structs the pool and the allocator hand out
  MaxStreams,  \* min(our MaxConcurrentStreams, the peer's)
  EventBuf,    \* StreamEventBuffer: capacity of a stream's event channel
  MaxFaults,   \* bound: resets, errors, GOAWAYs and teardowns in a behaviour
  None         \* no struct, no actor

ASSUME ConstAssumption ==
  /\ IsFiniteSet(Requests) /\ IsFiniteSet(Structs)
  /\ MaxStreams \in Nat \ {0} /\ EventBuf \in Nat \ {0}
  /\ MaxFaults \in Nat
  /\ None \notin Requests \cup Structs \cup {"reader"}
  /\ "reader" \notin Requests

VARIABLES
  gen,            \* Stream.gen: the lifetime the struct is in
  sid,            \* Stream.id, 0 until the first HEADERS is written
  events,         \* Stream.events: the buffered events
  recvActive,     \* Stream.recvActive: readers inside Recv
  localEnded, remoteEnded, closedSet, inflightDone, appClosed, connDone,
  released,       \* Stream.released: Close has been called in this lifetime
  recycleWanted,  \* Stream.recycleWanted
  signalled,      \* resetSignal or endSignal is closed
  eventsClosed,   \* shutdownStreams closed the event channel
  pool, fresh,    \* structs in Conn.streamPool; structs not yet allocated
  streams,        \* Conn.streams: the registry, by id
  inflight,       \* Conn.inflight
  nextID,         \* Conn.nextID
  smu,            \* who holds Conn.smu between two steps, or None
  connDown,           \* which of Conn's "closed", "draining", "drainDone",
                  \* "readerExited" have been set
  goAway,         \* Conn.goAwayLastStreamID, NoGoAway before the first GOAWAY
  ref, refGen,    \* StreamRef of each request: the struct and the lifetime
  snd,            \* where the request's sender is
  rcv,            \* where the request's receiver is
  told,           \* the requests whose Recv has returned the end or a reset
  cls,            \* where the request's closer is
  ret,            \* markStreamDone in progress, per actor that calls it
  rd,             \* the frame reader: the frame it handles and how far it is
  victims,        \* streams onGoAwayReceived has still to reset
  bg,             \* structs with a background RST_STREAM goroutine
  sh,             \* where Shutdown is
  faults          \* disturbances so far, at most MaxFaults

flags == <<localEnded, remoteEnded, closedSet, inflightDone, appClosed, connDone,
           released, recycleWanted, signalled, eventsClosed>>
structs == <<gen, sid, events, recvActive, pool, fresh>>
conn == <<streams, inflight, nextID, smu>>
refs == <<ref, refGen>>
streamsVars == <<flags, structs, conn, refs, connDown, goAway, snd, rcv, told,
          cls, ret, rd, victims, bg, sh, faults>>

Ids == 1 .. Cardinality(Requests)
NoGoAway == Cardinality(Requests) + 1
Actors == Requests \cup {"reader"}

NoRetire == [pc |-> "none", id |-> 0, s |-> None]
NoFrame == [pc |-> "idle", kind |-> "none", id |-> 0, s |-> None]

StreamsInit ==
  /\ gen = [s \in Structs |-> 1] /\ sid = [s \in Structs |-> 0]
  /\ events = [s \in Structs |-> << >>] /\ recvActive = [s \in Structs |-> 0]
  /\ localEnded = {} /\ remoteEnded = {} /\ closedSet = {} /\ inflightDone = {}
  /\ appClosed = {} /\ connDone = {} /\ released = {} /\ recycleWanted = {}
  /\ signalled = {} /\ eventsClosed = {}
  /\ pool = {} /\ fresh = Structs
  /\ streams = [i \in Ids |-> None] /\ inflight = 0 /\ nextID = 1 /\ smu = None
  /\ connDown = {} /\ goAway = NoGoAway
  /\ ref = [r \in Requests |-> None] /\ refGen = [r \in Requests |-> 0]
  /\ snd = [r \in Requests |-> "start"]
  /\ rcv = [r \in Requests |-> "idle"] /\ told = {}
  /\ cls = [r \in Requests |-> "open"]
  /\ ret = [a \in Actors |-> NoRetire] /\ rd = NoFrame /\ victims = {}
  /\ bg = {} /\ sh = "none" /\ faults = 0

-----------------------------------------------------------------------------
(* Operations on one struct *)

\* The StreamRef names the lifetime the struct is in.
Live(r) == gen[ref[r]] = refGen[r]

\* putLocked and resetForPoolLocked: every field returns to its zero-lifetime
\* value and the struct goes to the pool, except released, which allocStream
\* re-arms.
PutLocked(s) ==
  /\ gen' = [gen EXCEPT ![s] = @ + 1]
  /\ sid' = [sid EXCEPT ![s] = 0]
  /\ events' = [events EXCEPT ![s] = << >>]
  /\ localEnded' = localEnded \ {s} /\ remoteEnded' = remoteEnded \ {s}
  /\ closedSet' = closedSet \ {s} /\ inflightDone' = inflightDone \ {s}
  /\ appClosed' = appClosed \ {s} /\ connDone' = connDone \ {s}
  /\ recycleWanted' = recycleWanted \ {s}
  /\ signalled' = signalled \ {s} /\ eventsClosed' = eventsClosed \ {s}
  /\ pool' = pool \cup {s}

\* recycleStream: with a reader inside Recv the recycle is left to that reader.
Recycle(s) ==
  IF recvActive[s] > 0
  THEN /\ recycleWanted' = recycleWanted \cup {s}
       /\ UNCHANGED <<gen, sid, events, localEnded, remoteEnded, closedSet,
                      inflightDone, appClosed, connDone, signalled,
                      eventsClosed, pool>>
  ELSE PutLocked(s)

\* recvLeave, with the event channel as the reader left it.
RecvLeave(s, left) ==
  /\ recvActive' = [recvActive EXCEPT ![s] = @ - 1]
  /\ IF recvActive[s] = 1 /\ s \in recycleWanted
     THEN PutLocked(s)
     ELSE /\ events' = left
          /\ UNCHANGED <<gen, sid, localEnded, remoteEnded, closedSet,
                         inflightDone, appClosed, connDone, recycleWanted,
                         signalled, eventsClosed, pool>>

\* A non-blocking send of an event into the struct's channel.
HasRoom(s) == Len(events[s]) < EventBuf
Push(s, id, last) ==
  events' = [events EXCEPT ![s] = Append(@, [id |-> id, last |-> last])]

\* Stream.endWithReset: deliver the reset and set the three terminal flags, all
\* in one section, unless the struct has moved on to another lifetime.
EndWithReset(s, id) ==
  /\ IF HasRoom(s) THEN Push(s, id, TRUE) /\ UNCHANGED signalled
                   ELSE signalled' = signalled \cup {s} /\ UNCHANGED events
  /\ remoteEnded' = remoteEnded \cup {s}
  /\ localEnded' = localEnded \cup {s}
  /\ closedSet' = closedSet \cup {s}

\* Mutant of ReleaseInflight: the slot is not latched as returned.
ReleaseUnlatched(id) ==
  IF id \in Ids /\ streams[id] # None /\ streams[id] \notin inflightDone
  THEN /\ inflight' = IF inflight > 0 THEN inflight - 1 ELSE inflight
       /\ streams' = [streams EXCEPT ![id] = None]
       /\ UNCHANGED inflightDone
  ELSE UNCHANGED <<inflightDone, inflight, streams>>

\* The registry entry, and the slot unless it was already given back: the body
\* releaseInflight and releaseUnassignedInflight share.
ReleaseInflight(id) ==
  IF id \in Ids /\ streams[id] # None /\ streams[id] \notin inflightDone
  THEN /\ inflightDone' = inflightDone \cup {streams[id]}
       /\ inflight' = IF inflight > 0 THEN inflight - 1 ELSE inflight
       /\ streams' = [streams EXCEPT ![id] = None]
  ELSE UNCHANGED <<inflightDone, inflight, streams>>

ReleaseUnassigned(s) ==
  /\ UNCHANGED streams
  /\ IF s \in inflightDone THEN UNCHANGED <<inflightDone, inflight>>
     ELSE /\ inflightDone' = inflightDone \cup {s}
          /\ inflight' = IF inflight > 0 THEN inflight - 1 ELSE inflight

\* A write can fail only once the transport is gone.
WriteMayFail == connDown \cap {"closed", "readerExited"} # {}

-----------------------------------------------------------------------------
(* The application: NewStream, the sender, the receiver, the closer *)

\* Conn.NewStream up to smu: the flags are read without it.
NewStreamCheck(r) ==
  /\ snd[r] = "start"
  /\ connDown \cap {"closed", "draining"} = {} /\ goAway = NoGoAway
  /\ snd' = [snd EXCEPT ![r] = "opening"]
  /\ UNCHANGED <<flags, structs, conn, refs, connDown, goAway, rcv, told,
                 cls, ret, rd, victims, bg, sh, faults>>

\* NewStream under smu, with allocStream: the slot is taken, the struct comes
\* from the pool or is new, and the StreamRef records its lifetime.
NewStreamAlloc(r) ==
  /\ snd[r] = "opening" /\ smu = None
  /\ \/ /\ inflight >= MaxStreams
        /\ snd' = [snd EXCEPT ![r] = "start"]
        /\ UNCHANGED <<pool, fresh, released, ref, refGen, inflight>>
     \/ /\ inflight < MaxStreams
        /\ \E s \in pool \cup fresh :
             /\ pool' = pool \ {s} /\ fresh' = fresh \ {s}
             /\ released' = released \ {s}
             /\ ref' = [ref EXCEPT ![r] = s]
             /\ refGen' = [refGen EXCEPT ![r] = gen[s]]
        /\ inflight' = inflight + 1
        /\ snd' = [snd EXCEPT ![r] = "ready"]
  /\ UNCHANGED <<localEnded, remoteEnded, closedSet, inflightDone, appClosed,
                 connDone, recycleWanted, signalled, eventsClosed, gen, sid,
                 events, recvActive, streams, nextID, smu, connDown, goAway,
                 rcv, told, cls, ret, rd, victims, bg, sh, faults>>

\* The door check of every send: the lifetime, then closed or half-closed.
DoorOpen(r) == Live(r) /\ ref[r] \notin closedSet \cup localEnded

AfterHeaders(r, last) == snd' = [snd EXCEPT ![r] = IF last THEN "end" ELSE "sent"]
SendFails(r) == snd' = [snd EXCEPT ![r] = "failed"]

\* sendHeadersWithPriority and writeHeadersWithPriority: assignStreamIDLocked
\* gives the stream its id and registers it, then the block is written.  Nobody
\* else touches the struct between the door and the registration.
SendHeaders(r, last) ==
  /\ snd[r] = "ready" /\ smu = None /\ DoorOpen(r)
  /\ \/ /\ "closed" \in connDown
        /\ SendFails(r) /\ UNCHANGED <<sid, nextID, streams>>
     \/ /\ sid' = [sid EXCEPT ![ref[r]] = nextID]
        /\ streams' = [streams EXCEPT ![nextID] = ref[r]]
        /\ nextID' = nextID + 1
        /\ AfterHeaders(r, last) \/ (WriteMayFail /\ SendFails(r))
  /\ UNCHANGED <<flags, gen, events, recvActive, pool, fresh, inflight, smu,
                 refs, connDown, goAway, rcv, told, cls, ret, rd, victims, bg, sh, faults>>

\* sendData at the door; the send may then park waiting for credit.
SendData(r, last) ==
  /\ snd[r] \in {"sent", "ended"} /\ ret[r].pc = "none" /\ DoorOpen(r)
  /\ snd' = [snd EXCEPT ![r] = IF last THEN "lastdata" ELSE "data"]
  /\ UNCHANGED <<flags, structs, conn, refs, connDown, goAway, rcv, told, cls, ret,
                 rd, victims, bg, sh, faults>>

\* writeDataVec: the lifetime and closed are checked again once the credit is
\* there, just before the frame is written.
WriteDataVec(r) ==
  /\ snd[r] \in {"data", "lastdata"}
  /\ \/ /\ Live(r) /\ ref[r] \notin closedSet /\ "closed" \notin connDown
        /\ AfterHeaders(r, snd[r] = "lastdata")
     \/ /\ ~Live(r) \/ ref[r] \in closedSet \/ WriteMayFail
        /\ SendFails(r)
  /\ UNCHANGED <<flags, structs, conn, refs, connDown, goAway, rcv, told, cls, ret,
                 rd, victims, bg, sh, faults>>

\* endLocalAndRetire: latch the local end, without looking at the lifetime
\* again, and take the id for markStreamDone in the same section.
EndLocal(r) ==
  /\ snd[r] = "end"
  /\ localEnded' = localEnded \cup {ref[r]}
  /\ ret' = [ret EXCEPT ![r] = [pc |-> "mark", id |-> sid[ref[r]], s |-> None]]
  /\ snd' = [snd EXCEPT ![r] = "ended"]
  /\ UNCHANGED <<remoteEnded, closedSet, inflightDone, appClosed, connDone,
                 released, recycleWanted, signalled, eventsClosed, structs,
                 conn, refs, connDown, goAway, rcv, told, cls, rd,
                 victims, bg, sh, faults>>

\* Stream.recv: register as a reader, unless the handle is stale or closed.
RecvEnter(r) ==
  /\ rcv[r] = "idle" /\ ref[r] # None
  /\ Live(r) /\ ref[r] \notin released
  /\ recvActive' = [recvActive EXCEPT ![ref[r]] = @ + 1]
  /\ rcv' = [rcv EXCEPT ![r] = "inside"]
  /\ UNCHANGED <<flags, gen, sid, events, pool, fresh, conn, refs, connDown, goAway,
                 snd, told, cls, ret, rd, victims, bg, sh, faults>>

\* The select of recv returns a buffered event if there is one, else what a
\* closed channel or signal stands for, or the caller's context ends; recvLeave
\* follows, and the last reader out performs a recycle deferred to it.
RecvReturn(r) ==
  LET s == ref[r] IN
  /\ rcv[r] = "inside"
  /\ \/ /\ events[s] # << >>
        /\ told' = IF Head(events[s]).last THEN told \cup {r} ELSE told
        /\ RecvLeave(s, [events EXCEPT ![s] = Tail(@)])
     \/ /\ events[s] = << >> /\ s \in signalled \cup eventsClosed
        /\ told' = told \cup {r}
        /\ RecvLeave(s, events)
     \/ UNCHANGED told /\ RecvLeave(s, events)
  /\ rcv' = [rcv EXCEPT ![r] = "idle"]
  /\ UNCHANGED <<released, fresh, conn, refs, connDown, goAway, snd, cls, ret, rd,
                 victims, bg, sh, faults>>

\* The lifetime check and the released CAS of close.
CloseAdmits(r) == Live(r) /\ ref[r] \notin released

\* Stream.close, its Stream.mu section.  It may be called again later: a stale
\* or repeated call changes nothing.  It does not overlap the first SendHeaders
\* of the same stream: a stream's methods are called one at a time.
RefClose(r) ==
  LET s == ref[r]
      bothEnded == s \in localEnded \cap remoteEnded
  IN
  /\ cls[r] \in {"open", "done"} /\ s # None
  /\ CloseAdmits(r)
  /\ released' = released \cup {s}
  /\ appClosed' = appClosed \cup {s}
  /\ closedSet' = IF bothEnded THEN closedSet ELSE closedSet \cup {s}
  /\ cls' = [cls EXCEPT ![r] = IF s \in closedSet THEN "done"
                               ELSE IF s \in connDone THEN "recycle"
                               ELSE IF bothEnded THEN "done"
                               ELSE "rst"]
  /\ UNCHANGED <<localEnded, remoteEnded, inflightDone, connDone, recycleWanted,
                 signalled, eventsClosed, structs, conn, refs, connDown, goAway,
                 snd, rcv, told, ret, rd, victims, bg, sh, faults>>

\* close after connDone: the connection let go first, so Close recycles.
CloseRecycle(r) ==
  /\ cls[r] = "recycle"
  /\ Recycle(ref[r])
  /\ cls' = [cls EXCEPT ![r] = "done"]
  /\ UNCHANGED <<recvActive, released, fresh, conn, refs, connDown, goAway, snd,
                 rcv, told, ret, rd, victims, bg, sh, faults>>

\* writeRSTStreamID: a closed connection or a failed write keeps the slot.
WriteRST(id) ==
  \/ "closed" \notin connDown /\ ReleaseInflight(id)
  \/ WriteMayFail /\ UNCHANGED <<inflightDone, inflight, streams>>

\* close of an unfinished stream: writeRSTStream(CANCEL).
CloseRST(r) ==
  /\ cls[r] = "rst" /\ smu = None
  /\ IF sid[ref[r]] = 0 THEN ReleaseUnassigned(ref[r]) ELSE WriteRST(sid[ref[r]])
  /\ cls' = [cls EXCEPT ![r] = "done"]
  /\ UNCHANGED <<localEnded, remoteEnded, closedSet, appClosed, connDone, released,
                 recycleWanted, signalled, eventsClosed, structs, nextID, smu,
                 refs, connDown, goAway, snd, rcv, told, ret, rd, victims,
                 bg, sh, faults>>

-----------------------------------------------------------------------------
(* markStreamDone, called by the senders and by the frame reader *)

\* "Wake Shutdown when the conn is fully drained."
WakeShutdown(count) ==
  IF "draining" \in connDown /\ count = 0 THEN connDown \cup {"drainDone"} ELSE connDown

\* Up to the end of the first Stream.mu section; the slot and the registry entry
\* go with it.  smu stays held when there is a second section to come.
MarkDone(a) ==
  LET id == ret[a].id
      s == IF id \in Ids THEN streams[id] ELSE None
  IN
  /\ ret[a].pc = "mark" /\ smu = None
  /\ IF s # None /\ s \in (localEnded \cap remoteEnded) \ inflightDone
     THEN /\ inflightDone' = inflightDone \cup {s}
          /\ inflight' = IF inflight > 0 THEN inflight - 1 ELSE inflight
          /\ streams' = [streams EXCEPT ![id] = None]
          /\ smu' = a
          /\ ret' = [ret EXCEPT ![a] = [pc |-> "meet", id |-> id, s |-> s]]
          /\ UNCHANGED connDown
     ELSE /\ ret' = [ret EXCEPT ![a] = NoRetire]
          /\ connDown' = IF s = None THEN connDown ELSE WakeShutdown(inflight)
          /\ UNCHANGED <<inflightDone, inflight, streams, smu>>
  /\ UNCHANGED <<localEnded, remoteEnded, closedSet, appClosed, connDone, released,
                 recycleWanted, signalled, eventsClosed, structs, nextID, refs,
                 goAway, snd, rcv, told, cls, rd, victims, bg, sh, faults>>

\* The second Stream.mu section: the rendezvous with Close.  A stream that was
\* reset or overflowed is never pooled.
Rendezvous(a) ==
  LET s == ret[a].s IN
  /\ ret[a].pc = "meet"
  /\ connDone' = IF s \in closedSet \cup appClosed THEN connDone
                 ELSE connDone \cup {s}
  /\ ret' = [ret EXCEPT ![a] = IF s \in appClosed \ closedSet
                               THEN [@ EXCEPT !.pc = "recycle"] ELSE NoRetire]
  /\ connDown' = WakeShutdown(inflight)
  /\ smu' = None
  /\ UNCHANGED <<localEnded, remoteEnded, closedSet, inflightDone, appClosed,
                 released, recycleWanted, signalled, eventsClosed, structs,
                 streams, inflight, nextID, refs, goAway, snd, rcv,
                 told, cls, rd, victims, bg, sh, faults>>

\* markStreamDone's recycle, after smu is released.
MarkRecycle(a) ==
  /\ ret[a].pc = "recycle"
  /\ Recycle(ret[a].s)
  /\ ret' = [ret EXCEPT ![a] = NoRetire]
  /\ UNCHANGED <<recvActive, released, fresh, conn, refs, connDown, goAway, snd,
                 rcv, told, cls, rd, victims, bg, sh, faults>>

-----------------------------------------------------------------------------
(* The frame reader *)

Fault == faults < MaxFaults /\ faults' = faults + 1
ReaderFree == rd.pc = "idle" /\ ret["reader"].pc = "none" /\ victims = {}
Retire(id) == ret' = [ret EXCEPT !["reader"] = [pc |-> "mark", id |-> id, s |-> None]]

\* A frame for a stream in the registry, looked up under smu.  "data" leaves the
\* response open, "last" ends it, "empty" ends it and carries nothing; the peer
\* sends these only until it has ended the response.  "credit" is WINDOW_UPDATE,
\* "rst" is RST_STREAM, and "bad" any frame answered with a stream error, DATA
\* after the end included.  Frames for unregistered streams are discarded.
ReadFrame(kind, id) ==
  /\ ReaderFree /\ "readerExited" \notin connDown /\ smu = None
  /\ id < nextID /\ streams[id] # None
  /\ IF kind \in {"data", "last", "empty"}
     THEN streams[id] \notin remoteEnded /\ UNCHANGED faults
     ELSE Fault
  /\ rd' = [pc |-> IF kind = "bad" THEN "lookup" ELSE "deliver",
            kind |-> kind, id |-> id, s |-> streams[id]]
  /\ UNCHANGED <<flags, structs, conn, refs, connDown, goAway, snd, rcv,
                 told, cls, ret, victims, bg, sh>>

\* Mutant of Overflow: nothing tells the receiver.
OverflowSilent(s) ==
  /\ closedSet' = closedSet \cup {s}
  /\ bg' = IF s \in closedSet THEN bg ELSE bg \cup {s}
  /\ UNCHANGED <<events, signalled>>

\* pushLocked on a full channel: close the stream, start the goroutine that
\* resets it and tell the receiver, unless it was closed already.
OverflowReset(s) ==
  /\ closedSet' = closedSet \cup {s}
  /\ IF s \in closedSet THEN UNCHANGED <<bg, signalled>>
     ELSE bg' = bg \cup {s} /\ signalled' = signalled \cup {s}
  /\ UNCHANGED events

\* OnData and emitHeaderBlock: deliverEnd, which trusts the lookup and does not
\* compare the id again, then markStreamDone if the response is over.
OnData ==
  LET s == rd.s
      last == rd.kind # "data"
  IN
  /\ rd.pc = "deliver" /\ rd.kind \in {"data", "last", "empty"}
  /\ remoteEnded' = IF last THEN remoteEnded \cup {s} ELSE remoteEnded
  /\ IF HasRoom(s)
     THEN Push(s, rd.id, last) /\ UNCHANGED <<closedSet, signalled, bg>>
     ELSE IF rd.kind = "empty"
     THEN signalled' = signalled \cup {s} /\ UNCHANGED <<events, closedSet, bg>>
     ELSE OverflowReset(s)
  /\ IF last THEN Retire(rd.id) ELSE UNCHANGED ret
  /\ rd' = NoFrame
  /\ UNCHANGED <<localEnded, inflightDone, appClosed, connDone, released,
                 recycleWanted, eventsClosed, gen, sid, recvActive, pool, fresh,
                 conn, refs, connDown, goAway, snd, rcv, told, cls,
                 victims, sh, faults>>

resetRest == <<inflightDone, appClosed, connDone, released, recycleWanted,
               eventsClosed, gen, sid, recvActive, pool, fresh, conn, refs,
               connDown, snd, rcv, told, cls, bg, sh>>
untouched == <<events, signalled, remoteEnded, localEnded, closedSet>>

\* Mutant of OnRSTStream: the struct found by the lookup is taken to be the one.
OnRSTStreamUngated ==
  /\ rd.pc = "deliver" /\ rd.kind = "rst"
  /\ EndWithReset(rd.s, rd.id) /\ Retire(rd.id)
  /\ rd' = NoFrame
  /\ UNCHANGED <<resetRest, faults, goAway, victims>>

\* OnRSTStream.
OnRSTStream ==
  /\ rd.pc = "deliver" /\ rd.kind = "rst"
  /\ IF sid[rd.s] = rd.id
     THEN EndWithReset(rd.s, rd.id) /\ Retire(rd.id)
     ELSE UNCHANGED <<untouched, ret>>
  /\ rd' = NoFrame
  /\ UNCHANGED <<resetRest, faults, goAway, victims>>

\* onWindowUpdate: the send window of the struct found by the lookup is credited
\* (the windows themselves are not modelled here).
OnWindowUpdate ==
  /\ rd.pc = "deliver" /\ rd.kind = "credit"
  /\ rd' = NoFrame
  /\ UNCHANGED <<untouched, resetRest, faults, ret, goAway, victims>>

\* resetStreamOnError: look the id up again, reset the struct if it is still
\* that stream's, then write RST_STREAM whatever was found.
ErrorLookup ==
  /\ rd.pc = "lookup" /\ smu = None
  /\ rd' = [rd EXCEPT !.s = streams[rd.id],
                      !.pc = IF streams[rd.id] = None THEN "wire" ELSE "error"]
  /\ UNCHANGED <<untouched, resetRest, faults, ret, goAway, victims>>

ErrorReset ==
  /\ rd.pc = "error"
  /\ IF sid[rd.s] = rd.id THEN EndWithReset(rd.s, rd.id) ELSE UNCHANGED untouched
  /\ rd' = [rd EXCEPT !.pc = "wire"]
  /\ UNCHANGED <<resetRest, faults, ret, goAway, victims>>

ErrorRST ==
  /\ rd.pc = "wire" /\ smu = None
  /\ WriteRST(rd.id)
  /\ rd' = NoFrame
  /\ UNCHANGED <<localEnded, remoteEnded, closedSet, appClosed, connDone, released,
                 recycleWanted, signalled, eventsClosed, structs, nextID, smu,
                 refs, connDown, goAway, snd, rcv, told, cls, ret,
                 victims, bg, sh, faults>>

\* onGoAwayReceived: record the last id, never raising it, and snapshot the
\* streams above it under smu.
OnGoAway(last) ==
  /\ ReaderFree /\ "readerExited" \notin connDown /\ smu = None
  /\ goAway' = IF last > goAway THEN goAway ELSE last
  /\ victims' = {<<i, streams[i]>> : i \in {j \in Ids : j > goAway' /\ streams[j] # None}}
  /\ Fault
  /\ UNCHANGED <<untouched, resetRest, ret, rd>>

\* The loop over the snapshot, one victim.
GoAwayVictim ==
  /\ rd.pc = "idle" /\ ret["reader"].pc = "none"
  /\ \E v \in victims :
       /\ IF sid[v[2]] = v[1]
          THEN EndWithReset(v[2], v[1]) /\ Retire(v[1])
          ELSE UNCHANGED <<untouched, ret>>
       /\ victims' = victims \ {v}
  /\ UNCHANGED <<resetRest, faults, goAway, rd>>

\* readerLoop ends on a connection error or a dead transport: shutdownStreams.
ReaderLoopExit ==
  LET open == {s \in Structs : \E i \in Ids : streams[i] = s} IN
  /\ ReaderFree /\ "readerExited" \notin connDown /\ smu = None
  /\ events' = [s \in Structs |-> IF s \in open /\ HasRoom(s)
                  THEN Append(events[s], [id |-> sid[s], last |-> TRUE])
                  ELSE events[s]]
  /\ signalled' = signalled \cup {s \in open : ~HasRoom(s)}
  /\ eventsClosed' = eventsClosed \cup open
  /\ Fault
  /\ connDown' = connDown \cup {"readerExited"}
  /\ UNCHANGED <<localEnded, remoteEnded, closedSet, inflightDone, appClosed,
                 connDone, released, recycleWanted, gen, sid, recvActive, pool,
                 fresh, conn, refs, goAway, snd, rcv, told, cls, ret,
                 rd, victims, bg, sh>>

-----------------------------------------------------------------------------
(* The background goroutine of an overflow, Close and Shutdown of the Conn *)

\* writeRSTStreamBestEffort: a closed connection ends it; the outcome of the
\* write does not matter.
OverflowRST(s) ==
  /\ s \in bg /\ smu = None
  /\ bg' = bg \ {s}
  /\ \/ ReleaseInflight(sid[s])
     \/ "closed" \in connDown /\ UNCHANGED <<inflightDone, inflight, streams>>
  /\ UNCHANGED <<localEnded, remoteEnded, closedSet, appClosed, connDone, released,
                 recycleWanted, signalled, eventsClosed, structs, nextID, smu,
                 refs, connDown, goAway, snd, rcv, told, cls, ret, rd,
                 victims, sh, faults>>

downRest == <<flags, structs, conn, refs, goAway, snd, rcv, told, cls,
              ret, rd, victims, bg>>

ConnShut ==
  /\ "closed" \notin connDown
  /\ connDown' = connDown \cup {"closed"}
  /\ Fault
  /\ UNCHANGED <<downRest, sh>>

\* Shutdown: mark the connection draining, ...
ShutdownBegin ==
  /\ sh = "none" /\ connDown \cap {"closed", "draining"} = {}
  /\ connDown' = connDown \cup {"draining"}
  /\ sh' = "check"
  /\ Fault
  /\ UNCHANGED downRest

\* ... read the in-flight count under smu and close if it is zero, ...
ShutdownCheck ==
  /\ sh = "check" /\ smu = None
  /\ IF inflight = 0 THEN sh' = "done" /\ connDown' = connDown \cup {"closed"}
                     ELSE sh' = "wait" /\ UNCHANGED connDown
  /\ UNCHANGED <<downRest, faults>>

\* ... else wait for drainDone or the timer, then close.
ShutdownWake(timeout) ==
  /\ sh = "wait" /\ (timeout \/ "drainDone" \in connDown)
  /\ sh' = "done" /\ connDown' = connDown \cup {"closed"}
  /\ UNCHANGED <<downRest, faults>>

Sender(r) == NewStreamCheck(r) \/ NewStreamAlloc(r) \/ WriteDataVec(r) \/ EndLocal(r)
             \/ \E last \in BOOLEAN : SendHeaders(r, last) \/ SendData(r, last)
Receiver(r) == RecvEnter(r) \/ RecvReturn(r)
Closer(r) == RefClose(r) \/ CloseRecycle(r) \/ CloseRST(r)
Retiring(a) == MarkDone(a) \/ Rendezvous(a) \/ MarkRecycle(a)
Kinds == {"data", "last", "empty", "credit", "rst", "bad"}
Reader == OnData \/ OnRSTStream \/ OnWindowUpdate \/ ErrorLookup \/ ErrorReset
          \/ ErrorRST \/ GoAwayVictim \/ ReaderLoopExit
          \/ (\E k \in Kinds, i \in Ids : ReadFrame(k, i))
          \/ (\E last \in 0 .. Cardinality(Requests) : OnGoAway(last))
Teardown == ConnShut \/ ShutdownBegin \/ ShutdownCheck
            \/ \E timeout \in BOOLEAN : ShutdownWake(timeout)

StreamsNext ==
  \/ \E r \in Requests : Sender(r) \/ Receiver(r) \/ Closer(r)
  \/ \E a \in Actors : Retiring(a)
  \/ \E s \in Structs : OverflowRST(s)
  \/ Reader
  \/ Teardown

StreamsSpec == StreamsInit /\ [][StreamsNext]_streamsVars

-----------------------------------------------------------------------------
(* Properties *)

InUse == Structs \ (pool \cup fresh)

\* Every variable keeps its type.
StreamsTypeOK ==
  /\ gen \in [Structs -> Nat] /\ sid \in [Structs -> Nat]
  /\ events \in [Structs -> Seq([id : Nat, last : BOOLEAN])]
  /\ recvActive \in [Structs -> Nat]
  /\ localEnded \subseteq Structs /\ remoteEnded \subseteq Structs
  /\ closedSet \subseteq Structs /\ inflightDone \subseteq Structs
  /\ appClosed \subseteq Structs /\ connDone \subseteq Structs
  /\ released \subseteq Structs /\ recycleWanted \subseteq Structs
  /\ signalled \subseteq Structs /\ eventsClosed \subseteq Structs
  /\ pool \subseteq Structs /\ fresh \subseteq Structs /\ bg \subseteq Structs
  /\ streams \in [Ids -> Structs \cup {None}]
  /\ inflight \in Nat /\ nextID \in Nat /\ smu \in Actors \cup {None}
  /\ connDown \subseteq {"closed", "draining", "drainDone", "readerExited"}
  /\ goAway \in 0 .. NoGoAway
  /\ ref \in [Requests -> Structs \cup {None}] /\ refGen \in [Requests -> Nat]
  /\ snd \in [Requests -> {"start", "opening", "ready", "sent", "data",
                           "lastdata", "end", "ended", "failed"}]
  /\ told \subseteq Requests
  /\ rcv \in [Requests -> {"idle", "inside"}]
  /\ cls \in [Requests -> {"open", "recycle", "rst", "done"}]
  /\ ret \in [Actors -> [pc : {"none", "mark", "meet", "recycle"},
                         id : Nat, s : Structs \cup {None}]]
  /\ rd \in [pc : {"idle", "deliver", "lookup", "error", "wire"},
             kind : Kinds \cup {"none"}, id : Nat, s : Structs \cup {None}]
  /\ victims \subseteq Ids \X Structs
  /\ sh \in {"none", "check", "wait", "done"} /\ faults \in 0 .. MaxFaults

\* The in-flight count NewStream compares with the limit is exactly the number
\* of structs handed out whose slot has not been given back, however the
\* lifetime ends: END_STREAM both ways, Close, a reset from either side, an
\* overflow, a GOAWAY, or several of these at once (Conn.inflight against
\* Stream.inflightDone).  And Close gives the slot back: when it has returned on
\* a live connection and nobody is still at work on the stream, the stream
\* holds no slot.
SlotsExact ==
  /\ inflight = Cardinality(InUse \ inflightDone)
  /\ \A r \in Requests :
       (/\ cls[r] = "done" /\ Live(r)
        /\ ref[r] \notin bg /\ ret[r].pc = "none" /\ ReaderFree
        /\ connDown \cap {"closed", "readerExited"} = {})
         => ref[r] \in inflightDone

\* Nothing of one lifetime of a struct reaches the next.  An event in a stream's
\* channel was sent by the peer on that stream.  The registry maps an id to the
\* stream with that id, in its current lifetime, still holding its slot.  And code
\* that acts on a struct without comparing its lifetime is only reached while the
\* struct is in the lifetime meant: deliverEnd after the lookup, endLocalAndRetire
\* after the write, writeRSTStream after Close, Recv after it registered, and the
\* background RST_STREAM of an overflow.  A struct is put in the pool once, and by
\* then nobody is left who will touch it: no reader inside Recv, no registry
\* entry, no recycle still to run.
LifetimesApart ==
  /\ \A s \in Structs : \A k \in 1 .. Len(events[s]) : events[s][k].id = sid[s]
  /\ \A i \in Ids : streams[i] # None =>
       sid[streams[i]] = i /\ streams[i] \in InUse \ inflightDone
  /\ rd.pc = "deliver" /\ rd.kind \in {"data", "last", "empty"} => sid[rd.s] = rd.id
  /\ \A r \in Requests :
       snd[r] = "end" \/ cls[r] \in {"rst", "recycle"} \/ rcv[r] # "idle"
         => Live(r) /\ ref[r] \in InUse
  /\ bg \subseteq closedSet \cap InUse
  /\ \A s \in pool \cup fresh :
       /\ recvActive[s] = 0 /\ events[s] = << >> /\ sid[s] = 0
       /\ s \notin localEnded \cup remoteEnded \cup closedSet \cup inflightDone
            \cup appClosed \cup connDone \cup recycleWanted \cup signalled
            \cup eventsClosed \cup bg
       /\ \A a \in Actors : ret[a].pc \in {"meet", "recycle"} => ret[a].s # s

\* Once the response is over, the receiver can find out: it has been told, or
\* the terminal event is in the channel, or a signal stands for the event that
\* did not fit (deliverEnd, pushLocked, endWithReset, shutdownStreams).
EndIsVisible ==
  \A r \in Requests :
    ref[r] \in remoteEnded \ appClosed /\ Live(r) =>
      \/ r \in told
      \/ ref[r] \in signalled \cup eventsClosed
      \/ \E k \in 1 .. Len(events[ref[r]]) : events[ref[r]][k].last

\* "drainDone is closed when the inflight count reaches zero, allowing Shutdown
\* to wake up": Shutdown never waits on its timer with no stream in flight.
DrainWakes == sh = "wait" /\ inflight = 0 /\ smu = None => "drainDone" \in connDown

\* "Registry entry gone: the reader can no longer look this struct up, so this is
\* the connection side's final contact": a WINDOW_UPDATE is credited to the
\* stream it names and not to the one that claimed the struct since.
CreditIsOwn ==
  rd.pc = "deliver" /\ rd.kind = "credit" => sid[rd.s] \in {0, rd.id}
=============================================================================
