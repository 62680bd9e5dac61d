---------------------------- MODULE QuicTransfer ----------------------------
(***************************************************************************)
(* A response travels from one QUIC endpoint to another over a network     *)
(* that loses, duplicates and reorders: quic/send.go, stream.go,           *)
(* recvflow.go, loss.go, pto.go, cc.go, ack_tracker.go, conn_seal.go and   *)
(* the frame handlers of conn_recv.go.  Both ends run the same engine: its *)
(* acknowledgements, loss detection, probe timeouts and congestion window. *)
(* "snd" writes the stream, "rcv" is the client that opened it and has     *)
(* sent its request.  Bytes are counted in units of one packet's payload;  *)
(* time appears as the order in which packets were sent and as timers that *)
(* may expire.  Every critical section of Conn.mu is one action.           *)
(***************************************************************************)
EXTENDS Integers, FiniteSets, Sequences, SequencesExt

CONSTANTS
  Scenarios,       \* bounds: the units the sending application writes, with the number
                   \* of faults: packets lost, duplicated or overtaken, timers that
                   \* fire early, applications that give up
  StreamWindow,    \* DefaultStreamRecvWindow
  ConnWindow,      \* DefaultConnRecvWindow
  InitialCwnd,     \* kInitialWindow
  MinCwnd,         \* kMinimumWindow
  PacketThreshold, \* kPacketThreshold
  MaxBackoff       \* maxPTOBackoff

VARIABLES
  ep,      \* per end: the engine's send and receive state of the application space
  net,     \* per end: the packets it sent that are under way, in order
  tx,      \* the Stream at "snd", with the connection's send limit
  rx,      \* the Stream at "rcv", with the connection's receive limit
  writer,  \* the goroutine that loops over Send and WaitSendable
  reader,  \* the goroutine that loops over Recv, RecvState and WaitReadable
  life,    \* "open", "failed" (CONNECTION_CLOSE by fail) or "gaveUp" (ErrNoProgress)
  faults   \* how many faults may still happen

xferVars == <<ep, net, tx, rx, writer, reader, life, faults>>

Ends == {"snd", "rcv"}
Peer(e) == IF e = "snd" THEN "rcv" ELSE "snd"

Larger(a, b)  == IF a > b THEN a ELSE b
Least(a, b)   == IF a < b THEN a ELSE b
Maximum(S)    == CHOOSE x \in S : \A y \in S : y <= x

\* retransFrame: what a packet carries that is sent again when it is lost.
NoFrame == [kind |-> "none", lo |-> 0, len |-> 0, fin |-> FALSE]
StreamFrame(lo, len, fin) == [kind |-> "stream", lo |-> lo, len |-> len, fin |-> fin]
ResetFrame(size) == [NoFrame EXCEPT !.kind = "reset", !.lo = size]
StopFrame == [NoFrame EXCEPT !.kind = "stop"]

\* Control frames, which are not: MAX_STREAM_DATA, MAX_DATA, the two BLOCKED, PING.
Ctrl(kind, limit) == <<kind, limit>>

\* A packet, and sentPacket for it.
Packet(n, frame, ctrl, ack) ==
  [pn |-> n, frame |-> frame, ctrl |-> ctrl, ack |-> ack,
   elicit |-> frame # NoFrame \/ ctrl # {}]
Record(p) == [p EXCEPT !.ack = {}]

-----------------------------------------------------------------------------
(* The engine of one end: operators from its state t to its next state.    *)

Fresh ==
  [pn |-> 0, sent |-> {}, largest |-> -1, queue |-> {}, ctrl |-> {}, grew |-> FALSE,
   inflight |-> 0, cwnd |-> InitialCwnd, ssthresh |-> 1000, credit |-> 0, recovery |-> 0,
   pto |-> 0, probe |-> FALSE, exempt |-> FALSE,
   got |-> {}, owed |-> FALSE, atOnce |-> FALSE, count |-> 0, deferred |-> FALSE]

Elicits(S) == {p \in S : p.elicit}

\* onPacketSent for the packets of out, which sealPacket numbered.
Sealed(t, out) ==
  [t EXCEPT !.pn = @ + Cardinality(out), !.sent = @ \cup {Record(p) : p \in out},
            !.inflight = @ + Cardinality(Elicits(out))]

\* removeInFlight
Landed(t, S) ==
  [t EXCEPT !.inflight = Larger(@ - Cardinality(Elicits(S)), 0),
            !.grew = @ \/ Elicits(S) # {}]

\* ackTracker.receive; got stands for the ranges.
Receive(t, n, elicit) ==
  LET count == IF elicit THEN t.count + 1 ELSE t.count
      gap   == t.got # {} /\ n # Maximum(t.got) + 1
  IN [t EXCEPT !.got = @ \cup {n}, !.owed = @ \/ elicit, !.count = count,
               !.atOnce = @ \/ (elicit /\ (count >= 2 \/ gap))]

\* ackDue and updateAppAckDeferral
AckDue(t) == t.owed /\ (t.atOnce \/ ~t.deferred)
Defer(t)  == IF ~t.owed THEN t ELSE [t EXCEPT !.deferred = ~t.atOnce]

\* ackTracker.acked
Acked(t) == [t EXCEPT !.owed = FALSE, !.atOnce = FALSE, !.count = 0, !.deferred = FALSE]

\* The congestion window after n acknowledged packets may make it grow.
Window(t, n) ==
  LET w[i \in 0..n] ==
        IF i = 0 THEN [cwnd |-> t.cwnd, credit |-> t.credit]
        ELSE IF w[i - 1].cwnd < t.ssthresh THEN [w[i - 1] EXCEPT !.cwnd = @ + 1]
        ELSE IF w[i - 1].credit + 1 >= w[i - 1].cwnd
             THEN [cwnd   |-> w[i - 1].cwnd + 1,
                   credit |-> w[i - 1].credit + 1 - w[i - 1].cwnd]
        ELSE [w[i - 1] EXCEPT !.credit = @ + 1]
  IN w[n]

\* cwndLimited
CwndLimited(t, prior) ==
  prior >= t.cwnd \/ (t.cwnd < t.ssthresh /\ prior > t.cwnd \div 2)

\* onAckRange: onPacketAcked for each packet of the range, then sentSpace.ack.
OnAckRange(t, range, prior) ==
  LET hit    == {p \in t.sent : p.pn \in range}
      top    == Maximum(range)
      sample == top > t.largest /\ (\E p \in hit : p.pn = top) /\ Elicits(hit) # {}
      counts == {p \in Elicits(hit) : p.pn >= t.recovery}
      w      == Window(t, IF CwndLimited(t, prior) THEN Cardinality(counts) ELSE 0)
  IN [Landed(t, hit) EXCEPT
        !.sent = @ \ hit, !.largest = Larger(@, top), !.cwnd = w.cwnd, !.credit = w.credit,
        !.pto = IF sample THEN 0 ELSE @]

\* The ranges of an ACK frame, from the largest down (OnAck, OnAckRange, buildACK).
Ranges(S) ==
  LET RangeOf(n) == {m \in S : \A i \in Least(m, n)..Larger(m, n) : i \in S}
  IN SetToSortSeq({RangeOf(n) : n \in S}, LAMBDA A, B : Maximum(A) > Maximum(B))

OnAck(t, ack) ==
  FoldLeft(LAMBDA acc, range : OnAckRange(acc, range, t.inflight), t, Ranges(ack))

\* What detectLost finds lost: by the packet threshold, or sent before the cut
\* that the time threshold makes.
LostPackets(t, cut) ==
  {p \in t.sent : p.pn <= t.largest /\ (t.largest >= p.pn + PacketThreshold \/ p.pn < cut)}

\* onCongestionEvent, onPersistentCongestion
Congested(t, S, persistent) ==
  LET newest == Maximum({p.pn : p \in Elicits(S)})
      half   == t.cwnd \div 2
      once   == IF newest < t.recovery THEN t
                ELSE [t EXCEPT !.recovery = t.pn, !.ssthresh = half,
                               !.cwnd = Larger(half, MinCwnd), !.credit = 0]
  IN IF Elicits(S) = {} THEN t
     ELSE IF persistent THEN [once EXCEPT !.cwnd = MinCwnd, !.recovery = 0, !.credit = 0]
     ELSE once

\* Faulty variant: what a lost packet carried is not sent again.
DetectLostForgets(t, cut, persistent) ==
  LET S == LostPackets(t, cut)
  IN Congested([Landed(t, S) EXCEPT !.sent = @ \ S], S, persistent)

\* detectLost, but for the limits it makes "rcv" send again (Regranted).
DetectLost(t, cut, persistent) ==
  LET S == LostPackets(t, cut)
  IN Congested([Landed(t, S) EXCEPT
                  !.sent = @ \ S, !.queue = @ \cup ({p.frame : p \in S} \ {NoFrame})],
               S, persistent)

\* hasInFlight
HasInFlight(t) == Elicits(t.sent) # {}

\* onPTO with queueOldestProbe: the oldest packet with a frame is abandoned and
\* its frame queued; without one a PING is due.
OnPTO(t) ==
  LET framed == {p \in Elicits(t.sent) : p.frame # NoFrame}
      oldest == CHOOSE p \in framed : \A q \in framed : p.pn <= q.pn
      backed == [t EXCEPT !.pto = Least(@ + 1, MaxBackoff)]
  IN IF framed = {} THEN [backed EXCEPT !.probe = HasInFlight(t)]
     ELSE [Landed(backed, {oldest}) EXCEPT
             !.sent = @ \ {oldest}, !.queue = @ \cup {oldest.frame}, !.exempt = TRUE]

\* How many queued frames flushRetransmits sends: up to the window, one more for
\* a probe, and never more than an initial window at once.
Sendable(t) ==
  LET room == Larger(t.cwnd - t.inflight, 0)
  IN Least(Least(Cardinality(t.queue), InitialCwnd), IF t.exempt THEN room + 1 ELSE room)

\* flush: the queued frames fs, a packet each, then one packet with the owed
\* acknowledgement, the control frames and a probe.
FlushOut(t, fs) ==
  LET last == Packet(t.pn + Len(fs), NoFrame,
                     t.ctrl \cup (IF t.probe THEN {Ctrl("ping", 0)} ELSE {}),
                     IF t.owed THEN t.got ELSE {})
  IN [i \in 1..Len(fs) |-> Packet(t.pn + i - 1, fs[i], {}, {})]
       \o (IF AckDue(t) \/ t.ctrl # {} \/ t.probe THEN <<last>> ELSE <<>>)

FlushState(t, fs) ==
  LET more == AckDue(t) \/ t.ctrl # {} \/ t.probe
      s    == [Sealed(t, Range(FlushOut(t, fs))) EXCEPT
                 !.queue = @ \ Range(fs), !.ctrl = {}, !.probe = FALSE, !.exempt = FALSE]
  IN IF more /\ t.owed THEN Acked(s) ELSE s

\* The engine of e becomes t and flushes; the frames go out in any order.
Flush(e, t, sent) ==
  \E fs \in {f \in [1..Sendable(t) -> t.queue] : \A i, j \in DOMAIN f : f[i] = f[j] => i = j} :
    /\ ep' = [ep EXCEPT ![e] = FlushState(t, fs)]
    /\ net' = [sent EXCEPT ![e] = @ \o FlushOut(t, fs)]

\* sealAppToBatch, writeAppFrames, flushControl: one packet right away.
Write(e, t, p) ==
  /\ ep' = [ep EXCEPT ![e] = Sealed(t, {p})]
  /\ net' = [net EXCEPT ![e] = Append(@, p)]

-----------------------------------------------------------------------------
(* The sending stream.                                                     *)

Done == tx.fin \/ tx.reset

\* grantable, in units, without pacing (an empty bucket only delays Send).
Blocked(t) ==
  IF tx.offset = tx.max THEN "stream"
  ELSE IF tx.offset = tx.connMax THEN "conn"
  ELSE IF t.inflight >= t.cwnd THEN "cong"
  ELSE "none"

\* The writer runs, or WaitSendable has a token for it.
WriterRuns == life = "open" /\ (writer = "run" \/ (writer = "wait" /\ tx.ready))
TokenLeft  == tx.ready /\ writer = "run"

\* writeStreamFrame: the frame takes an owed acknowledgement along.
SendStreamFrame(len, fin) ==
  LET t == ep["snd"]
      p == Packet(t.pn, StreamFrame(tx.offset, len, fin), {}, IF t.owed THEN t.got ELSE {})
  IN /\ Write("snd", IF t.owed THEN Acked(t) ELSE t, p)
     /\ tx' = [tx EXCEPT !.offset = @ + len, !.fin = fin, !.ready = TokenLeft]
     /\ writer' = IF fin THEN "done" ELSE "run"

\* sendLocked with the next unit; the last one goes with the FIN.
Send ==
  /\ WriterRuns /\ ~Done
  /\ Blocked(ep["snd"]) = "none"
  /\ SendStreamFrame(1, tx.offset + 1 = tx.body)
  /\ UNCHANGED <<rx, reader, life, faults>>

\* sendLocked without credit: emitBlocked once for each limit, then WaitSendable.
SendBlocked ==
  /\ WriterRuns /\ ~Done
  /\ LET why   == Blocked(ep["snd"])
         limit == IF why = "stream" THEN tx.max ELSE tx.connMax
         p     == Packet(ep["snd"].pn, NoFrame, {Ctrl(why, limit)}, {})
     IN /\ why # "none"
        /\ IF why \in {"stream", "conn"} /\ tx.saidAt[why] # limit
           THEN /\ Write("snd", ep["snd"], p)
                /\ tx' = [tx EXCEPT !.saidAt[why] = limit, !.ready = TokenLeft]
           ELSE tx' = [tx EXCEPT !.ready = TokenLeft] /\ UNCHANGED <<ep, net>>
  /\ writer' = "wait"
  /\ UNCHANGED <<rx, reader, life, faults>>

\* sendLocked on a stream that STOP_SENDING reset: ErrStreamReset.
WriterStops ==
  /\ WriterRuns /\ tx.reset
  /\ writer' = "done"
  /\ UNCHANGED <<ep, net, tx, rx, reader, life, faults>>

\* scrubResetStreamData
Scrubbed(t) ==
  [t EXCEPT !.queue = {f \in @ : f.kind # "stream"},
            !.sent = {IF p.frame.kind = "stream" THEN [p EXCEPT !.frame = NoFrame] ELSE p : p \in @}]

ResetPacket(t) == Packet(t.pn, ResetFrame(tx.offset), {}, {})

\* Reset: the application gives the stream up.
ResetStream ==
  /\ life = "open" /\ writer # "done" /\ ~Done /\ faults > 0
  /\ Write("snd", Scrubbed(ep["snd"]), ResetPacket(ep["snd"]))
  /\ tx' = [tx EXCEPT !.reset = TRUE]
  /\ writer' = "done" /\ faults' = faults - 1
  /\ UNCHANGED <<rx, reader, life>>

\* The frames "snd" gets: MAX_STREAM_DATA, MAX_DATA and STOP_SENDING.
Limit(ctrl, kind, old) == Maximum({old} \cup {c[2] : c \in {d \in ctrl : d[1] = kind}})

OnSenderFrames(p) ==
  LET streamMax == IF Done THEN tx.max ELSE Limit(p.ctrl, "maxStream", tx.max)
      connMax   == Limit(p.ctrl, "maxData", tx.connMax)
      stopped   == p.frame = StopFrame /\ ~Done
  IN [tx EXCEPT !.max = streamMax, !.connMax = connMax, !.reset = @ \/ stopped,
                !.ready = @ \/ stopped \/ streamMax > tx.max \/ connMax > tx.connMax]

-----------------------------------------------------------------------------
(* The receiving stream.                                                   *)

\* recvStream.insert and absorb; pending holds the units beyond a gap.
Insert(x, f) ==
  LET end   == f.lo + f.len
      held  == x.pending \cup {o \in f.lo..end - 1 : o >= x.have}
      upto  == CHOOSE n \in x.have..tx.body : n \notin held /\ \A o \in x.have..n - 1 : o \in held
  IN [x EXCEPT !.have = upto, !.pending = {o \in held : o >= upto}]

\* complete
Complete(x) == x.fin /\ x.have = x.final /\ x.pending = {}

\* maybeRetire, with the request's FIN sent
Retire(x) == [x EXCEPT !.gone = @ \/ x.reset \/ Complete(x)]

\* chargeRecv with the final-size checks of receive and OnResetStream
Violates(x, f) ==
  LET end == f.lo + f.len
  IN /\ ~x.gone /\ f.kind \in {"stream", "reset"}
     /\ \/ end > x.max
        \/ end > x.highest /\ end > x.connMax
        \/ x.known /\ (end > x.final \/ ((f.fin \/ f.kind = "reset") /\ end # x.final))
        \/ (f.fin \/ f.kind = "reset") /\ end < x.highest

\* Faulty variant: a RESET_STREAM does not wake the reader.
OnReceiverFrameQuietReset(x, f) ==
  LET end == f.lo + f.len
      top == Larger(x.highest, end)
  IN IF x.gone THEN x
     ELSE IF f.kind = "stream"
     THEN Retire([Insert(IF f.fin THEN [x EXCEPT !.fin = TRUE, !.known = TRUE, !.final = end]
                                  ELSE x, f)
                    EXCEPT !.highest = top, !.ready = TRUE])
     ELSE IF f.kind = "reset"
     THEN Retire([x EXCEPT !.known = TRUE, !.final = end, !.highest = top, !.reset = TRUE])
     ELSE x

\* OnStream and OnResetStream on a stream that is still in the map.
OnReceiverFrame(x, f) ==
  LET end == f.lo + f.len
      top == Larger(x.highest, end)
  IN IF x.gone THEN x
     ELSE IF f.kind = "stream"
     THEN Retire([Insert(IF f.fin THEN [x EXCEPT !.fin = TRUE, !.known = TRUE, !.final = end]
                                  ELSE x, f)
                    EXCEPT !.highest = top, !.ready = TRUE])
     ELSE IF f.kind = "reset"
     THEN Retire([x EXCEPT !.known = TRUE, !.final = end, !.highest = top,
                           !.reset = TRUE, !.ready = TRUE])
     ELSE x

MoreWanted(x) == ~x.gone /\ ~x.fin /\ ~x.reset

\* regrantStreamLimit and regrantConnLimit: the answer to a BLOCKED that is behind.
Answered(t, x, ctrl) ==
  [t EXCEPT !.ctrl = @
     \cup {Ctrl("maxStream", x.max) : c \in {d \in ctrl : d[1] = "stream" /\ d[2] < x.max /\ MoreWanted(x)}}
     \cup {Ctrl("maxData", x.connMax) : c \in {d \in ctrl : d[1] = "conn" /\ d[2] < x.connMax}}]

\* regrantAfterLoss
Regranted(t, x) ==
  [t EXCEPT !.ctrl = @
     \cup (IF x.grantedConn THEN {Ctrl("maxData", x.connMax)} ELSE {})
     \cup (IF x.granted /\ MoreWanted(x) THEN {Ctrl("maxStream", x.max)} ELSE {})]

\* onStreamConsumed: new limits once half a window is used.
Consumed(x) ==
  LET y          == [x EXCEPT !.base = x.have]
      wantStream == y.base + StreamWindow
      wantConn   == y.base + ConnWindow
      moreStream == ~x.fin /\ ~x.reset /\ wantStream >= x.max + StreamWindow \div 2
      moreConn   == wantConn >= x.connMax + ConnWindow \div 2
  IN [y EXCEPT !.max = IF moreStream THEN wantStream ELSE @, !.granted = @ \/ moreStream,
               !.connMax = IF moreConn THEN wantConn ELSE @, !.grantedConn = @ \/ moreConn]

\* The reader runs, or WaitReadable has a token for it.
ReaderRuns == life = "open" /\ (reader = "run" \/ (reader = "wait" /\ rx.ready))
Awake(x)   == [x EXCEPT !.ready = @ /\ reader = "run"]

\* recvLocked with data to read; flushControl sends the grants right away.
Recv ==
  /\ ReaderRuns /\ rx.have > rx.base
  /\ rx' = Consumed(Awake(rx))
  /\ LET t == [ep["rcv"] EXCEPT !.ctrl = @
                 \cup (IF rx'.max # rx.max THEN {Ctrl("maxStream", rx'.max)} ELSE {})
                 \cup (IF rx'.connMax # rx.connMax THEN {Ctrl("maxData", rx'.connMax)} ELSE {})]
     IN IF t.ctrl = {} THEN UNCHANGED <<ep, net>>
        ELSE Write("rcv", [t EXCEPT !.ctrl = {}], Packet(t.pn, NoFrame, t.ctrl, {}))
  /\ reader' = "run"
  /\ UNCHANGED <<tx, writer, life, faults>>

\* Recv finds nothing: RecvState ends the loop or WaitReadable parks it.
RecvNothing ==
  /\ ReaderRuns /\ rx.have = rx.base
  /\ rx' = Awake(rx)
  /\ reader' = IF rx.reset \/ Complete(rx) THEN "done" ELSE "wait"
  /\ UNCHANGED <<ep, net, tx, writer, life, faults>>

\* StopSending: the application gives the response up.
StopSending ==
  /\ life = "open" /\ reader # "done" /\ ~rx.reset /\ faults > 0
  /\ rx' = Retire([rx EXCEPT !.reset = TRUE])
  /\ Write("rcv", ep["rcv"], Packet(ep["rcv"].pn, StopFrame, {}, {}))
  /\ reader' = "done" /\ faults' = faults - 1
  /\ UNCHANGED <<tx, writer, life>>

-----------------------------------------------------------------------------
(* Received packets, timers and the network.                               *)

\* The network still has the packet or the peer got it: declaring it lost is wrong.
Alive(e, p) == p.pn \in ep[Peer(e)].got \/ (\E q \in Range(net[e]) : q.pn = p.pn)

\* The time threshold finds lost what is older than cut; doing so to a packet that
\* is not lost is a fault.
TimeThreshold(e, t, cut) ==
  LET early == \E p \in LostPackets(t, cut) \ LostPackets(t, 0) : Alive(e, p)
  IN /\ early => faults > 0
     /\ faults' = IF early THEN faults - 1 ELSE faults

\* afterReadLocked once the packet is processed: the engine is t, more has gone out.
AfterRead(e, t, more) ==
  Flush(e, Defer([t EXCEPT !.grew = FALSE]), more)

\* processPacket: frames, acks.receive, detectLost.  t is the engine after the frames.
Process(e, t, p, cut, persistent) ==
  LET r == Receive(t, p.pn, p.elicit)
  IN IF p.ack = {} THEN r ELSE DetectLost(r, cut, persistent)

Cuts(t, p) == IF p.ack = {} THEN {0} ELSE {0} \cup {q.pn + 1 : q \in t.sent}
MayPersist(t, cut) == {FALSE, Cardinality(Elicits(LostPackets(t, cut))) >= 2}

DeliverToSender(p, rest) ==
  LET t0      == IF p.ack = {} THEN ep["snd"] ELSE OnAck(ep["snd"], p.ack)
      stopped == p.frame = StopFrame /\ ~Done
      reset   == ResetPacket(t0)
      t       == IF stopped THEN Sealed(Scrubbed(t0), {reset}) ELSE t0
      more    == IF stopped THEN [rest EXCEPT !["snd"] = Append(@, reset)] ELSE rest
  IN \E cut \in Cuts(t, p) : \E persistent \in MayPersist(t, cut) :
       LET after == Process("snd", t, p, cut, persistent)
       IN /\ TimeThreshold("snd", t, cut)
          /\ tx' = [OnSenderFrames(p) EXCEPT !.ready = @ \/ (after.grew /\ ~Done)]
          /\ AfterRead("snd", after, more)
          /\ UNCHANGED <<rx, life>>

DeliverToReceiver(p, rest) ==
  LET t0 == IF p.ack = {} THEN ep["rcv"] ELSE OnAck(ep["rcv"], p.ack)
      x  == OnReceiverFrame(rx, p.frame)
      t  == Answered(t0, x, p.ctrl)
  IN IF Violates(rx, p.frame)
     THEN life' = "failed" /\ net' = rest /\ UNCHANGED <<ep, tx, rx, faults>>
     ELSE \E cut \in Cuts(t, p) : \E persistent \in MayPersist(t, cut) :
            LET after == Process("rcv", t, p, cut, persistent)
                lost  == p.ack # {} /\ Elicits(LostPackets(t, cut)) # {}
            IN /\ TimeThreshold("rcv", t, cut)
               /\ rx' = [x EXCEPT !.ready = @ \/ (after.grew /\ ~x.gone)]
               /\ AfterRead("rcv", IF lost THEN Regranted(after, x) ELSE after, rest)
               /\ UNCHANGED <<tx, life>>

\* A packet of e reaches its peer; a packet number seen before is dropped.
DeliverFrom(e, p, rest) ==
  /\ IF p.pn \in ep[Peer(e)].got
     THEN /\ tx' = IF e = "rcv" THEN [tx EXCEPT !.ready = @ \/ (ep["snd"].grew /\ ~Done)] ELSE tx
          /\ rx' = IF e = "snd" THEN [rx EXCEPT !.ready = @ \/ (ep["rcv"].grew /\ ~rx.gone)] ELSE rx
          /\ AfterRead(Peer(e), ep[Peer(e)], rest)
          /\ UNCHANGED <<life, faults>>
     ELSE IF e = "snd" THEN DeliverToReceiver(p, rest) ELSE DeliverToSender(p, rest)
  /\ UNCHANGED <<writer, reader>>

Deliver(e) ==
  /\ life = "open" /\ net[e] # <<>>
  /\ DeliverFrom(e, Head(net[e]), [net EXCEPT ![e] = Tail(@)])

\* The network loses a packet, copies it, or lets the next one overtake it.
Meddle(e) ==
  /\ life = "open" /\ faults > 0 /\ net[e] # <<>>
  /\ \/ net' = [net EXCEPT ![e] = Tail(@)]
     \/ net' = [net EXCEPT ![e] = Append(@, Head(@))]
     \/ Len(net[e]) > 1 /\ net' = [net EXCEPT ![e] = <<@[2], @[1]>> \o SubSeq(@, 3, Len(@))]
  /\ faults' = faults - 1
  /\ UNCHANGED <<ep, tx, rx, writer, reader, life>>

\* A probe timeout is early while an answer may still be under way.
Quiet(e) == net["snd"] = <<>> /\ net["rcv"] = <<>> /\ ~ep[Peer(e)].deferred

Overdue(t) == {p \in Elicits(t.sent) : p.pn <= t.largest}

\* handleExpiry with earliestLossTime due
LossTimer(e) ==
  /\ life = "open" /\ Overdue(ep[e]) # {}
  /\ \E cut \in {p.pn + 1 : p \in Overdue(ep[e])} : \E persistent \in MayPersist(ep[e], cut) :
       LET after == DetectLost(ep[e], cut, persistent)
       IN /\ TimeThreshold(e, ep[e], cut)
          /\ Flush(e, IF e = "rcv" THEN Regranted(after, rx) ELSE after, net)
  /\ UNCHANGED <<tx, rx, writer, reader, life>>

\* handleExpiry with a probe to send
ProbeTimer(e) ==
  /\ life = "open" /\ Overdue(ep[e]) = {} /\ HasInFlight(ep[e]) /\ ep[e].pto < MaxBackoff
  /\ ~Quiet(e) => faults > 0
  /\ faults' = IF Quiet(e) THEN faults ELSE faults - 1
  /\ Flush(e, OnPTO(ep[e]), net)
  /\ UNCHANGED <<tx, rx, writer, reader, life>>

\* handleExpiry after the last probe: ErrNoProgress, unless only an ACK is due.
GiveUp(e) ==
  /\ life = "open" /\ Overdue(ep[e]) = {} /\ HasInFlight(ep[e]) /\ ep[e].pto = MaxBackoff
  /\ ~AckDue(ep[e]) /\ Quiet(e)
  /\ life' = "gaveUp"
  /\ UNCHANGED <<ep, net, tx, rx, writer, reader, faults>>

\* The read deadline armed for a deferred acknowledgement.
AckTimer(e) ==
  /\ life = "open" /\ ep[e].deferred /\ net["snd"] = <<>> /\ net["rcv"] = <<>>
  /\ Flush(e, [ep[e] EXCEPT !.atOnce = TRUE], net)
  /\ UNCHANGED <<tx, rx, writer, reader, life, faults>>

-----------------------------------------------------------------------------
XferInit == \E run \in Scenarios :
  /\ faults = run.faults
  /\ ep = [e \in Ends |-> Fresh]
  /\ net = [e \in Ends |-> <<>>]
  /\ tx = [body |-> run.body, offset |-> 0, max |-> StreamWindow, connMax |-> ConnWindow, fin |-> FALSE,
           reset |-> FALSE, ready |-> FALSE, saidAt |-> [stream |-> -1, conn |-> -1]]
  /\ rx = [base |-> 0, have |-> 0, pending |-> {}, fin |-> FALSE, known |-> FALSE, final |-> 0,
           highest |-> 0, max |-> StreamWindow, connMax |-> ConnWindow, reset |-> FALSE,
           granted |-> FALSE, grantedConn |-> FALSE, ready |-> FALSE, gone |-> FALSE]
  /\ writer = "run" /\ reader = "run" /\ life = "open"

XferNext ==
  \/ Send \/ SendBlocked \/ WriterStops \/ ResetStream
  \/ Recv \/ RecvNothing \/ StopSending
  \/ \E e \in Ends : \/ Deliver(e) \/ Meddle(e)
                     \/ LossTimer(e) \/ ProbeTimer(e) \/ GiveUp(e) \/ AckTimer(e)

-----------------------------------------------------------------------------
Carried(e) == {p.frame : p \in ep[e].sent} \cup ep[e].queue

GrantStands(kind, limit) ==
  \/ Ctrl(kind, limit) \in ep["rcv"].ctrl
  \/ \E p \in ep["rcv"].sent : Ctrl(kind, limit) \in p.ctrl

(***************************************************************************)
(* Nothing that was sent is forgotten.  As long as the connection lives,   *)
(* every byte and the FIN of a stream that was not reset, and the RESET of *)
(* one that was, has arrived, or an unacknowledged packet carries it, or   *)
(* it waits in the retransmission queue; a limit the receiver raised is    *)
(* known to the sender, waits in pendingCtrl, or rides in a packet whose   *)
(* loss grants again.  Acknowledgements, loss detection, probes and        *)
(* scrubbing only move things between these places: bytesInFlight stays    *)
(* exactly the ack-eliciting packets neither acknowledged, lost nor        *)
(* abandoned, and no limit or final-size check ever closes the connection. *)
(***************************************************************************)
NothingForgotten ==
  /\ (life = "open" /\ ~rx.gone) =>
       /\ tx.reset => \E f \in Carried("snd") : f.kind = "reset"
       /\ ~tx.reset =>
            /\ \A o \in 0..tx.offset - 1 :
                 \/ o < rx.have \/ o \in rx.pending
                 \/ \E f \in Carried("snd") : f.kind = "stream" /\ f.lo <= o /\ o < f.lo + f.len
            /\ tx.fin => rx.fin \/ \E f \in Carried("snd") : f.kind = "stream" /\ f.fin
  /\ life = "open" =>
       /\ tx.connMax < rx.connMax => GrantStands("maxData", rx.connMax)
       /\ (tx.max < rx.max /\ MoreWanted(rx) /\ ~Done) => GrantStands("maxStream", rx.max)
  /\ life # "failed"
  /\ \A e \in Ends : ep[e].inflight = Cardinality(Elicits(ep[e].sent))

(***************************************************************************)
(* The transfer never stalls.  When no packet is under way, neither end    *)
(* has a timer armed for loss, a probe or an acknowledgement, and neither  *)
(* goroutine holds a token, then the reader has the whole response or its  *)
(* end: no wake-up was missed, no window stayed shut for want of a grant,  *)
(* and every wait of the sender is somebody's duty to end.                 *)
(***************************************************************************)
NothingPends ==
  /\ life = "open" /\ net["snd"] = <<>> /\ net["rcv"] = <<>>
  /\ \A e \in Ends : ~ep[e].deferred /\ ~HasInFlight(ep[e])
  /\ ~(WriterRuns /\ writer # "done") /\ ~ReaderRuns

TransferNeverStalls == NothingPends => reader = "done"
=============================================================================
