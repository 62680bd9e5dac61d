----------------------------- MODULE H2RecvFlow -----------------------------
(* Inbound flow control of one HTTP/2 connection (conn/conn.go) and the receive
   window tuner (conn/windowtuner.go).  The reader goroutine owns all of this
   state, so a DATA frame is one step; what can go wrong is between the two ends:
   the model keeps the peer's own account of its send windows and the
   WINDOW_UPDATEs on their way to it.  DATA that crosses our RST_STREAM on the
   wire is DATA the peer sends on a stream we no longer know. *)
EXTENDS Integers

CONSTANTS Downloads,          \* streams that receive
          FrameSizes,         \* payload lengths of DATA frames
          ConnWindow,         \* connInitialRecvWindow
          RefundThreshold,    \* recvWindowRefundThreshold
          InitialWindow,      \* the INITIAL_WINDOW_SIZE we advertise
          StaticConnWindow,   \* ConnOptions.StaticConnWindowSize, 0 when unset
          AutoTune,           \* ConnOptions.AutoTuneRecvWindow
          MaxRecvWindow,      \* ConnOptions.MaxRecvWindow, or the event buffer's budget
          MinProbe, MaxProbe, \* minProbeBytes, maxProbeBytes
          MaxData             \* bound on the DATA frames of a behaviour

ASSUME RecvAssumption ==
  /\ FrameSizes \subseteq Nat \ {0}
  /\ ConnWindow \in Nat /\ RefundThreshold \in 1..ConnWindow
  /\ InitialWindow \in Nat \ {0}
  /\ StaticConnWindow \in Nat /\ AutoTune \in BOOLEAN
  /\ MaxRecvWindow \in Nat
  /\ MinProbe \in Nat \ {0} /\ MaxProbe \in Nat /\ MinProbe <= MaxProbe
  /\ MaxData \in Nat

VARIABLES
  connRecv, connPending,    \* connRecvWindow, connRefundPending
  recv, pending,            \* recvWindow, recvRefundPending of each stream
  connTarget, streamTarget, \* what a refund restores a window to
  tuner,                    \* [sampling, sampleBytes, probeBytes, probeThreshold]
  known,                    \* streams in the registry
  ended,                    \* of those, the ones whose END_STREAM was received
  recvLink,                     \* "up" or "dead"
  peerConn, peerWin,        \* the peer's send windows
  connUpdate, update,       \* increments in WINDOW_UPDATEs not yet received by it
  pings,                    \* the tuner's PINGs not yet acknowledged
  frames                    \* DATA frames so far

windows  == <<connRecv, connPending, recv, pending>>
peerVars == <<peerConn, peerWin>>
recvVars == <<windows, connTarget, streamTarget, tuner, known, ended, recvLink, peerVars,
              connUpdate, update, pings, frames>>

Greater(a, b) == IF a > b THEN a ELSE b

-----------------------------------------------------------------------------
(* Constants derived from the options. *)
InitialConnRecvTarget ==
  IF ~AutoTune /\ StaticConnWindow > ConnWindow THEN StaticConnWindow ELSE ConnWindow

RecvWindowCeiling == Greater(MaxRecvWindow, InitialWindow)

StreamRefundThreshold ==
  LET half == InitialWindow \div 2 IN
  IF half < RefundThreshold THEN Greater(half, 1) ELSE RefundThreshold

RecvInit ==
  /\ connRecv = ConnWindow /\ connPending = 0
  /\ recv = [s \in Downloads |-> InitialWindow]
  /\ pending = [s \in Downloads |-> 0]
  /\ connTarget = InitialConnRecvTarget /\ streamTarget = InitialWindow
  /\ tuner = [sampling |-> "no", sampleBytes |-> 0, probeBytes |-> 0,
              probeThreshold |-> MinProbe]
  /\ known = Downloads /\ ended = {} /\ recvLink = "up"
  /\ peerConn = ConnWindow /\ peerWin = [s \in Downloads |-> InitialWindow]
  /\ connUpdate = 0 /\ update = [s \in Downloads |-> 0]
  /\ pings = 0 /\ frames = 0

-----------------------------------------------------------------------------
(* Refunds. *)

\* What restores a window to its target.
RefundIncrement(target, window) == Greater(target - window, 0)

\* The refund a frame of n bytes produces on a scope.
Refund(window, pend, n, threshold, target) ==
  IF pend + n >= threshold THEN RefundIncrement(target, window - n) ELSE 0

ConnRefund(n) == Refund(connRecv, connPending, n, RefundThreshold, connTarget)
StreamRefund(s, n) == Refund(recv[s], pending[s], n, StreamRefundThreshold, streamTarget)

\* debitConnRecv and the WINDOW_UPDATE(stream 0) its caller writes.
DebitConnRecv(n) ==
  /\ connRecv' = connRecv - n + ConnRefund(n)
  /\ connPending' = IF connPending + n >= RefundThreshold THEN 0 ELSE connPending + n
  /\ connUpdate' = connUpdate + ConnRefund(n)

DebitStreamRecv(s, n) ==
  /\ recv' = [recv EXCEPT ![s] = @ - n + StreamRefund(s, n)]
  /\ pending' = [pending EXCEPT ![s] = IF @ + n >= StreamRefundThreshold THEN 0 ELSE @ + n]
  /\ update' = [update EXCEPT ![s] = @ + StreamRefund(s, n)]

\* The tuner's onData: count into the open sample, or open one with a PING, or
\* give the sample up when the PING cannot be written (probeFailed).
TunerOnData(n) ==
  LET probe == tuner.probeBytes + n IN
  IF ~AutoTune THEN UNCHANGED <<tuner, pings>>
  ELSE IF tuner.sampling = "yes"
  THEN tuner' = [tuner EXCEPT !.sampleBytes = @ + n] /\ UNCHANGED pings
  ELSE IF probe < tuner.probeThreshold
  THEN tuner' = [tuner EXCEPT !.probeBytes = probe] /\ UNCHANGED pings
  ELSE \/ /\ tuner' = [tuner EXCEPT !.sampling = "yes", !.sampleBytes = 0, !.probeBytes = 0]
          /\ pings' = pings + 1
       \/ /\ tuner' = [tuner EXCEPT !.sampleBytes = 0, !.probeBytes = 0]
          /\ UNCHANGED pings

-----------------------------------------------------------------------------
(* DATA. *)

PeerSends(s, n) ==
  /\ recvLink = "up" /\ frames < MaxData /\ frames' = frames + 1
  /\ peerConn' = peerConn - n
  /\ peerWin' = [peerWin EXCEPT ![s] = @ - n]

WithinWindows(s, n) == n <= peerConn /\ n <= peerWin[s]

\* DATA on a stream in the registry, within its windows.
OnDataReceived(s, n) ==
  /\ PeerSends(s, n) /\ WithinWindows(s, n)
  /\ s \in known \ ended
  /\ DebitConnRecv(n) /\ DebitStreamRecv(s, n) /\ TunerOnData(n)
  /\ ended' \in {ended, ended \cup {s}}
  /\ UNCHANGED <<connTarget, streamTarget, known, recvLink>>

\* DATA on a stream that was reset or is complete, or after its END_STREAM: only
\* the connection is charged, and the latter resets the stream.
AccountConnRecvOnlyDropped(s, n) ==
  /\ PeerSends(s, n) /\ WithinWindows(s, n)
  /\ s \notin known \/ s \in ended
  /\ known' = known \ {s}
  /\ UNCHANGED <<windows, update, connUpdate, connTarget, streamTarget, tuner, ended, recvLink, pings>>
AccountConnRecvOnly(s, n) ==
  /\ PeerSends(s, n) /\ WithinWindows(s, n)
  /\ s \notin known \/ s \in ended
  /\ DebitConnRecv(n)
  /\ known' = known \ {s}
  /\ UNCHANGED <<recv, pending, update, connTarget, streamTarget, tuner, ended, recvLink, pings>>

\* The peer overruns the stream's window: the connection is charged and refunded
\* as for any frame, the stream is reset.
OnStreamOverrun(s, n) ==
  /\ PeerSends(s, n) /\ n <= peerConn
  /\ s \in known \ ended /\ n > recv[s]
  /\ DebitConnRecv(n)
  /\ recv' = [recv EXCEPT ![s] = @ - n]
  /\ known' = known \ {s}
  /\ UNCHANGED <<pending, update, connTarget, streamTarget, tuner, ended, recvLink, pings>>

\* The peer overruns the connection's window: a connection error.
OnConnOverrun(s, n) ==
  /\ PeerSends(s, n) /\ n > connRecv
  /\ connRecv' = connRecv - n
  /\ recvLink' = "dead"
  /\ UNCHANGED <<connPending, recv, pending, connTarget, streamTarget, tuner, known, ended,
                 connUpdate, update, pings>>

-----------------------------------------------------------------------------
(* The rest of the world. *)

\* The application gives a stream up, or both ends are done.
Forget(s) ==
  /\ recvLink = "up" /\ s \in known
  /\ known' = known \ {s}
  /\ UNCHANGED <<windows, connTarget, streamTarget, tuner, ended, recvLink, peerVars, connUpdate,
                 update, pings, frames>>

\* A read fails, or the write of a refund.
LinkFails ==
  /\ recvLink = "up" /\ recvLink' = "dead"
  /\ UNCHANGED <<windows, connTarget, streamTarget, tuner, known, ended, peerVars, connUpdate,
                 update, pings, frames>>

PeerGetsConnUpdate ==
  /\ recvLink = "up" /\ connUpdate > 0
  /\ peerConn' = peerConn + connUpdate /\ connUpdate' = 0
  /\ UNCHANGED <<windows, connTarget, streamTarget, tuner, known, ended, recvLink, peerWin,
                 update, pings, frames>>

PeerGetsUpdate(s) ==
  /\ recvLink = "up" /\ update[s] > 0
  /\ peerWin' = [peerWin EXCEPT ![s] = @ + update[s]]
  /\ update' = [update EXCEPT ![s] = 0]
  /\ UNCHANGED <<windows, connTarget, streamTarget, tuner, known, ended, recvLink, peerConn,
                 connUpdate, pings, frames>>

\* raise: towards the ceiling, never down.
Raise(target, want) ==
  LET capped == IF want > RecvWindowCeiling THEN RecvWindowCeiling ELSE want IN
  Greater(target, capped)

\* The tuner after a sample: growth probes again soon, no growth backs off.
AfterSample(grew) ==
  [tuner EXCEPT !.sampling = "no",
                !.probeThreshold = IF grew THEN MinProbe
                                   ELSE IF 2 * @ > MaxProbe THEN MaxProbe ELSE 2 * @]

\* The ACK of the tuner's PING closes the sample.
OnAck ==
  LET want == 2 * tuner.sampleBytes
      grew == Raise(connTarget, want) > connTarget \/ Raise(streamTarget, want) > streamTarget IN
  /\ recvLink = "up" /\ pings > 0 /\ pings' = pings - 1
  /\ IF tuner.sampling = "yes"
     THEN /\ connTarget' = Raise(connTarget, want)
          /\ streamTarget' = Raise(streamTarget, want)
          /\ tuner' = AfterSample(grew)
     ELSE UNCHANGED <<connTarget, streamTarget, tuner>>
  /\ UNCHANGED <<windows, known, ended, recvLink, peerVars, connUpdate, update, frames>>

RecvNext ==
  \/ \E s \in Downloads, n \in FrameSizes :
       OnDataReceived(s, n) \/ AccountConnRecvOnly(s, n) \/ OnStreamOverrun(s, n)
         \/ OnConnOverrun(s, n)
  \/ \E s \in Downloads : Forget(s) \/ PeerGetsUpdate(s)
  \/ PeerGetsConnUpdate \/ OnAck \/ LinkFails

RecvSpec == RecvInit /\ [][RecvNext]_recvVars

-----------------------------------------------------------------------------
(* What the code promises. *)

\* The types of the windows, the targets, the tuner and the peer's account.
RecvTypeOK ==
  /\ connRecv \in Int /\ connPending \in Nat
  /\ recv \in [Downloads -> Int] /\ pending \in [Downloads -> Nat]
  /\ connTarget \in Nat /\ streamTarget \in Nat
  /\ tuner \in [sampling : {"yes", "no"}, sampleBytes : Nat, probeBytes : Nat,
                probeThreshold : MinProbe..MaxProbe]
  /\ known \subseteq Downloads /\ ended \subseteq Downloads /\ recvLink \in {"up", "dead"}
  /\ peerConn \in Int /\ peerWin \in [Downloads -> Int]
  /\ connUpdate \in Nat /\ update \in [Downloads -> Nat]
  /\ pings \in Nat /\ frames \in Nat

\* Both ends account alike: our window is the peer's plus the refunds on their way,
\* for the connection whatever becomes of its streams (a frame for a reset,
\* overrun or finished stream is charged and refunded like any other), and for
\* every stream still known.  And the refund threshold never starves the peer:
\* there is always room for a byte, on the connection and on every known stream,
\* whatever window we advertise and however the tuner moves the targets.
WindowsAgree ==
  recvLink = "up" =>
    /\ connRecv = peerConn + connUpdate /\ connRecv > 0
    /\ \A s \in known : recv[s] = peerWin[s] + update[s] /\ recv[s] > 0
=============================================================================
