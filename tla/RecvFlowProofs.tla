----------------------------- MODULE RecvFlowProofs -----------------------------
(* Proofs about two parts of one connection: the receive windows of H2RecvFlow and
   the deadlines of H1Watchdog. *)
EXTENDS H2RecvFlow, H1Watchdog, TLAPS

-----------------------------------------------------------------------------
(* H2RecvFlow.  A window may shrink below its target only by what is pending,
   and what is pending stays below the threshold, which the initial window
   covers: that is why there is always room for a byte. *)

TunerType == [sampling : {"yes", "no"}, sampleBytes : Nat, probeBytes : Nat,
              probeThreshold : MinProbe..MaxProbe]

RecvIInv ==
  /\ RecvTypeOK
  /\ connTarget >= ConnWindow /\ streamTarget >= InitialWindow
  /\ recvLink = "up" =>
       /\ connRecv = peerConn + connUpdate
       /\ connPending < RefundThreshold /\ connRecv + connPending >= ConnWindow
       /\ \A s \in known : /\ recv[s] = peerWin[s] + update[s]
                           /\ pending[s] < StreamRefundThreshold
                           /\ recv[s] + pending[s] >= InitialWindow

\* The threshold streamRefundThreshold computes is a byte at least and never more
\* than the window a stream starts with.
LEMMA StreamThreshold == StreamRefundThreshold \in 1..InitialWindow
<1> DEFINE half == InitialWindow \div 2
<1>1. half \in Nat /\ half <= InitialWindow
  BY RecvAssumption
<1> QED
  BY <1>1, RecvAssumption DEF StreamRefundThreshold, Greater

\* A frame of n bytes leaves a window, with what is pending, at or above the base
\* its target never falls below.
LEMMA RefundRestores ==
  ASSUME NEW w \in Int, NEW pend \in Nat, NEW n \in Nat, NEW thr \in Nat \ {0},
         NEW t \in Nat, NEW base \in Nat, base <= t, w + pend >= base
  PROVE  LET r == Refund(w, pend, n, thr, t)
             q == IF pend + n >= thr THEN 0 ELSE pend + n
         IN r \in Nat /\ q \in Nat /\ q < thr /\ w - n + r \in Int /\ w - n + r + q >= base
  BY DEF Refund, RefundIncrement, Greater

LEMMA RefundNat ==
  ASSUME NEW w \in Int, NEW pend \in Nat, NEW n \in Nat, NEW thr \in Nat, NEW t \in Nat
  PROVE  Refund(w, pend, n, thr, t) \in Nat
  BY DEF Refund, RefundIncrement, Greater

LEMMA TunerTypes ==
  ASSUME RecvTypeOK, NEW n \in Nat, TunerOnData(n)
  PROVE  tuner' \in TunerType /\ pings' \in Nat
<1>1. tuner \in TunerType /\ pings \in Nat
  BY Zenon DEF RecvTypeOK, TunerType
<1>2. CASE tuner.sampling = "yes"
  <2>1. tuner' = tuner \/ tuner' = [tuner EXCEPT !.sampleBytes = tuner.sampleBytes + n]
    BY Zenon, <1>2 DEF TunerOnData
  <2>2. pings' = pings
    BY Zenon, <1>2 DEF TunerOnData
  <2> QED
    BY <1>1, <2>1, <2>2 DEF TunerType
<1>3. CASE tuner.sampling # "yes"
  <2>1. \/ tuner' = tuner
        \/ tuner' = [tuner EXCEPT !.probeBytes = tuner.probeBytes + n]
        \/ tuner' = [tuner EXCEPT !.sampling = "yes", !.sampleBytes = 0, !.probeBytes = 0]
        \/ tuner' = [tuner EXCEPT !.sampleBytes = 0, !.probeBytes = 0]
    BY Zenon, <1>3 DEF TunerOnData
  <2>2. pings' = pings \/ pings' = pings + 1
    BY <1>3, Zenon DEF TunerOnData
  <2>3. tuner.probeBytes + n \in Nat
    BY <1>1 DEF TunerType
  <2>4. \A p \in Nat : [tuner EXCEPT !.probeBytes = p] \in TunerType
    BY Zenon, <1>1 DEF TunerType
  <2>5. [tuner EXCEPT !.sampling = "yes", !.sampleBytes = 0, !.probeBytes = 0] \in TunerType
    BY Zenon, <1>1 DEF TunerType
  <2>6. [tuner EXCEPT !.sampleBytes = 0, !.probeBytes = 0] \in TunerType
    BY Zenon, <1>1 DEF TunerType
  <2>7. tuner' \in TunerType
    BY <1>1, <2>1, <2>3, <2>4, <2>5, <2>6, Zenon
  <2> QED
    BY <1>1, <2>2, <2>7
<1> QED
  BY Zenon, <1>2, <1>3

\* What a frame charged to the connection does to the connection's account.
LEMMA ConnDebit ==
  ASSUME RecvIInv, recvLink = "up", NEW n \in Nat, DebitConnRecv(n), peerConn' = peerConn - n
  PROVE  /\ connRecv' \in Int /\ connPending' \in Nat /\ connUpdate' \in Nat
         /\ connRecv' = peerConn' + connUpdate' /\ connPending' < RefundThreshold
         /\ connRecv' + connPending' >= ConnWindow
<1>1. /\ connRecv \in Int /\ connPending \in Nat /\ connTarget \in Nat /\ peerConn \in Int
      /\ connUpdate \in Nat /\ ConnWindow \in Nat /\ RefundThreshold \in Nat \ {0}
      /\ ConnWindow <= connTarget /\ connRecv + connPending >= ConnWindow
      /\ connRecv = peerConn + connUpdate
  BY RecvAssumption DEF RecvIInv, RecvTypeOK
<1> DEFINE r == ConnRefund(n)
           q == IF connPending + n >= RefundThreshold THEN 0 ELSE connPending + n
<1>2. /\ r \in Nat /\ q \in Nat /\ q < RefundThreshold
      /\ connRecv - n + r \in Int /\ connRecv - n + r + q >= ConnWindow
  BY <1>1, RefundRestores DEF ConnRefund
<1>3. connRecv' = connRecv - n + r /\ connPending' = q /\ connUpdate' = connUpdate + r
  BY Zenon DEF DebitConnRecv
<1> HIDE DEF r, q
<1> QED
  BY <1>1, <1>2, <1>3

\* And what a frame charged to a known stream does to the stream's.
LEMMA StreamDebit ==
  ASSUME RecvIInv, recvLink = "up", NEW s \in known, NEW n \in Nat, DebitStreamRecv(s, n),
         peerWin' = [peerWin EXCEPT ![s] = @ - n]
  PROVE  /\ recv' \in [Downloads -> Int] /\ pending' \in [Downloads -> Nat]
         /\ update' \in [Downloads -> Nat]
         /\ \A d \in known : /\ recv'[d] = peerWin'[d] + update'[d]
                             /\ pending'[d] < StreamRefundThreshold
                             /\ recv'[d] + pending'[d] >= InitialWindow
<1>1. /\ recv \in [Downloads -> Int] /\ pending \in [Downloads -> Nat] /\ streamTarget \in Nat
      /\ peerWin \in [Downloads -> Int] /\ update \in [Downloads -> Nat] /\ s \in Downloads
      /\ InitialWindow \in Nat /\ InitialWindow <= streamTarget /\ known \subseteq Downloads
      /\ StreamRefundThreshold \in Nat \ {0}
      /\ \A d \in known : /\ recv[d] = peerWin[d] + update[d]
                          /\ pending[d] < StreamRefundThreshold
                          /\ recv[d] + pending[d] >= InitialWindow
  BY RecvAssumption, StreamThreshold DEF RecvIInv, RecvTypeOK
<1> DEFINE r == StreamRefund(s, n)
           q == IF pending[s] + n >= StreamRefundThreshold THEN 0 ELSE pending[s] + n
<1>2. /\ r \in Nat /\ q \in Nat /\ q < StreamRefundThreshold
      /\ recv[s] - n + r \in Int /\ recv[s] - n + r + q >= InitialWindow
  <2>1. recv[s] \in Int /\ pending[s] \in Nat /\ recv[s] + pending[s] >= InitialWindow
    BY Zenon, <1>1
  <2> QED
    BY Zenon, <1>1, <2>1, RefundRestores DEF StreamRefund
<1>3. /\ recv' = [recv EXCEPT ![s] = recv[s] - n + r] /\ pending' = [pending EXCEPT ![s] = q]
      /\ update' = [update EXCEPT ![s] = update[s] + r]
  BY Zenon DEF DebitStreamRecv
<1> HIDE DEF r, q
<1> QED
  BY <1>1, <1>2, <1>3

LEMMA RecvInitIInv == RecvInit => RecvIInv
<1> SUFFICES ASSUME RecvInit PROVE RecvIInv
  BY Zenon
<1>1. RecvTypeOK
  BY RecvAssumption DEF RecvInit, RecvTypeOK, InitialConnRecvTarget
<1>2. connTarget >= ConnWindow /\ streamTarget >= InitialWindow
  BY RecvAssumption DEF RecvInit, InitialConnRecvTarget
<1> QED
  BY <1>1, <1>2, RecvAssumption, StreamThreshold DEF RecvInit, RecvIInv

\* Targets only grow.
LEMMA RaiseGrows ==
  ASSUME NEW t \in Nat, NEW want \in Nat
  PROVE  Raise(t, want) \in Nat /\ Raise(t, want) >= t
<1>1. RecvWindowCeiling \in Nat
  BY Zenon, RecvAssumption DEF RecvWindowCeiling, Greater
<1> QED
  BY <1>1 DEF Raise, Greater

LEMMA RecvNextIInv == RecvIInv /\ [RecvNext]_recvVars => RecvIInv'
<1> SUFFICES ASSUME RecvIInv, [RecvNext]_recvVars PROVE RecvIInv'
  BY Zenon
<1>0. RecvTypeOK /\ connTarget >= ConnWindow /\ streamTarget >= InitialWindow
  BY Zenon DEF RecvIInv
<1>t. tuner \in TunerType /\ (tuner' \in TunerType => RecvTypeOK' <=>
        (/\ connRecv' \in Int /\ connPending' \in Nat
         /\ recv' \in [Downloads -> Int] /\ pending' \in [Downloads -> Nat]
         /\ connTarget' \in Nat /\ streamTarget' \in Nat
         /\ known' \subseteq Downloads /\ ended' \subseteq Downloads
         /\ recvLink' \in {"up", "dead"}
         /\ peerConn' \in Int /\ peerWin' \in [Downloads -> Int]
         /\ connUpdate' \in Nat /\ update' \in [Downloads -> Nat]
         /\ pings' \in Nat /\ frames' \in Nat))
  BY Zenon, <1>0 DEF RecvTypeOK, TunerType
<1>p. ASSUME NEW s \in Downloads, NEW n \in FrameSizes, PeerSends(s, n)
      PROVE  /\ n \in Nat /\ recvLink = "up" /\ frames' \in Nat
             /\ peerConn' = peerConn - n /\ peerConn' \in Int
             /\ peerWin' = [peerWin EXCEPT ![s] = peerWin[s] - n]
             /\ peerWin' \in [Downloads -> Int]
  BY <1>p, <1>0, RecvAssumption DEF PeerSends, RecvTypeOK
<1>1. ASSUME NEW s \in Downloads, NEW n \in FrameSizes, OnDataReceived(s, n)
      PROVE  RecvIInv'
  <2>1. /\ PeerSends(s, n) /\ s \in known /\ DebitConnRecv(n) /\ DebitStreamRecv(s, n)
        /\ TunerOnData(n) /\ ended' \in {ended, ended \cup {s}}
        /\ UNCHANGED <<connTarget, streamTarget, known, recvLink>>
    BY Zenon, <1>1 DEF OnDataReceived
  <2>2. /\ n \in Nat /\ recvLink = "up" /\ frames' \in Nat
        /\ peerConn' = peerConn - n /\ peerConn' \in Int
        /\ peerWin' = [peerWin EXCEPT ![s] = peerWin[s] - n]
        /\ peerWin' \in [Downloads -> Int]
    BY Zenon, <2>1, <1>p
  <2>3. tuner' \in TunerType /\ pings' \in Nat
    BY Zenon, <2>1, <2>2, <1>0, TunerTypes
  <2>4. /\ connRecv' \in Int /\ connPending' \in Nat /\ connUpdate' \in Nat
        /\ connRecv' = peerConn' + connUpdate' /\ connPending' < RefundThreshold
        /\ connRecv' + connPending' >= ConnWindow
    BY Zenon, <2>1, <2>2, ConnDebit
  <2>5. /\ recv' \in [Downloads -> Int] /\ pending' \in [Downloads -> Nat]
        /\ update' \in [Downloads -> Nat]
        /\ \A d \in known : /\ recv'[d] = peerWin'[d] + update'[d]
                            /\ pending'[d] < StreamRefundThreshold
                            /\ recv'[d] + pending'[d] >= InitialWindow
    BY Zenon, <2>1, <2>2, StreamDebit
  <2>6. RecvTypeOK'
    BY Zenon, <1>t, <1>0, <2>1, <2>2, <2>3, <2>4, <2>5 DEF RecvTypeOK
  <2> QED
    BY Zenon, <1>0, <2>1, <2>4, <2>5, <2>6 DEF RecvIInv
<1>2. ASSUME NEW s \in Downloads, NEW n \in FrameSizes, AccountConnRecvOnly(s, n)
      PROVE  RecvIInv'
  <2>1. /\ PeerSends(s, n) /\ DebitConnRecv(n) /\ known' = known \ {s}
        /\ UNCHANGED <<recv, pending, update, connTarget, streamTarget, tuner, ended,
                       recvLink, pings>>
    BY Zenon, <1>2 DEF AccountConnRecvOnly
  <2>2. /\ n \in Nat /\ recvLink = "up" /\ frames' \in Nat
        /\ peerConn' = peerConn - n /\ peerConn' \in Int
        /\ peerWin' = [peerWin EXCEPT ![s] = peerWin[s] - n]
        /\ peerWin' \in [Downloads -> Int]
    BY Zenon, <2>1, <1>p
  <2>3. /\ connRecv' \in Int /\ connPending' \in Nat /\ connUpdate' \in Nat
        /\ connRecv' = peerConn' + connUpdate' /\ connPending' < RefundThreshold
        /\ connRecv' + connPending' >= ConnWindow
    BY Zenon, <2>1, <2>2, ConnDebit
  <2>4. RecvTypeOK'
    BY Zenon, <1>t, <1>0, <2>1, <2>2, <2>3 DEF RecvTypeOK
  <2>5. \A d \in known' : /\ recv'[d] = peerWin'[d] + update'[d]
                          /\ pending'[d] < StreamRefundThreshold
                          /\ recv'[d] + pending'[d] >= InitialWindow
    BY Zenon, <1>0, <2>1, <2>2 DEF RecvIInv, RecvTypeOK
  <2> QED
    BY Zenon, <1>0, <2>1, <2>3, <2>4, <2>5 DEF RecvIInv
<1>3. ASSUME NEW s \in Downloads, NEW n \in FrameSizes, OnStreamOverrun(s, n)
      PROVE  RecvIInv'
  <2>1. /\ PeerSends(s, n) /\ DebitConnRecv(n) /\ known' = known \ {s}
        /\ recv' = [recv EXCEPT ![s] = recv[s] - n]
        /\ UNCHANGED <<pending, update, connTarget, streamTarget, tuner, ended, recvLink, pings>>
    BY Zenon, <1>3 DEF OnStreamOverrun
  <2>2. /\ n \in Nat /\ recvLink = "up" /\ frames' \in Nat
        /\ peerConn' = peerConn - n /\ peerConn' \in Int
        /\ peerWin' = [peerWin EXCEPT ![s] = peerWin[s] - n]
        /\ peerWin' \in [Downloads -> Int]
    BY Zenon, <2>1, <1>p
  <2>3. /\ connRecv' \in Int /\ connPending' \in Nat /\ connUpdate' \in Nat
        /\ connRecv' = peerConn' + connUpdate' /\ connPending' < RefundThreshold
        /\ connRecv' + connPending' >= ConnWindow
    BY Zenon, <2>1, <2>2, ConnDebit
  <2>4. RecvTypeOK'
    BY <1>t, <1>0, <2>1, <2>2, <2>3 DEF RecvTypeOK
  <2>5. \A d \in known' : /\ recv'[d] = peerWin'[d] + update'[d]
                          /\ pending'[d] < StreamRefundThreshold
                          /\ recv'[d] + pending'[d] >= InitialWindow
    BY Zenon, <1>0, <2>1, <2>2 DEF RecvIInv, RecvTypeOK
  <2> QED
    BY Zenon, <1>0, <2>1, <2>3, <2>4, <2>5 DEF RecvIInv
<1>4. ASSUME NEW s \in Downloads, NEW n \in FrameSizes, OnConnOverrun(s, n)
      PROVE  RecvIInv'
  <2>1. /\ PeerSends(s, n) /\ connRecv' = connRecv - n /\ recvLink' = "dead"
        /\ UNCHANGED <<connPending, recv, pending, connTarget, streamTarget, tuner, known,
                       ended, connUpdate, update, pings>>
    BY Zenon, <1>4 DEF OnConnOverrun
  <2>2. n \in Nat /\ frames' \in Nat /\ peerConn' \in Int /\ peerWin' \in [Downloads -> Int]
    BY Zenon, <2>1, <1>p
  <2>3. RecvTypeOK'
    BY <1>t, <1>0, <2>1, <2>2 DEF RecvTypeOK
  <2> QED
    BY Zenon, <1>0, <2>1, <2>3 DEF RecvIInv
<1>5. ASSUME NEW s \in Downloads, Forget(s)
      PROVE  RecvIInv'
  BY Zenon, <1>5 DEF RecvIInv, RecvTypeOK, Forget, windows, peerVars
<1>6. ASSUME NEW s \in Downloads, PeerGetsUpdate(s)
      PROVE  RecvIInv'
  BY <1>6 DEF RecvIInv, RecvTypeOK, PeerGetsUpdate, windows
<1>7. CASE PeerGetsConnUpdate
  BY <1>7 DEF RecvIInv, RecvTypeOK, PeerGetsConnUpdate, windows
<1>8. CASE OnAck
  <2> DEFINE want == 2 * tuner.sampleBytes
  <2>1. want \in Nat
    BY <1>t DEF TunerType
  <2>2. /\ Raise(connTarget, want) \in Nat /\ Raise(connTarget, want) >= connTarget
        /\ Raise(streamTarget, want) \in Nat /\ Raise(streamTarget, want) >= streamTarget
    BY Zenon, <1>0, <2>1, RaiseGrows DEF RecvTypeOK
  <2>3. \A grew \in BOOLEAN : AfterSample(grew) \in TunerType
    <3> SUFFICES ASSUME NEW grew \in BOOLEAN PROVE AfterSample(grew) \in TunerType
      BY Zenon
    <3> DEFINE p == IF grew THEN MinProbe
                    ELSE IF 2 * tuner.probeThreshold > MaxProbe THEN MaxProbe
                    ELSE 2 * tuner.probeThreshold
    <3>1. p \in MinProbe..MaxProbe
      BY <1>t, RecvAssumption DEF TunerType
    <3>2. AfterSample(grew) = [tuner EXCEPT !.sampling = "no", !.probeThreshold = p]
      BY Zenon DEF AfterSample
    <3> HIDE DEF p
    <3> QED
      BY Zenon, <1>t, <3>1, <3>2 DEF TunerType
  <2>4. tuner' \in TunerType
    BY Zenon, <1>8, <1>t, <2>3 DEF OnAck
  <2>5. /\ connTarget' \in Nat /\ connTarget' >= ConnWindow
        /\ streamTarget' \in Nat /\ streamTarget' >= InitialWindow
    BY <1>8, <1>0, <2>2, RecvAssumption DEF OnAck, RecvTypeOK
  <2>6. /\ UNCHANGED <<windows, known, ended, recvLink, peerVars, connUpdate, update, frames>>
        /\ pings' \in Nat
    BY <1>8, <1>0 DEF OnAck, RecvTypeOK
  <2>7. RecvTypeOK'
    BY Zenon, <1>t, <1>0, <2>4, <2>5, <2>6 DEF RecvTypeOK, windows, peerVars
  <2> QED
    BY Zenon, <2>5, <2>6, <2>7 DEF RecvIInv, windows, peerVars
<1>9. CASE LinkFails
  BY Zenon, <1>9 DEF RecvIInv, RecvTypeOK, LinkFails, windows, peerVars
<1>10. CASE UNCHANGED recvVars
  BY Zenon, <1>10 DEF RecvIInv, RecvTypeOK, recvVars, windows, peerVars
<1> QED
  BY Zenon, <1>1, <1>2, <1>3, <1>4, <1>5, <1>6, <1>7, <1>8, <1>9, <1>10 DEF RecvNext

\* Both ends of a connection account alike for every receive window, and the
\* refunds of debitConnRecv and debitStreamRecv never starve the peer.
THEOREM RecvWindowsAgree == RecvSpec => []WindowsAgree
<1>1. RecvIInv => WindowsAgree
  BY RecvAssumption, StreamThreshold DEF RecvIInv, RecvTypeOK, WindowsAgree
<1> QED
  BY <1>1, RecvInitIInv, RecvNextIInv, PTL DEF RecvSpec

-----------------------------------------------------------------------------
(* H1Watchdog.  Between two calls the watchdog is bound to nothing, so a deadline
   it moves is always that of the call in progress. *)

WatchBound == wd \in {"watching", "tripping", "tripped"}

CtxType == [done : BOOLEAN, due : BOOLEAN, timed : BOOLEAN, cancellable : BOOLEAN]

DeadlineType == [of : 0..NRequests, past : BOOLEAN]

WatchTypes ==
  /\ cur \in Watched /\ ctx \in [Watched -> CtxType]
  /\ blocking \in {"write", "response", "body"}
  /\ callAt \in {"start", "arm", "io", "disarm", "clear", "failed", "pooled", "probing"}
  /\ armed \in BOOLEAN /\ result \in {"none", "ok", "timeout", "closed"}
  /\ deadline \in [{"read", "write"} -> DeadlineType]
  /\ wd \in {"none", "idle", "watching", "tripping", "tripped", "gone"}
  /\ watched \in [of : 0..NRequests, kind : {"read", "write"}]

\* The watchdog is bound exactly while an armed call is blocked or disarming, to
\* that call, and moves a deadline only for a context that has ended.
BoundToCall ==
  /\ WatchBound <=> callAt \in {"io", "disarm"} /\ armed
  /\ WatchBound => watched = Req
  /\ wd = "tripping" => ctx[cur].done

\* A deadline is nobody's, or the current exchange's, and elapsed early only when
\* that exchange's context has ended.
Owned(d) == d = NoDeadline \/ (d.of = cur /\ (d.past => ctx[cur].done))

InCall == callAt \in {"arm", "io", "disarm", "clear"} \/ (callAt = "start" /\ blocking = "body")

DeadlinesOwned ==
  /\ deadline["write"] = NoDeadline
       \/ (blocking = "write" /\ callAt \in {"arm", "io", "disarm", "clear"})
  /\ InCall => Owned(deadline[Kind(blocking)])

WatchIInv ==
  /\ WatchTypes /\ BoundToCall /\ DeadlinesOwned
  /\ result = "timeout" => ctx[cur].done \/ ctx[cur].due

LEMMA WatchInitIInv == WatchInit => WatchIInv
<1> SUFFICES ASSUME WatchInit PROVE WatchIInv
  BY Zenon
<1>1. cur \in Watched /\ ctx \in [Watched -> CtxType]
  <2>1. Fresh \subseteq CtxType
    BY Zenon DEF Fresh, Contexts, CtxType
  <2>2. ctx \in [Watched -> Fresh] /\ cur = 1
    BY Zenon DEF WatchInit
  <2>3. ctx \in [Watched -> CtxType]
    BY Zenon, <2>1, <2>2
  <2> QED
    BY <2>2, <2>3, WatchAssumption DEF Watched
<1>2. NoDeadline \in DeadlineType /\ watched \in [of : 0..NRequests, kind : {"read", "write"}]
  BY WatchAssumption DEF WatchInit, NoDeadline, DeadlineType
<1>3. WatchTypes
  BY Zenon, <1>1, <1>2 DEF WatchInit, WatchTypes
<1>4. BoundToCall
  BY Zenon DEF WatchInit, BoundToCall, WatchBound
<1>5. DeadlinesOwned
  BY Zenon DEF WatchInit, DeadlinesOwned, InCall
<1> QED
  BY Zenon, <1>3, <1>4, <1>5 DEF WatchInit, WatchIInv

LEMMA WatchNextIInv == WatchIInv /\ [WatchNext]_watchVars => WatchIInv'
<1> SUFFICES ASSUME WatchIInv, [WatchNext]_watchVars PROVE WatchIInv'
  BY Zenon
<1>0. \A e \in Watched : e \in 1..NRequests
  BY Zenon DEF Watched
<1>1. CASE SetDeadline
  <2>1. [of |-> cur, past |-> FALSE] \in DeadlineType /\ NoDeadline \in DeadlineType
    BY <1>0, WatchAssumption DEF NoDeadline, DeadlineType, WatchIInv, WatchTypes
  <2>2. OwnDeadline \in DeadlineType /\ Owned(OwnDeadline)
    BY Zenon, <2>1 DEF OwnDeadline, Owned
  <2>3. /\ callAt = "start" /\ callAt' = "arm" /\ result' = "none" /\ deadline' = Install
        /\ UNCHANGED <<cur, ctx, blocking, armed, wd, watched>>
    BY Zenon, <1>1 DEF SetDeadline
  <2>4. \A d : Owned(d)' <=> Owned(d)
    BY Zenon, <2>3 DEF Owned
  <2>5. /\ deadline' \in [{"read", "write"} -> DeadlineType] /\ Owned(deadline'[Kind(blocking)])
        /\ blocking = "write" \/ deadline'["write"] = NoDeadline
    BY Zenon, <2>2, <2>3 DEF Install, Kind, WatchIInv, WatchTypes, DeadlinesOwned, InCall
  <2>6. WatchTypes'
    BY Zenon, <2>3, <2>5 DEF WatchIInv, WatchTypes
  <2>7. BoundToCall'
    BY Zenon, <2>3 DEF WatchIInv, BoundToCall, WatchBound
  <2>8. DeadlinesOwned'
    BY Zenon, <2>3, <2>4, <2>5 DEF DeadlinesOwned, Kind
  <2> QED
    BY Zenon, <2>3, <2>6, <2>7, <2>8 DEF WatchIInv
<1>2. CASE ArmNothing
  BY ZenonT(60), <1>2, <1>0, WatchAssumption DEF ArmNothing,
     WatchIInv, WatchTypes, BoundToCall, DeadlinesOwned, WatchBound, Req, Owned, InCall, Kind,
     CtxType, DeadlineType, NoDeadline
<1>3. CASE StartWatch
  BY <1>3, <1>0, WatchAssumption DEF StartWatch,
     WatchIInv, WatchTypes, BoundToCall, DeadlinesOwned, WatchBound, Req, Owned, InCall, Kind,
     CtxType, DeadlineType, NoDeadline
<1>4. CASE ArmRendezvous
  BY <1>4, <1>0, WatchAssumption DEF ArmRendezvous,
     WatchIInv, WatchTypes, BoundToCall, DeadlinesOwned, WatchBound, Req, Owned, InCall, Kind,
     CtxType, DeadlineType, NoDeadline
<1>5. CASE ArmGone
  BY Zenon, <1>5, <1>0, WatchAssumption DEF ArmGone,
     WatchIInv, WatchTypes, BoundToCall, DeadlinesOwned, WatchBound, Req, Owned, InCall, Kind,
     CtxType, DeadlineType, NoDeadline
<1>6. CASE IOReturns("ok")
  BY Zenon, <1>6, <1>0, WatchAssumption DEF IOReturns,
     WatchIInv, WatchTypes, BoundToCall, DeadlinesOwned, WatchBound, Req, Owned, InCall, Kind,
     CtxType, DeadlineType, NoDeadline
<1>7. CASE IOReturns("timeout")
  BY <1>7, <1>0, WatchAssumption DEF IOReturns, Elapsed,
     WatchIInv, WatchTypes, BoundToCall, DeadlinesOwned, WatchBound, Req, Owned, InCall, Kind,
     CtxType, DeadlineType, NoDeadline
<1>8. CASE IOReturns("closed")
  BY Zenon, <1>8, <1>0, WatchAssumption DEF IOReturns,
     WatchIInv, WatchTypes, BoundToCall, DeadlinesOwned, WatchBound, Req, Owned, InCall, Kind,
     CtxType, DeadlineType, NoDeadline
<1>9. CASE Disarm
  BY <1>9, <1>0, WatchAssumption DEF Disarm, AfterDisarm,
     WatchIInv, WatchTypes, BoundToCall, DeadlinesOwned, WatchBound, Req, Owned, InCall, Kind,
     CtxType, DeadlineType, NoDeadline
<1>10. CASE Return
  <2>1. /\ callAt = "clear" /\ callAt' \in {"failed", "start", "pooled"}
        /\ blocking' \in {"write", "response", "body"}
        /\ callAt' = "start" /\ blocking' = "body" => blocking # "write"
        /\ UNCHANGED <<cur, ctx, armed, result, wd, watched>>
    BY Zenon, <1>10 DEF Return, WatchIInv, WatchTypes
  <2>2. /\ deadline' = IF blocking = "write" THEN [deadline EXCEPT !["write"] = NoDeadline]
                       ELSE deadline
        /\ NoDeadline \in DeadlineType
    BY <1>10, WatchAssumption DEF Return, NoDeadline, DeadlineType
  <2>3. /\ deadline' \in [{"read", "write"} -> DeadlineType]
        /\ deadline'["write"] = NoDeadline /\ deadline'["read"] = deadline["read"]
    BY Zenon, <2>2 DEF WatchIInv, WatchTypes, DeadlinesOwned
  <2>4. WatchTypes'
    BY Zenon, <2>1, <2>3 DEF WatchIInv, WatchTypes
  <2>5. BoundToCall'
    BY Zenon, <2>1 DEF WatchIInv, BoundToCall, WatchBound
  <2>6. blocking # "write" => Owned(deadline["read"])
    BY Zenon, <2>1 DEF WatchIInv, DeadlinesOwned, InCall, Kind
  <2>7. DeadlinesOwned'
    BY Zenon, <2>1, <2>3, <2>6 DEF DeadlinesOwned, InCall, Kind, Owned
  <2> QED
    BY Zenon, <2>1, <2>4, <2>5, <2>7 DEF WatchIInv
<1>11. CASE ProbeDeadline
  BY <1>11, <1>0, WatchAssumption DEF ProbeDeadline,
     WatchIInv, WatchTypes, BoundToCall, DeadlinesOwned, WatchBound, Req, Owned, InCall, Kind,
     CtxType, DeadlineType, NoDeadline
<1>12. CASE ProbeEnds
  BY <1>12, <1>0, WatchAssumption DEF ProbeEnds,
     WatchIInv, WatchTypes, BoundToCall, DeadlinesOwned, WatchBound, Req, Owned, InCall, Kind,
     CtxType, DeadlineType, NoDeadline
<1>13. CASE NextExchange
  BY Zenon, <1>13, <1>0, WatchAssumption DEF NextExchange,
     WatchIInv, WatchTypes, BoundToCall, DeadlinesOwned, WatchBound, Req, Owned, InCall, Kind,
     CtxType, DeadlineType, NoDeadline
<1>14. CASE SeeDone
  BY <1>14, <1>0, WatchAssumption DEF SeeDone,
     WatchIInv, WatchTypes, BoundToCall, DeadlinesOwned, WatchBound, Req, Owned, InCall, Kind,
     CtxType, DeadlineType, NoDeadline
<1>15. CASE Trip
  <2> DEFINE moved == [of |-> cur, past |-> TRUE]
  <2>1. /\ wd = "tripping" /\ wd' = "tripped" /\ WatchBound
        /\ UNCHANGED <<cur, ctx, blocking, callAt, armed, result, watched>>
    BY Zenon, <1>15 DEF Trip, WatchBound
  <2>2. /\ watched = Req /\ ctx[cur].done
        /\ callAt \in {"io", "disarm"} /\ armed
    BY Zenon, <2>1 DEF WatchIInv, BoundToCall
  <2>3. deadline' = [deadline EXCEPT ![Kind(blocking)] = moved]
    BY Zenon, <1>15, <2>2 DEF Trip, Req
  <2>4. moved \in DeadlineType
    BY <1>0, WatchAssumption DEF DeadlineType, WatchIInv, WatchTypes
  <2>5. /\ deadline' \in [{"read", "write"} -> DeadlineType]
        /\ deadline'[Kind(blocking)] = moved
        /\ blocking = "write" \/ deadline'["write"] = deadline["write"]
    BY Zenon, <2>3, <2>4 DEF WatchIInv, WatchTypes, Kind
  <2>6. WatchTypes'
    BY <2>1, <2>5 DEF WatchIInv, WatchTypes
  <2>7. BoundToCall'
    BY Zenon, <2>1, <2>2 DEF WatchIInv, BoundToCall, WatchBound, Req, Kind
  <2>8. DeadlinesOwned'
    BY <2>1, <2>2, <2>5 DEF WatchIInv, DeadlinesOwned, Owned, Kind
  <2> QED
    BY Zenon, <2>1, <2>6, <2>7, <2>8 DEF WatchIInv
<1>16. CASE SeeQuit
  BY <1>16, <1>0, WatchAssumption DEF SeeQuit,
     WatchIInv, WatchTypes, BoundToCall, DeadlinesOwned, WatchBound, Req, Owned, InCall, Kind,
     CtxType, DeadlineType, NoDeadline
<1>17. ASSUME NEW e \in Watched, CancelContext(e) \/ FallDue(e)
      PROVE  WatchIInv'
  <2>1. UNCHANGED <<cur, blocking, callAt, armed, result, deadline, wd, watched>>
    BY Zenon, <1>17 DEF CancelContext, FallDue
  <2>2. /\ ctx' \in [Watched -> CtxType]
        /\ ctx[cur].done => ctx'[cur].done
        /\ ctx[cur].due => ctx'[cur].due
    <3>1. ctx \in [Watched -> CtxType] /\ cur \in Watched
      BY Zenon DEF WatchIInv, WatchTypes
    <3>2. CASE ctx' = [ctx EXCEPT ![e].done = TRUE]
      BY Zenon, <3>1, <3>2 DEF CtxType
    <3>3. CASE ctx' = [ctx EXCEPT ![e].due = TRUE]
      BY Zenon, <3>1, <3>3 DEF CtxType
    <3> QED
      BY Zenon, <1>17, <3>2, <3>3 DEF CancelContext, FallDue
  <2>3. WatchTypes'
    BY <2>1, <2>2 DEF WatchIInv, WatchTypes
  <2>4. BoundToCall'
    BY Zenon, <2>1, <2>2 DEF WatchIInv, BoundToCall, WatchBound, Req, Kind
  <2>5. DeadlinesOwned'
    BY Zenon, <2>1, <2>2 DEF WatchIInv, DeadlinesOwned, InCall, Owned, Kind
  <2> QED
    BY Zenon, <2>1, <2>2, <2>3, <2>4, <2>5 DEF WatchIInv
<1>18. CASE CloseQuit
  BY <1>18 DEF CloseQuit,
     WatchIInv, WatchTypes, BoundToCall, DeadlinesOwned, WatchBound, Req, Owned, InCall, Kind,
     CtxType, DeadlineType, NoDeadline
<1>19. CASE CloseSocket
  BY <1>19 DEF CloseSocket,
     WatchIInv, WatchTypes, BoundToCall, DeadlinesOwned, WatchBound, Req, Owned, InCall, Kind,
     CtxType, DeadlineType, NoDeadline
<1>20. CASE UNCHANGED watchVars
  BY <1>20 DEF watchVars,
     WatchIInv, WatchTypes, BoundToCall, DeadlinesOwned, WatchBound, Req, Owned, InCall, Kind,
     CtxType, DeadlineType, NoDeadline
<1> QED
  BY Zenon, <1>1, <1>2, <1>3, <1>4, <1>5, <1>6, <1>7, <1>8, <1>9, <1>10, <1>11, <1>12, <1>13,
     <1>14, <1>15, <1>16, <1>17, <1>18, <1>19, <1>20 DEF WatchNext, CallerSteps, WatchdogSteps,
     Rests

\* A call on an HTTP/1.1 connection times out only on its own context's account,
\* however the watchdog, cancellations, timers and Close interleave.
THEOREM TimeoutsAreOwn == WatchSpec => []TimeoutIsOwn
<1>1. WatchIInv => TimeoutIsOwn
  BY Zenon DEF WatchIInv, BoundToCall, DeadlinesOwned, WatchBound, TimeoutIsOwn
<1> QED
  BY <1>1, WatchInitIInv, WatchNextIInv, PTL DEF WatchSpec

=============================================================================
