---------------------------- MODULE QuicListener ----------------------------
(***************************************************************************)
(* The server's listener (quic/listener.go, quic/server.go): the demux     *)
(* loop, one goroutine per handshake, Accept and Close.  A handshake is    *)
(* named after the client whose Initial started it; a client may send its  *)
(* Initial again at any time, so it may have several, one after the other. *)
(* Every critical section of Listener.mu and every socket call is a step.  *)
(***************************************************************************)
EXTENDS Integers, Sequences, Functions

CONSTANTS
  Clients,     \* original destination connection IDs
  MaxRuns,     \* bound: handshakes started in all
  Backlog      \* capacity of Listener.accepted

Nobody == "nobody"

ASSUME ListenerAssumption == Nobody \notin Clients /\ MaxRuns \in Nat /\ Backlog \in Nat

VARIABLES
  inHand,     \* the client whose Initial serve has read and not yet routed
  halfOpen,   \* Listener.halfOpen
  hs,         \* the handshakes, in the order they started
  routes,     \* Listener.conns, by handshake
  halfPCs,    \* Listener.halfPCs, by handshake
  accepted,   \* Listener.accepted
  closing,    \* where Close is: "no", "closed", "socket", "woke", "done"
  waking      \* the views Close collected and has yet to close

lisVars == <<inHand, halfOpen, hs, routes, halfPCs, accepted, closing, waking>>

Runs == DOMAIN hs
SocketOpen == closing \in {"no", "closed"}
Closed == closing # "no"
Ended(h) == hs[h].at = "gone"

\* serve reads an Initial whose DCID no connection was given.
ServeReads(c) ==
  /\ SocketOpen /\ inHand = Nobody /\ Len(hs) < MaxRuns
  /\ inHand' = c
  /\ UNCHANGED <<halfOpen, hs, routes, halfPCs, accepted, closing, waking>>

\* route: it starts a handshake unless one is half open for that client.
Route ==
  /\ inHand # Nobody /\ inHand' = Nobody
  /\ IF inHand \in halfOpen
     THEN UNCHANGED <<halfOpen, hs>>
     ELSE /\ halfOpen' = halfOpen \cup {inHand}
          /\ hs' = Append(hs, [client |-> inHand, at |-> "start", view |-> "none", tls |-> FALSE,
                               owned |-> FALSE])
  /\ UNCHANGED <<routes, halfPCs, accepted, closing, waking>>

Goto(h, at) == hs' = [hs EXCEPT ![h].at = at]

\* AcceptInitial or StartServerHandshake fails: the Initial is forgotten again.
Refuse(h) ==
  /\ hs[h].at = "start"
  /\ Goto(h, "gone")
  /\ halfOpen' = halfOpen \ {hs[h].client}
  /\ UNCHANGED <<inHand, routes, halfPCs, accepted, closing, waking>>

\* StartServerHandshake holds the TLS goroutine; the view is routed before any
\* datagram leaves.
Register(h) ==
  /\ hs[h].at = "start"
  /\ hs' = [hs EXCEPT ![h] = [@ EXCEPT !.at = "flight", !.view = "open", !.tls = TRUE]]
  /\ routes' = routes \cup {h} /\ halfPCs' = halfPCs \cup {h}
  /\ UNCHANGED <<inHand, halfOpen, accepted, closing, waking>>

\* Faulty variant: the outcome of sending the flight is not looked at.
SendFlightUnchecked(h) ==
  /\ hs[h].at = "flight"
  /\ Goto(h, "read")
  /\ UNCHANGED <<inHand, halfOpen, routes, halfPCs, accepted, closing, waking>>

\* The flight goes out, or the socket is closed and the handshake is abandoned.
SendFlight(h) ==
  /\ hs[h].at = "flight"
  /\ Goto(h, IF SocketOpen THEN "read" ELSE "abandon")
  /\ UNCHANGED <<inHand, halfOpen, routes, halfPCs, accepted, closing, waking>>

\* completeHandshake: Read returns a datagram, buffered in the view perhaps since
\* before a Close, that completes or fails the handshake.
Reads(h) ==
  /\ hs[h].at = "read"
  /\ Goto(h, "publish") \/ Goto(h, "abandon")
  /\ UNCHANGED <<inHand, halfOpen, routes, halfPCs, accepted, closing, waking>>

\* Read returns net.ErrClosed.
ReadsClosed(h) ==
  /\ hs[h].at = "read" /\ hs[h].view = "closed"
  /\ Goto(h, "abandon")
  /\ UNCHANGED <<inHand, halfOpen, routes, halfPCs, accepted, closing, waking>>

\* listenerHandshakeTimeout
HandshakeTimeout(h) ==
  /\ hs[h].at = "read"
  /\ Goto(h, "abandon")
  /\ UNCHANGED <<inHand, halfOpen, routes, halfPCs, accepted, closing, waking>>

\* The connection goes to Accept if there is room, and is dropped when the listener
\* closed; with both possible, select picks either.
Publish(h) ==
  /\ hs[h].at = "publish"
  /\ \/ /\ Len(accepted) < Backlog
        /\ accepted' = Append(accepted, h)
        /\ hs' = [hs EXCEPT ![h] = [@ EXCEPT !.at = "drop1", !.owned = TRUE]]
     \/ /\ Closed
        /\ Goto(h, "abandon")
        /\ UNCHANGED accepted
  /\ UNCHANGED <<inHand, halfOpen, routes, halfPCs, closing, waking>>

\* The deferred calls of a handshake that was not accepted close TLS and the view,
\* whose onClose drops the route.
Abandon(h) ==
  /\ hs[h].at = "abandon"
  /\ hs' = [hs EXCEPT ![h] = [@ EXCEPT !.at = "drop1", !.view = "closed", !.tls = FALSE]]
  /\ routes' = routes \ {h}
  /\ UNCHANGED <<inHand, halfOpen, halfPCs, accepted, closing, waking>>

\* dropHalfPC
DropHalfPC(h) ==
  /\ hs[h].at = "drop1"
  /\ Goto(h, "drop2")
  /\ halfPCs' = halfPCs \ {h}
  /\ UNCHANGED <<inHand, halfOpen, routes, accepted, closing, waking>>

\* dropHalfOpen
DropHalfOpen(h) ==
  /\ hs[h].at = "drop2"
  /\ Goto(h, "gone")
  /\ halfOpen' = halfOpen \ {hs[h].client}
  /\ UNCHANGED <<inHand, routes, halfPCs, accepted, closing, waking>>

\* Accept hands a connection out, also after Close: its select picks either.
Accept ==
  /\ accepted # <<>>
  /\ accepted' = Tail(accepted)
  /\ UNCHANGED <<inHand, halfOpen, hs, routes, halfPCs, closing, waking>>

\* Its owner closes it: terminateLocked ends TLS and closes the view.
CloseConn(h) ==
  /\ hs[h].owned /\ h \notin Range(accepted)
  /\ hs' = [hs EXCEPT ![h] = [@ EXCEPT !.owned = FALSE, !.view = "closed", !.tls = FALSE]]
  /\ routes' = routes \ {h}
  /\ UNCHANGED <<inHand, halfOpen, halfPCs, accepted, closing, waking>>

\* Close: the closed channel, the socket, the views in flight, then the wait.
CloseStarts ==
  /\ closing = "no" /\ closing' = "closed"
  /\ UNCHANGED <<inHand, halfOpen, hs, routes, halfPCs, accepted, waking>>
CloseSocket ==
  /\ closing = "closed" /\ closing' = "socket"
  /\ UNCHANGED <<inHand, halfOpen, hs, routes, halfPCs, accepted, waking>>
CloseCollects ==
  /\ closing = "socket" /\ closing' = "woke" /\ waking' = halfPCs
  /\ UNCHANGED <<inHand, halfOpen, hs, routes, halfPCs, accepted>>
CloseWakes(h) ==
  /\ h \in waking
  /\ waking' = waking \ {h}
  /\ hs' = [hs EXCEPT ![h].view = "closed"]
  /\ routes' = routes \ {h}
  /\ UNCHANGED <<inHand, halfOpen, halfPCs, accepted, closing>>
CloseReturns ==
  /\ closing = "woke" /\ waking = {}
  /\ inHand = Nobody /\ \A h \in Runs : Ended(h)
  /\ closing' = "done"
  /\ UNCHANGED <<inHand, halfOpen, hs, routes, halfPCs, accepted, waking>>

LisInit ==
  /\ inHand = Nobody /\ halfOpen = {} /\ hs = <<>> /\ routes = {} /\ halfPCs = {} /\ accepted = <<>>
  /\ closing = "no" /\ waking = {}

LisNext ==
  \/ \E c \in Clients : ServeReads(c)
  \/ Route \/ Accept \/ CloseStarts \/ CloseSocket \/ CloseCollects \/ CloseReturns
  \/ \E h \in Runs :
       \/ Refuse(h) \/ Register(h) \/ SendFlight(h) \/ Reads(h) \/ ReadsClosed(h)
       \/ HandshakeTimeout(h) \/ Publish(h) \/ Abandon(h) \/ DropHalfPC(h)
       \/ DropHalfOpen(h) \/ CloseConn(h) \/ CloseWakes(h)

LisSpec == LisInit /\ [][LisNext]_lisVars

(***************************************************************************)
(* Close never waits out a handshake's timeout: once it has closed the     *)
(* views it collected, no handshake is parked, or about to park, in a read *)
(* that nothing but listenerHandshakeTimeout would end, however the        *)
(* registration of its view interleaves with Close                         *)
(* (src/quic/listener.go:244).  And the tables hold live connections only  *)
(* (src/quic/listener.go:351, :362): when a handshake is over, its route   *)
(* and its TLS goroutine are gone unless a connection owns them, and the   *)
(* entry that makes serve ignore its client's Initial is gone.             *)
(***************************************************************************)
ListenerWindsDown ==
  /\ (closing = "woke" /\ waking = {}) =>
       \A h \in Runs : ~(hs[h].at = "read" /\ hs[h].view = "open")
  /\ \A h \in Runs :
       Ended(h) => /\ h \notin halfPCs
                   /\ ~hs[h].owned => h \notin routes /\ ~hs[h].tls
  /\ \A c \in halfOpen : \E h \in Runs : hs[h].client = c /\ ~Ended(h)
=============================================================================
