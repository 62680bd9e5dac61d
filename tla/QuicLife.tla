------------------------------ MODULE QuicLife ------------------------------
(***************************************************************************)
(* Waiting for stream credit and the end of a QUIC connection              *)
(* (quic/stream.go OpenStreamContext, quic/send.go emitStreamsBlocked,     *)
(* quic/close.go, quic/conn.go terminateLocked, quic/conn_recv.go Poll).   *)
(* Openers share one token, streamCredit; the peer raises the limit when   *)
(* it pleases and learns of a blocked opener from STREAMS_BLOCKED, which   *)
(* is lost, retransmitted with a fresh limit, or dropped when stale.  Each *)
(* critical section of Conn.mu is one step.                                *)
(***************************************************************************)
EXTENDS Integers, FiniteSets

CONSTANTS
  Openers,     \* callers of OpenStreamContext and OpenStream
  MaxLimit     \* bound: the highest stream limit the peer grants

ASSUME LifeAssumption == MaxLimit \in Nat

NoLimit == -1
NoError == "none"

VARIABLES
  limit,       \* peer.InitialMaxStreamsBidi
  opened,      \* openedBidi
  token,       \* streamCredit holds its token
  opener,      \* where each caller is, the limit it saw and the error it got
  blockedAt,   \* streamsBlockedLimit[0], NoLimit while not set
  notices,     \* STREAMS_BLOCKED sent and neither acknowledged nor declared lost
  requeued,    \* STREAMS_BLOCKED in retransQueue
  told,       \* limits the peer was told somebody is blocked at
  terminated, closed, closeErr

lifeVars == <<limit, opened, token, opener, blockedAt, notices, requeued, told,
              terminated, closed, closeErr>>
credVars == <<limit, opened, token, blockedAt, notices, requeued, told>>
endVars == <<terminated, closed, closeErr>>

StreamsBlockedNow == opened >= limit
Goes(o, at) ==
  opener' = [opener EXCEPT ![o] =
               [@ EXCEPT !.at = at, !.seen = IF at = "parked" THEN limit ELSE NoLimit]]

\* Faulty variant: the frame is not recorded for retransmission.
EmitStreamsBlockedOnce ==
  IF closed \/ blockedAt = limit
  THEN UNCHANGED <<blockedAt, notices, told>>
  ELSE /\ blockedAt' = limit
       /\ told' \in {told, told \cup {limit}}
       /\ UNCHANGED notices

\* emitStreamsBlocked: once per limit.  sealPacket records the frame before the
\* write, so a failed write leaves the limit unlatched and the frame outstanding.
EmitStreamsBlocked ==
  IF closed \/ blockedAt = limit
  THEN UNCHANGED <<blockedAt, notices, told>>
  ELSE /\ notices' = notices \cup {[limit |-> limit, arrived |-> FALSE]}
       /\ blockedAt' \in {limit, blockedAt}
       /\ UNCHANGED told

\* The baton pass: with credit left, the next parked opener is woken too.
BatonPass == token' = (token \/ opened + 1 < limit)

\* openStreamLocked.  At the limit OpenStreamContext goes on to wait and OpenStream
\* returns ErrTooManyStreams.
TryOpen(o) ==
  /\ opener[o].at = "try"
  /\ IF StreamsBlockedNow
     THEN /\ Goes(o, "parked") \/ Goes(o, "refused")
          /\ EmitStreamsBlocked
          /\ UNCHANGED <<opened, token>>
     ELSE /\ Goes(o, "open")
          /\ opened' = opened + 1
          /\ BatonPass
          /\ UNCHANGED <<blockedAt, notices, told>>
  /\ UNCHANGED <<limit, requeued, endVars>>

\* waitStreamCredit, one action per case of its select.
WakeOnCredit(o) ==
  /\ opener[o].at = "parked" /\ token
  /\ token' = FALSE /\ Goes(o, "try")
  /\ UNCHANGED <<limit, opened, blockedAt, notices, requeued, told, endVars>>
WakeOnCtx(o) ==
  /\ opener[o].at = "parked"
  /\ Goes(o, "cancelled")
  /\ UNCHANGED <<credVars, endVars>>
WakeOnDone(o) ==
  /\ opener[o].at = "parked" /\ terminated
  /\ opener' = [opener EXCEPT ![o] = [@ EXCEPT !.at = "failed", !.err = closeErr]]
  /\ UNCHANGED <<credVars, endVars>>

\* OnMaxStreams for bidirectional streams; a frame that does not raise is ignored.
OnMaxStreams(m) ==
  /\ ~terminated /\ m > limit
  /\ limit' = m /\ token' = TRUE
  /\ UNCHANGED <<opened, opener, blockedAt, notices, requeued, told, endVars>>

\* OnMaxStreams for unidirectional streams signals the same token.
OnMaxStreamsUni ==
  /\ ~terminated /\ ~token
  /\ token' = TRUE
  /\ UNCHANGED <<limit, opened, opener, blockedAt, notices, requeued, told, endVars>>

\* The fate of a packet with a STREAMS_BLOCKED: it arrives, is acknowledged, or is
\* declared lost, rightly or not.
NoticeArrives(n) ==
  /\ ~n.arrived /\ ~terminated
  /\ notices' = (notices \ {n}) \cup {[n EXCEPT !.arrived = TRUE]}
  /\ told' = told \cup {n.limit}
  /\ UNCHANGED <<limit, opened, token, opener, blockedAt, requeued, endVars>>
NoticeAcked(n) ==
  /\ n.arrived /\ ~terminated
  /\ notices' = notices \ {n}
  /\ UNCHANGED <<limit, opened, token, opener, blockedAt, requeued, told, endVars>>
NoticeLost(n) ==
  /\ ~terminated
  /\ notices' = notices \ {n} /\ requeued' = requeued \cup {n.limit}
  /\ UNCHANGED <<limit, opened, token, opener, blockedAt, told, endVars>>

\* flush retransmits it with the limit of now, or drops it when nobody is blocked.
Retransmit(l) ==
  /\ l \in requeued /\ ~terminated
  /\ requeued' = requeued \ {l}
  /\ notices' = IF StreamsBlockedNow
                THEN notices \cup {[limit |-> limit, arrived |-> FALSE]} ELSE notices
  /\ UNCHANGED <<limit, opened, token, opener, blockedAt, told, endVars>>

\* terminateLocked: the first error is published before done is closed.
Terminate(err) ==
  /\ terminated' = TRUE
  /\ closeErr' = IF terminated THEN closeErr ELSE err

\* CloseWithError and Close by the owner, and fail for a violation with a code.
CloseWithError ==
  /\ Terminate("ErrConnClosed") /\ closed' = TRUE
  /\ UNCHANGED <<credVars, opener>>

\* idleClose and statelessResetReceived
ClosedByReader(err) ==
  /\ ~terminated
  /\ Terminate(err) /\ closed' = TRUE
  /\ UNCHANGED <<credVars, opener>>

\* Poll ends in an I/O error or its context: terminated, and not closed.  After a
\* Close it finds the socket closed.
PollFails ==
  /\ Terminate("poll error")
  /\ UNCHANGED <<credVars, opener, closed>>

LifeInit ==
  /\ limit = 0 /\ opened = 0 /\ token = FALSE
  /\ opener = [o \in Openers |-> [at |-> "try", seen |-> NoLimit, err |-> NoError]]
  /\ blockedAt = NoLimit /\ notices = {} /\ requeued = {} /\ told = {}
  /\ terminated = FALSE /\ closed = FALSE /\ closeErr = NoError

LifeNext ==
  \/ \E o \in Openers : TryOpen(o) \/ WakeOnCredit(o) \/ WakeOnCtx(o) \/ WakeOnDone(o)
  \/ \E m \in 1..MaxLimit : OnMaxStreams(m)
  \/ \E n \in notices : NoticeArrives(n) \/ NoticeAcked(n) \/ NoticeLost(n)
  \/ \E l \in requeued : Retransmit(l)
  \/ \E err \in {"peer closed", "ErrIdleTimeout", "ErrStatelessReset"} : ClosedByReader(err)
  \/ OnMaxStreamsUni \/ CloseWithError \/ PollFails

LifeSpec == LifeInit /\ [][LifeNext]_lifeVars

Parked == {o \in Openers : opener[o].at = "parked"}
Stirring == token \/ \E o \in Openers : opener[o].at = "try"
PeerIsTold == limit \in told \/ requeued # {} \/ \E n \in notices : n.limit = limit

(***************************************************************************)
(* No opener waits for a reason that is gone, or in a way nobody can end   *)
(* (src/quic/stream.go:60, src/quic/send.go:279).  While the connection    *)
(* lives and an opener is parked, the token is there, or another opener is *)
(* about to look at the limit, or there is no credit; and an opener that   *)
(* was refused at the limit still in force has its STREAMS_BLOCKED told,  *)
(* outstanding or queued, whatever writes failed and packets were lost.    *)
(* When the connection ended, every opener it fails gets the one error it  *)
(* ended with.                                                             *)
(***************************************************************************)
CreditReachesOpeners ==
  /\ (~terminated /\ Parked # {}) => Stirring \/ StreamsBlockedNow
  /\ \A o \in Parked : (~terminated /\ opener[o].seen = limit) => PeerIsTold
  /\ \A o \in Openers : opener[o].at = "failed" => opener[o].err = closeErr
=============================================================================
