------------------------------ MODULE HostPool ------------------------------
(***************************************************************************)
(* The per-host HTTP/2 connection pool of internal/poolcore/pool.go: an    *)
(* actor goroutine that owns RunState, the callers that acquire and        *)
(* release stream slots, the dial goroutines, and the reclaim goroutines   *)
(* that consume the reply owed to an abandoned acquire.                    *)
(*                                                                         *)
(* Every handler of the actor is one action.  Connections die, receive     *)
(* GOAWAY and change their peer's stream limit between handlers.           *)
(***************************************************************************)
EXTENDS Integers, FiniteSets, Sequences

CONSTANTS
  Callers,            \* goroutines that call Pool.Acquire
  Conns,              \* identities of *ManagedConn
  NoConn,             \* "no connection": the nil Mc of an AcquireResp
  MaxConnsPerHost,    \* PoolOptions.MaxConnsPerHost, floored at 1 by New
  MaxStreamsPerConn,  \* PoolOptions.MaxStreamsPerConn, 0 = unbounded
  DefaultStreams,     \* defaultMaxConcurrentStreams
  PeerCaps,           \* values of the peer's MAX_CONCURRENT_STREAMS, 0 = unbounded
  MaxLosses           \* bound: how many times the environment breaks a connection

ASSUME PoolAssumption ==
  /\ NoConn \notin Conns
  /\ IsFiniteSet(Callers) /\ IsFiniteSet(Conns)
  /\ MaxConnsPerHost \in Nat \ {0}
  /\ MaxStreamsPerConn \in Nat
  /\ DefaultStreams \in Nat \ {0}
  /\ PeerCaps \subseteq Nat /\ 0 \in PeerCaps
  /\ MaxLosses \in Nat

VARIABLES
  pooled,     \* RunState.Conns
  active,     \* ManagedConn.Active
  streamCap,  \* ManagedConn.StreamCap, the cached effective limit
  waiters,    \* RunState.Waiters, in arrival order
  dials,      \* RunState.InFlightDials
  backoff,    \* InDialBackoff(RunState.LastDialErrAt, DialBackoff)
  status,     \* "open", "closing" (closeCh closed), "closed" (closedCh closed)
  drain,      \* results the drainer goroutine of handleClose still awaits
  dialing,    \* dialOne goroutines that have not produced a result
  dialed,     \* connections in DialResults the actor has not handled
  dialErrs,   \* failed DialResults the actor has not handled
  peer,       \* what the transport of each connection does: see PeerStates
  closed,     \* connections on which Close was called
  peerCap,    \* the peer's current MAX_CONCURRENT_STREAMS
  losses,     \* how often a connection was lost so far
  pc,         \* per caller: where its goroutine (or its reclaim goroutine) is
  expired,    \* callers whose context is done
  reply,      \* per caller: the content of its cap-1 reply channel
  grant       \* per caller: the connection whose slot the actor committed to it

vars == <<pooled, active, streamCap, waiters, dials, backoff, status, drain,
          dialing, dialed, dialErrs, peer, closed, peerCap, losses,
          pc, expired, reply, grant>>

actorVars == <<pooled, active, streamCap, waiters, dials, backoff>>
dialVars  == <<dialing, dialed, dialErrs>>
connVars  == <<peer, closed, peerCap, losses>>

\* "unused" is a connection identity that names no connection.
PeerStates == {"unused", "alive", "goaway", "dead"}

Errors  == {"dialError", "dialBackoff", "poolClosed", "ctxErr"}
Replies == Errors \cup {"none", "conn"}
Stages  == {"idle", "waiting", "reclaiming", "holding", "releasing"}

-----------------------------------------------------------------------------
(* Capacity: what the actor computes from RunState.                        *)

\* conn.IsAlive: no GOAWAY, reader running, not closed.
IsAlive(c) == peer[c] = "alive" /\ c \notin closed

Live(cs) == {c \in cs : IsAlive(c)}

\* CountLive
CountLive(cs) == Cardinality(Live(cs))

Smaller(a, b) == IF a < b THEN a ELSE b

\* EffectiveStreamCap: the smaller limit, where 0 means unbounded.
EffectiveStreamCap(localCap, pcap) ==
  IF localCap = 0 THEN (IF pcap = 0 THEN DefaultStreams ELSE pcap)
  ELSE IF pcap = 0 THEN localCap ELSE Smaller(pcap, localCap)

\* Faulty variant: the admission test is off by one.
HasRoomOffByOne(c, act, cap) == IsAlive(c) /\ act[c] <= cap[c]

\* Admission test shared by PickLeastLoaded and SpareStreamCapacity.
HasRoom(c, act, cap) == IsAlive(c) /\ act[c] < cap[c]

\* PickLeastLoaded: the rotating cursor only decides between equally loaded
\* connections, so the choice among them is left open here.
PickLeastLoaded(cs, act, cap) ==
  {c \in cs : /\ HasRoom(c, act, cap)
              /\ \A d \in cs : HasRoom(d, act, cap) => act[c] <= act[d]}

\* PickLeastLoaded returns nil.
NoneFree(cs, act, cap) == \A c \in cs : ~HasRoom(c, act, cap)

\* SpareStreamCapacity: one pair per free slot.
SpareStreamCapacity(cs, act, cap) ==
  Cardinality(UNION {{c} \X ((act[c] + 1)..cap[c]) : c \in Live(cs)})

\* The load of every connection after the first n picks of the sequence f.
LoadAfter(act, f, n) ==
  [c \in Conns |-> act[c] + Cardinality({j \in 1..n : f[j] = c})]

\* serveWaiters: the first n waiters get the connections f[1], ..., f[n]; each
\* is a legal pick, and the loop stops only when the queue or the capacity is
\* exhausted.
ServeWaiters(cs, act, cap, n, f) ==
  /\ \A i \in 1..n : f[i] \in PickLeastLoaded(cs, LoadAfter(act, f, i - 1), cap)
  /\ \/ n = Len(waiters)
     \/ NoneFree(cs, LoadAfter(act, f, n), cap)

\* Faulty variant: only the arrival of a request may start a dial.
EnsureDialNever(cs, act, cap, ws, d, inBackoff) == 0

\* EnsureDialForWaiters: how many dials it starts.
EnsureDialForWaiters(cs, act, cap, ws, d, inBackoff) ==
  LET room      == MaxConnsPerHost - CountLive(cs) - d
      perConn   == EffectiveStreamCap(MaxStreamsPerConn, 0)
      uncovered == Len(ws) - SpareStreamCapacity(cs, act, cap) - d * perConn
      need      == (uncovered + perConn - 1) \div perConn
  IN IF ws = <<>> \/ room <= 0 \/ inBackoff \/ uncovered <= 0 THEN 0
     ELSE Smaller(need, room)

\* FlushStrandedWaiters: the state in which it refuses the whole queue.
Stranded(cs, ws, d, inBackoff) ==
  /\ ws # <<>>
  /\ d = 0
  /\ CountLive(cs) = 0
  /\ inBackoff

\* The backoff window is read anew by each guard of a handler and may close
\* between two reads, never open.
LaterBackoff(b) == IF b THEN BOOLEAN ELSE {FALSE}

\* The increasing enumeration of a set of queue positions.
Enumerations(S) ==
  {h \in [1..Cardinality(S) -> S] :
     /\ \A i, j \in 1..Cardinality(S) : i < j => h[i] < h[j]
     /\ \A p \in S : \E i \in 1..Cardinality(S) : h[i] = p}

InQueue(k, ws) == \E i \in 1..Len(ws) : ws[i] = k

-----------------------------------------------------------------------------
Init ==
  /\ pooled = {}
  /\ active = [c \in Conns |-> 0]
  /\ streamCap = [c \in Conns |-> 0]
  /\ waiters = <<>>
  /\ dials = 0
  /\ backoff = FALSE
  /\ status = "open"
  /\ drain = 0
  /\ dialing = 0
  /\ dialed = {}
  /\ dialErrs = 0
  /\ peer = [c \in Conns |-> "unused"]
  /\ closed = {}
  /\ peerCap = [c \in Conns |-> 0]
  /\ losses = 0
  /\ pc = [k \in Callers |-> "idle"]
  /\ expired = {}
  /\ reply = [k \in Callers |-> "none"]
  /\ grant = [k \in Callers |-> NoConn]

\* The first n waiters got f[1], ..., f[n]; queue is what remains of the others:
\* EnsureDialForWaiters, then FlushStrandedWaiters if the handler calls it.  b is
\* the backoff the first of them reads, b2 the one the second reads.
DialAndFlush(cs, act, cap, d, b, b2, gr, n, f, queue, flushes) ==
  LET new    == EnsureDialForWaiters(cs, act, cap, queue, d, b)
      flush  == flushes /\ Stranded(cs, queue, d + new, b2)
      served == {waiters[i] : i \in 1..n}
  IN /\ pooled' = cs
     /\ active' = act
     /\ streamCap' = cap
     /\ waiters' = IF flush THEN <<>> ELSE queue
     /\ dials' = d + new
     /\ dialing' = dialing + new
     /\ backoff' = b2
     /\ reply' = [k \in Callers |->
          IF k \in served THEN "conn"
          ELSE IF InQueue(k, queue) THEN IF flush THEN "dialBackoff" ELSE reply[k]
          ELSE IF InQueue(k, waiters) THEN "ctxErr"
          ELSE reply[k]]
     /\ grant' = [k \in Callers |->
          IF k \in served THEN f[CHOOSE i \in 1..n : waiters[i] = k] ELSE gr[k]]

\* The tail every capacity-changing handler ends with: serveWaiters, then
\* pruneExpiredWaiters of the callers in done (on a tick), then DialAndFlush.
\* cs, act, cap, d and gr are the state the handler has computed before it.
ServeDialFlush(cs, act, cap, d, b, gr, done, flushes) ==
  \E n \in 0..Len(waiters) : \E f \in [1..n -> cs], b2 \in LaterBackoff(b) :
  \E h \in Enumerations({i \in (n + 1)..Len(waiters) : waiters[i] \notin done}) :
    /\ ServeWaiters(cs, act, cap, n, f)
    /\ DialAndFlush(cs, LoadAfter(act, f, n), cap, d, b, b2, gr, n, f,
                    [j \in DOMAIN h |-> waiters[h[j]]], flushes)

\* Acquire's first select succeeds: the unbuffered send is the handler's start.
\* handleAcquire serves, dials, refuses or queues the request.
HandleAcquire(k) ==
  LET picks == PickLeastLoaded(pooled, active, streamCap)
      full  == NoneFree(pooled, active, streamCap)
      live  == CountLive(pooled)
      atCap == live + dials >= MaxConnsPerHost
  IN /\ status # "closed"
     /\ pc[k] = "idle"
     /\ pc' = [pc EXCEPT ![k] = "waiting"]
     /\ \/ \E c \in picks :
             /\ active' = [active EXCEPT ![c] = @ + 1]
             /\ reply' = [reply EXCEPT ![k] = "conn"]
             /\ grant' = [grant EXCEPT ![k] = c]
             /\ UNCHANGED <<waiters, dials, dialing>>
        \/ /\ full /\ ~atCap /\ ~backoff
           /\ dials' = dials + 1
           /\ dialing' = dialing + 1
           /\ waiters' = Append(waiters, k)
           /\ UNCHANGED <<active, reply, grant>>
        \/ /\ full /\ backoff /\ live = 0 /\ dials = 0
           /\ reply' = [reply EXCEPT ![k] = "dialBackoff"]
           /\ UNCHANGED <<active, grant, waiters, dials, dialing>>
        \/ /\ full /\ (atCap \/ backoff) /\ ~(backoff /\ live = 0 /\ dials = 0)
           /\ waiters' = Append(waiters, k)
           /\ UNCHANGED <<active, reply, grant, dials, dialing>>
     /\ UNCHANGED <<pooled, streamCap, backoff, status, drain, dialed, dialErrs,
                    connVars, expired>>

\* HandleRelease: the actor takes k's ReleaseMsg.
HandleRelease(k) ==
  LET c     == grant[k]
      act   == [active EXCEPT ![c] = @ - 1]
      evict == ~IsAlive(c) /\ act[c] = 0
      cs    == IF evict THEN pooled \ {c} ELSE pooled
  IN /\ status # "closed"
     /\ pc[k] = "releasing"
     /\ pc' = [pc EXCEPT ![k] = "idle"]
     /\ closed' = IF evict /\ c \in pooled THEN closed \cup {c} ELSE closed
     /\ ServeDialFlush(cs, act, streamCap, dials, backoff,
                       [grant EXCEPT ![k] = NoConn], {}, TRUE)
     /\ UNCHANGED <<status, drain, dialed, dialErrs, peer, peerCap, losses, expired>>

\* HandleDialDone with a connection: it joins the pool and serves waiters.
HandleDialOk(c) ==
  /\ status # "closed"
  /\ c \in dialed
  /\ dialed' = dialed \ {c}
  /\ ServeDialFlush(pooled \cup {c}, active,
                    [streamCap EXCEPT ![c] =
                        EffectiveStreamCap(MaxStreamsPerConn, peerCap[c])],
                    dials - 1, backoff, grant, {}, FALSE)
  /\ UNCHANGED <<status, drain, dialErrs, connVars, pc, expired>>

\* HandleDialDone with an error: the front waiter gets it, the rest get a new
\* dial or, when the pool has nothing to offer, the same error.
HandleDialErr ==
  LET front == waiters # <<>>
      queue == IF front THEN Tail(waiters) ELSE waiters
  IN /\ status # "closed"
     /\ dialErrs > 0
     /\ dialErrs' = dialErrs - 1
     /\ \E b1 \in BOOLEAN : \E b2 \in LaterBackoff(b1) :
          LET new   == EnsureDialForWaiters(pooled, active, streamCap, queue,
                                            dials - 1, b1)
              flush == Stranded(pooled, queue, dials - 1 + new, b2)
          IN /\ dials' = dials - 1 + new
             /\ dialing' = dialing + new
             /\ backoff' = b2
             /\ waiters' = IF flush THEN <<>> ELSE queue
             /\ reply' = [k \in Callers |->
                  IF \/ front /\ k = Head(waiters)
                     \/ flush /\ InQueue(k, queue)
                  THEN "dialError" ELSE reply[k]]
     /\ UNCHANGED <<pooled, active, streamCap, status, drain, dialed, connVars,
                    pc, expired, grant>>

\* What evictDead and evictDeadSilent remove and close.
Dead == {c \in pooled : ~IsAlive(c) /\ active[c] = 0}

\* handleStats: evictDeadSilent.
HandleStats ==
  /\ status # "closed"
  /\ pooled' = pooled \ Dead
  /\ closed' = closed \cup Dead
  /\ UNCHANGED <<active, streamCap, waiters, dials, backoff, status, drain,
                 dialVars, peer, peerCap, losses, pc, expired, reply, grant>>

\* HandleTick: evictDead, EvictIdle (idle times are not tracked: any unused
\* connection may have been idle too long), refreshStreamCap for the rest, then
\* the common tail with pruning.
HandleTick ==
  /\ status # "closed"
  /\ \E idle \in SUBSET {c \in pooled : active[c] = 0} :
       LET gone == Dead \cup idle
           cs   == pooled \ gone
           cap  == [c \in Conns |->
                      IF c \in cs
                      THEN EffectiveStreamCap(MaxStreamsPerConn, peerCap[c])
                      ELSE streamCap[c]]
       IN /\ closed' = closed \cup gone
          /\ ServeDialFlush(cs, active, cap, dials, backoff, grant, expired, TRUE)
  /\ UNCHANGED <<status, drain, dialed, dialErrs, peer, peerCap, losses, pc, expired>>

\* How many connections a warmup to n still misses.
WarmupNeed(n) == Smaller(n, MaxConnsPerHost) - CountLive(pooled) - dials

\* Warmup and handleWarmup: dial up to n connections, within the limits.
HandleWarmup(n) ==
  /\ status # "closed"
  /\ WarmupNeed(n) > 0 /\ ~backoff
  /\ dials' = dials + WarmupNeed(n)
  /\ dialing' = dialing + WarmupNeed(n)
  /\ UNCHANGED <<pooled, active, streamCap, waiters, backoff, status, drain,
                 dialed, dialErrs, connVars, pc, expired, reply, grant>>

\* Pool.Close: closes closeCh.
Close ==
  /\ status = "open"
  /\ status' = "closing"
  /\ UNCHANGED <<actorVars, drain, dialVars, connVars, pc, expired, reply, grant>>

\* Every queued request is answered with the error why.
RefuseAll(why) ==
  [k \in Callers |-> IF InQueue(k, waiters) THEN why ELSE reply[k]]

\* handleClose, after which run returns and closedCh is closed: waiters are
\* refused, a drainer is started for the dials in flight, pooled connections
\* are closed.
HandleClose ==
  /\ status = "closing"
  /\ status' = "closed"
  /\ reply' = RefuseAll("poolClosed")
  /\ waiters' = <<>>
  /\ drain' = dials
  /\ dials' = 0
  /\ closed' = closed \cup pooled
  /\ pooled' = {}
  /\ UNCHANGED <<active, streamCap, backoff, dialVars, peer, peerCap, losses,
                 pc, expired, grant>>

\* Faulty variant: the drainer discards the connections it receives.
DrainWithoutClose ==
  /\ drain > 0
  /\ drain' = drain - 1
  /\ \/ \E c \in dialed : dialed' = dialed \ {c} /\ UNCHANGED dialErrs
     \/ dialErrs > 0 /\ dialErrs' = dialErrs - 1 /\ UNCHANGED dialed
  /\ UNCHANGED <<actorVars, status, dialing, connVars, pc, expired, reply, grant>>

\* One receive of the drainer goroutine started by handleClose.
DrainDial ==
  /\ drain > 0
  /\ drain' = drain - 1
  /\ \/ \E c \in dialed :
          /\ dialed' = dialed \ {c}
          /\ closed' = closed \cup {c}
          /\ UNCHANGED dialErrs
     \/ /\ dialErrs > 0
        /\ dialErrs' = dialErrs - 1
        /\ UNCHANGED <<dialed, closed>>
  /\ UNCHANGED <<actorVars, status, dialing, peer, peerCap, losses, pc, expired,
                 reply, grant>>

-----------------------------------------------------------------------------
(* dialOne goroutines.                                                     *)

\* An identity is available for a new connection when nothing refers to it and
\* the connection that last had it, if any, is closed.
Available(c) ==
  /\ c \notin pooled \cup dialed
  /\ \A k \in Callers : grant[k] # c
  /\ peer[c] = "unused" \/ c \in closed

DialOneOk(c, pcap) ==
  /\ dialing > 0
  /\ Available(c)
  /\ dialing' = dialing - 1
  /\ dialed' = dialed \cup {c}
  /\ peer' = [peer EXCEPT ![c] = "alive"]
  /\ closed' = closed \ {c}
  /\ peerCap' = [peerCap EXCEPT ![c] = pcap]
  /\ active' = [active EXCEPT ![c] = 0]
  /\ UNCHANGED <<pooled, streamCap, waiters, dials, backoff, status, drain,
                 dialErrs, losses, pc, expired, reply, grant>>

\* The dial fails, times out, or is cancelled by the watchdog of DialAttempt.
DialOneErr ==
  /\ dialing > 0
  /\ dialing' = dialing - 1
  /\ dialErrs' = dialErrs + 1
  /\ UNCHANGED <<actorVars, status, drain, dialed, connVars, pc, expired, reply, grant>>

-----------------------------------------------------------------------------
(* Callers.                                                                *)

\* Acquire's second select takes the reply; the caller holds a connection or
\* returns an error.
TakeReply(k) ==
  /\ pc[k] = "waiting"
  /\ reply[k] # "none"
  /\ pc' = [pc EXCEPT ![k] = IF reply[k] = "conn" THEN "holding" ELSE "idle"]
  /\ reply' = [reply EXCEPT ![k] = "none"]
  /\ expired' = expired \ {k}
  /\ UNCHANGED <<actorVars, status, drain, dialVars, connVars, grant>>

\* The caller's context is cancelled or times out.
Expire(k) ==
  /\ pc[k] = "waiting"
  /\ k \notin expired
  /\ expired' = expired \cup {k}
  /\ UNCHANGED <<actorVars, status, drain, dialVars, connVars, pc, reply, grant>>

\* Acquire's second select takes ctx.Done or closedCh: the reply is left to a
\* reclaim goroutine.
Abandon(k) ==
  /\ pc[k] = "waiting"
  /\ k \in expired \/ status = "closed"
  /\ pc' = [pc EXCEPT ![k] = "reclaiming"]
  /\ UNCHANGED <<actorVars, status, drain, dialVars, connVars, expired, reply, grant>>

\* Faulty variant: the reply to an abandoned acquire is thrown away.
ReclaimDrops(k) ==
  /\ pc[k] = "reclaiming"
  /\ reply[k] # "none"
  /\ pc' = [pc EXCEPT ![k] = "idle"]
  /\ reply' = [reply EXCEPT ![k] = "none"]
  /\ grant' = [grant EXCEPT ![k] = NoConn]
  /\ expired' = expired \ {k}
  /\ UNCHANGED <<actorVars, status, drain, dialVars, connVars>>

\* reclaim: releases a connection committed to an abandoned acquire.
Reclaim(k) ==
  /\ pc[k] = "reclaiming"
  /\ reply[k] # "none"
  /\ pc' = [pc EXCEPT ![k] = IF reply[k] = "conn" THEN "releasing" ELSE "idle"]
  /\ reply' = [reply EXCEPT ![k] = "none"]
  /\ expired' = expired \ {k}
  /\ UNCHANGED <<actorVars, status, drain, dialVars, connVars, grant>>

\* Release: the message is on its way to the actor.
Release(k) ==
  /\ pc[k] = "holding"
  /\ pc' = [pc EXCEPT ![k] = "releasing"]
  /\ UNCHANGED <<actorVars, status, drain, dialVars, connVars, expired, reply, grant>>

\* Release after the actor has exited: Release's select closes the connection
\* directly, or drops the message into the buffer of releaseCh, where it stays.
ReleaseClosed(k) ==
  /\ pc[k] = "releasing"
  /\ status = "closed"
  /\ pc' = [pc EXCEPT ![k] = "idle"]
  /\ closed' \in {closed, closed \cup {grant[k]}}
  /\ grant' = [grant EXCEPT ![k] = NoConn]
  /\ UNCHANGED <<actorVars, status, drain, dialVars, peer, peerCap, losses,
                 expired, reply>>

-----------------------------------------------------------------------------
(* The environment: transports and time.                                   *)

ConnLost(c, how) ==
  /\ losses < MaxLosses
  /\ c \notin closed
  /\ peer[c] \in {"alive", "goaway"} /\ peer[c] # how
  /\ peer' = [peer EXCEPT ![c] = how]
  /\ losses' = losses + 1
  /\ UNCHANGED <<actorVars, status, drain, dialVars, closed, peerCap, pc, expired,
                 reply, grant>>

PeerSettings(c, pcap) ==
  /\ peer[c] = "alive" /\ peerCap[c] # pcap
  /\ peerCap' = [peerCap EXCEPT ![c] = pcap]
  /\ UNCHANGED <<actorVars, status, drain, dialVars, peer, closed, losses, pc,
                 expired, reply, grant>>

BackoffEnds ==
  /\ backoff
  /\ backoff' = FALSE
  /\ UNCHANGED <<pooled, active, streamCap, waiters, dials, status, drain,
                 dialVars, connVars, pc, expired, reply, grant>>

Actor ==
  \/ \E k \in Callers : HandleAcquire(k) \/ HandleRelease(k)
  \/ \E c \in Conns : HandleDialOk(c)
  \/ HandleDialErr \/ HandleStats \/ HandleTick \/ HandleClose
  \/ \E n \in 1..MaxConnsPerHost : HandleWarmup(n)

Next ==
  \/ Actor \/ Close \/ DrainDial \/ DialOneErr \/ BackoffEnds
  \/ \E c \in Conns, v \in PeerCaps : DialOneOk(c, v) \/ PeerSettings(c, v)
  \/ \E c \in Conns, how \in {"goaway", "dead"} : ConnLost(c, how)
  \/ \E k \in Callers : \/ TakeReply(k) \/ Expire(k) \/ Abandon(k)
                        \/ Reclaim(k) \/ Release(k) \/ ReleaseClosed(k)

Spec == Init /\ [][Next]_vars

\* What moves caller k's goroutine on; at any stage one of these is possible.
Progress(k) ==
  \/ TakeReply(k) \/ Abandon(k) \/ Reclaim(k)
  \/ Release(k) \/ ReleaseClosed(k) \/ HandleRelease(k)

\* The actor's select serves every ready case, its ticker fires, a dial ends
\* within DialTimeout, goroutines run, callers release what they acquired, and
\* time passes.  Nothing is assumed of the peer, of contexts or of Close.
Fairness ==
  /\ \A k \in Callers : WF_vars(Progress(k))
  /\ WF_vars(HandleDialErr \/ \E c \in Conns : HandleDialOk(c))
  /\ WF_vars(HandleTick) /\ WF_vars(HandleClose)
  /\ WF_vars(DrainDial) /\ WF_vars(BackoffEnds)
  /\ WF_vars(DialOneErr \/ \E c \in Conns, v \in PeerCaps : DialOneOk(c, v))

FairSpec == Spec /\ Fairness

-----------------------------------------------------------------------------
(* Properties.                                                             *)

\* The types of the pool's state, of the channels and of the goroutines.
TypeOK ==
  /\ pooled \subseteq Conns
  /\ active \in [Conns -> Nat]
  /\ streamCap \in [Conns -> Nat]
  /\ waiters \in Seq(Callers)
  /\ dials \in Nat
  /\ backoff \in BOOLEAN
  /\ status \in {"open", "closing", "closed"}
  /\ drain \in Nat
  /\ dialing \in Nat
  /\ dialed \subseteq Conns
  /\ dialErrs \in Nat
  /\ peer \in [Conns -> PeerStates]
  /\ closed \subseteq Conns
  /\ peerCap \in [Conns -> PeerCaps]
  /\ losses \in Nat
  /\ pc \in [Callers -> Stages]
  /\ expired \subseteq Callers
  /\ reply \in [Callers -> Replies]
  /\ grant \in [Callers -> Conns \cup {NoConn}]

Holders(c) == {k \in Callers : grant[k] = c}

\* ManagedConn.Active is exactly the number of acquires whose slot on that
\* connection was committed and not yet handed back: no abandoned acquire leaks
\* a slot and no release is counted twice (replyAcquire, reclaim).
SlotsMatchGrants ==
  status # "closed" => \A c \in Conns : active[c] = Cardinality(Holders(c))

\* A connection with a committed slot stays pooled and open while the pool is
\* open, whatever evicts in between: GOAWAY lets its streams finish (RFC 7540
\* section 6.8; HandleRelease, evictDead, evictDeadSilent, EvictIdle).
GrantedStaysOpen ==
  status # "closed" =>
    \A k \in Callers : grant[k] # NoConn => grant[k] \in pooled \ closed

\* While a request is queued no connection could serve it, so a fresh acquire
\* (which handleAcquire serves without looking at the queue) never overtakes.
NoBarging ==
  waiters # <<>> => NoneFree(pooled, active, streamCap)

\* A request the actor accepted is queued or answered, never both, never
\* neither; it is queued once; and only such a request is queued (replyAcquire:
\* exactly one reply per request, so reclaim always completes).
OneReply ==
  /\ \A k \in Callers :
       IF pc[k] \in {"waiting", "reclaiming"}
       THEN InQueue(k, waiters) <=> reply[k] = "none"
       ELSE ~InQueue(k, waiters) /\ reply[k] = "none"
  /\ \A i, j \in 1..Len(waiters) : waiters[i] = waiters[j] => i = j

\* Every started dial is accounted for until its single result is received, by
\* the actor or, after handleClose, by the drainer.
DialsAccounted ==
  dialing + Cardinality(dialed) + dialErrs =
    IF status = "closed" THEN drain ELSE dials

\* Live connections and dials in flight never exceed MaxConnsPerHost: the three
\* places that dial (handleAcquire, EnsureDialForWaiters, handleWarmup) share
\* one budget.
WithinHostLimit == CountLive(pooled) + dials <= MaxConnsPerHost

\* A dialled connection is pooled, on its way to the actor or the drainer, or
\* closed: none is orphaned, also when Close races the dial.
NoOrphan ==
  \A c \in Conns : peer[c] # "unused" => c \in pooled \cup dialed \cup closed

\* A slot is only handed out below the connection's stream limit; a connection
\* is over the limit only because its peer lowered it meanwhile (PickLeastLoaded).
SlotsWithinCap ==
  [][\A c \in Conns : active'[c] > active[c] => active'[c] <= streamCap'[c]]_vars

\* Every acquire the actor accepted ends: the caller gets its answer, or the
\* reclaim goroutine of a caller that gave up gets it ("this receive always
\* completes and the goroutine always exits", pool.go:608).  No waiter is left to
\* an event that never comes.
AcquireEnds ==
  \A k \in Callers : pc[k] \in {"waiting", "reclaiming"}
                       ~> pc[k] \notin {"waiting", "reclaiming"}

\* After Close every connection that was ever dialled ends up closed, dials in
\* flight at the time included, and every slot is given back.
CloseReleasesAll ==
  status = "closing" ~>
    /\ status = "closed" /\ dialing = 0 /\ dialed = {}
    /\ \A c \in Conns : peer[c] # "unused" => c \in closed
=============================================================================
