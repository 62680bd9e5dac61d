------------------------------- MODULE H1Pool -------------------------------
(***************************************************************************)
(* The HTTP/1.1 pool of client/h1_pool.go: an actor that checks            *)
(* connections out exclusively, a health sweep that reads idle sockets     *)
(* outside the actor, and callers that inspect what they were given and    *)
(* ask again.  A release carries the keep-alive verdict and travels in a   *)
(* buffered channel of its own, so that a caller may be back in the queue  *)
(* before its release is handled.                                          *)
(***************************************************************************)
EXTENDS Integers, FiniteSets, Sequences

CONSTANTS
  Callers,          \* goroutines that call Acquire, warmupDials among them
  Conns,            \* identities of *h1ManagedConn
  NoConn,           \* the nil mc of an h1AcquireResp
  MaxConnsPerHost,  \* PoolOptions.MaxConnsPerHost
  MaxSpoils         \* bound: how often a peer closes or writes to an idle connection

ASSUME H1PoolAssumption ==
  /\ NoConn \notin Conns /\ "sweep" \notin Callers
  /\ IsFiniteSet(Callers) /\ IsFiniteSet(Conns)
  /\ MaxConnsPerHost \in Nat \ {0} /\ MaxSpoils \in Nat

VARIABLES
  pooled,    \* h1RunState.conns; its order only decides between idle connections
  active,    \* h1ManagedConn.active
  probing,   \* h1ManagedConn.probing
  sweep,     \* h1RunState.sweeping and the goroutine: "none" or "running"
  unprobed,  \* connections the sweep has still to probe
  failed,    \* connections whose probe failed
  waiters,   \* h1RunState.waiters
  dials,     \* h1RunState.inFlightDials
  backoff,   \* inDialBackoff(h1RunState.lastDialErrAt, DialBackoff)
  status,    \* "open", "closing" (closeCh closed), "closed" (closedCh closed)
  drain,     \* results the drainer of handleClose still awaits
  dialing,   \* dialOne goroutines without a result
  dialed,    \* connections in dialDoneCh
  dialErrs,  \* errors in dialDoneCh
  returned,  \* per connection: the h1ReleaseMsg in releaseCh, by its verdict
  socket,    \* per connection: "unused", "clean", "fin" or "residue"
  closed,    \* connections on which Close was called
  spoils,    \* how often a connection was spoilt so far
  pc,        \* per caller: where it, or its reclaim goroutine, is
  tries,     \* per caller: the attempt Acquire's loop has reached
  expired,   \* callers whose context is done
  reply,     \* per caller: the content of its reply channel
  grant      \* per caller: the connection committed to it

actorVars  == <<pooled, active, probing, sweep, waiters, dials, backoff>>
sweepVars  == <<unprobed, failed>>
dialVars   == <<dialing, dialed, dialErrs>>
socketVars == <<socket, closed, spoils>>
callerVars == <<pc, tries, expired, reply, grant>>
vars == <<actorVars, sweepVars, status, drain, dialVars, returned, socketVars, callerVars>>

-----------------------------------------------------------------------------
(* What the actor computes from h1RunState.                                *)

\* http1.Conn.IsAlive: this end has not closed it.
IsAlive(c) == c \notin closed

\* h1CountLive
CountLive(cs) == Cardinality({c \in cs : IsAlive(c)})

\* Faulty variant: the sweep's reservation is not respected.
IdleIgnoresSweep(cs, act, probed) == {c \in cs : IsAlive(c) /\ act[c] < 1}

\* pickIdle: any of these.
Idle(cs, act, probed) == {c \in cs : IsAlive(c) /\ act[c] < 1 /\ c \notin probed}

\* h1CountReservedIdle
CountReservedIdle(cs, act, probed) ==
  Cardinality({c \in cs : c \in probed /\ IsAlive(c) /\ act[c] < 1})

Smaller(a, b) == IF a < b THEN a ELSE b

\* ensureDialForWaiters: how many dials it starts.
EnsureDial(cs, act, probed, queue, d, b) ==
  LET uncovered == Len(queue) - CountReservedIdle(cs, act, probed) - d
      room      == MaxConnsPerHost - CountLive(cs) - d
      n         == Smaller(uncovered, room)
  IN IF b \/ n < 0 THEN 0 ELSE n

\* Each reading of the clock may find the backoff window closed, never reopened.
LaterBackoff(b) == IF b THEN BOOLEAN ELSE {FALSE}

\* h1PruneExpiredWaiters: what is left of the queue, in order.
Surviving(ws) ==
  LET S == {i \in 1..Len(ws) : ws[i] \notin expired}
      n == Cardinality(S)
  IN {[j \in 1..n |-> ws[h[j]]] :
        h \in {g \in [1..n -> S] : \A i, j \in 1..n : i < j => g[i] < g[j]}}

InQueue(k, ws) == \E i \in 1..Len(ws) : ws[i] = k

\* What every handler does last: ensureDialForWaiters, then, unless why is "none",
\* flushStrandedWaiters(why).  answers is reply after what the handler did before.
\* The first of them reads the backoff b, the second b2.
DialFlush(cs, act, probed, queue, d, b, b2, answers, why) ==
  LET new   == EnsureDial(cs, act, probed, queue, d, b)
      flush == why # "none" /\ d + new = 0 /\ CountLive(cs) = 0 /\ b2
  IN /\ dials' = d + new
     /\ dialing' = dialing + new
     /\ backoff' = b2
     /\ waiters' = IF flush THEN <<>> ELSE queue
     /\ reply' = [k \in Callers |->
          IF flush /\ InQueue(k, queue) THEN why ELSE answers[k]]

\* serveWaiters hands the first waiters an idle connection each; then DialFlush.
ServeDialFlush(cs, act, probed, d, why) ==
  LET idle == Idle(cs, act, probed)
      n    == Smaller(Len(waiters), Cardinality(idle))
  IN \E f \in [1..n -> idle], b2 \in LaterBackoff(backoff) :
       /\ \A i, j \in 1..n : f[i] = f[j] => i = j
       /\ pooled' = cs
       /\ active' = [c \in Conns |-> IF \E i \in 1..n : f[i] = c THEN act[c] + 1 ELSE act[c]]
       /\ grant' = [k \in Callers |->
            IF \E i \in 1..n : waiters[i] = k
            THEN f[CHOOSE i \in 1..n : waiters[i] = k] ELSE grant[k]]
       /\ DialFlush(cs, active', probed, SubSeq(waiters, n + 1, Len(waiters)), d, backoff, b2,
                    [k \in Callers |->
                       IF \E i \in 1..n : waiters[i] = k THEN "conn" ELSE reply[k]],
                    why)

Replies == {"none", "conn", "dialBackoff", "dialError", "ctxErr", "poolClosed"}

-----------------------------------------------------------------------------
Init ==
  /\ pooled = {} /\ active = [c \in Conns |-> 0] /\ probing = {}
  /\ sweep = "none" /\ unprobed = {} /\ failed = {}
  /\ waiters = <<>> /\ dials = 0 /\ backoff = FALSE
  /\ status = "open" /\ drain = 0
  /\ dialing = 0 /\ dialed = {} /\ dialErrs = 0
  /\ returned = [c \in Conns |-> "none"]
  /\ socket = [c \in Conns |-> "unused"] /\ closed = {} /\ spoils = 0
  /\ pc = [k \in Callers |-> "idle"] /\ tries = [k \in Callers |-> 0]
  /\ expired = {} /\ reply = [k \in Callers |-> "none"]
  /\ grant = [k \in Callers |-> NoConn]

\* acquireOnce's first select and handleAcquire: check out, wait for the sweep,
\* dial, refuse or queue.
HandleAcquire(k) ==
  LET idle     == Idle(pooled, active, probing)
      reserved == CountReservedIdle(pooled, active, probing)
      live     == CountLive(pooled)
      atCap    == live + dials >= MaxConnsPerHost
      awaits   == Len(waiters) < reserved
      refuse   == backoff /\ live = 0 /\ dials = 0
  IN /\ status # "closed" /\ pc[k] \in {"idle", "retry"}
     /\ pc' = [pc EXCEPT ![k] = "waiting"]
     /\ \/ \E c \in idle :
             /\ active' = [active EXCEPT ![c] = @ + 1]
             /\ reply' = [reply EXCEPT ![k] = "conn"]
             /\ grant' = [grant EXCEPT ![k] = c]
             /\ UNCHANGED <<waiters, dials, dialing>>
        \/ /\ idle = {} /\ ~awaits /\ ~atCap /\ ~backoff
           /\ dials' = dials + 1 /\ dialing' = dialing + 1
           /\ waiters' = Append(waiters, k)
           /\ UNCHANGED <<active, reply, grant>>
        \/ /\ idle = {} /\ ~awaits /\ refuse
           /\ reply' = [reply EXCEPT ![k] = "dialBackoff"]
           /\ UNCHANGED <<active, grant, waiters, dials, dialing>>
        \/ /\ idle = {} /\ (awaits \/ ((atCap \/ backoff) /\ ~refuse))
           /\ waiters' = Append(waiters, k)
           /\ UNCHANGED <<active, reply, grant, dials, dialing>>
     /\ UNCHANGED <<pooled, probing, sweep, sweepVars, backoff, status, drain, dialed,
                    dialErrs, returned, socketVars, tries, expired>>

\* handleRelease: back to the idle set, or discarded on the verdict or when dead.
HandleRelease(c) ==
  LET evict == returned[c] = "drop" \/ ~IsAlive(c)
  IN /\ status # "closed" /\ returned[c] # "none"
     /\ returned' = [returned EXCEPT ![c] = "none"]
     /\ closed' = IF evict /\ c \in pooled THEN closed \cup {c} ELSE closed
     /\ ServeDialFlush(IF evict THEN pooled \ {c} ELSE pooled,
                       [active EXCEPT ![c] = @ - 1], probing, dials, "dialBackoff")
     /\ UNCHANGED <<probing, sweep, sweepVars, status, drain, dialed, dialErrs,
                    socket, spoils, pc, tries, expired>>

\* handleDialDone with a connection: no flush, there is something to wait for.
HandleDialOk(c) ==
  /\ status # "closed" /\ c \in dialed
  /\ dialed' = dialed \ {c}
  /\ ServeDialFlush(pooled \cup {c}, active, probing, dials - 1, "none")
  /\ UNCHANGED <<probing, sweep, sweepVars, status, drain, dialErrs, returned,
                 socketVars, pc, tries, expired>>

\* Faulty variant: a failed dial answers one waiter and forgets the others.
HandleDialErrNoFlush ==
  LET n     == Len(waiters)
      last  == n > CountReservedIdle(pooled, active, probing)
      queue == IF last THEN SubSeq(waiters, 1, n - 1) ELSE waiters
  IN /\ status # "closed" /\ dialErrs > 0
     /\ dialErrs' = dialErrs - 1
     /\ DialFlush(pooled, active, probing, queue, dials - 1, TRUE, TRUE,
                  IF last THEN [reply EXCEPT ![waiters[n]] = "dialError"] ELSE reply,
                  "none")
     /\ UNCHANGED <<pooled, active, probing, sweep, sweepVars, status, drain, dialed,
                    returned, socketVars, pc, tries, expired, grant>>

\* handleDialDone with an error: it goes to the last waiter, unless the sweep
\* holds a connection for everybody queued.  The backoff window it opens is still
\* open when the handler ends.
HandleDialErr ==
  LET n     == Len(waiters)
      last  == n > CountReservedIdle(pooled, active, probing)
      queue == IF last THEN SubSeq(waiters, 1, n - 1) ELSE waiters
  IN /\ status # "closed" /\ dialErrs > 0
     /\ dialErrs' = dialErrs - 1
     /\ DialFlush(pooled, active, probing, queue, dials - 1, TRUE, TRUE,
                  IF last THEN [reply EXCEPT ![waiters[n]] = "dialError"] ELSE reply,
                  "dialError")
     /\ UNCHANGED <<pooled, active, probing, sweep, sweepVars, status, drain, dialed,
                    returned, socketVars, pc, tries, expired, grant>>

\* What evictDead and evictDeadSilent remove and close.
Dead == {c \in pooled : ~IsAlive(c)}

\* handleStats
HandleStats ==
  /\ status # "closed"
  /\ pooled' = pooled \ Dead /\ closed' = closed \cup Dead
  /\ UNCHANGED <<active, probing, sweep, sweepVars, waiters, dials, backoff, status,
                 drain, dialVars, returned, socket, spoils, callerVars>>

\* startHealthSweep reserves every connection that is checked in.
Candidates(cs) == {c \in cs : active[c] = 0}

\* handleTick: evictIdle (idle times are not tracked, so any subset), evictDead,
\* startHealthSweep, pruneExpiredWaiters, ensureDialForWaiters, flush.
HandleTick ==
  /\ status # "closed"
  /\ \E idle \in SUBSET {c \in pooled \ probing : active[c] = 0},
        b2 \in LaterBackoff(backoff), queue \in Surviving(waiters) :
       LET gone   == idle \cup Dead
           cs     == pooled \ gone
           starts == sweep = "none" /\ Candidates(cs) # {}
           probed == IF starts THEN Candidates(cs) ELSE probing
       IN /\ pooled' = cs /\ closed' = closed \cup gone
          /\ probing' = probed
          /\ sweep' = IF starts THEN "running" ELSE sweep
          /\ unprobed' = IF starts THEN probed ELSE unprobed
          /\ DialFlush(cs, active, probed, queue, dials, backoff, b2,
                       [k \in Callers |->
                          IF InQueue(k, waiters) /\ k \in expired THEN "ctxErr" ELSE reply[k]],
                       "dialBackoff")
  /\ UNCHANGED <<active, failed, status, drain, dialed, dialErrs, returned, socket,
                 spoils, pc, tries, expired, grant>>

\* handleSweepDone: clear the reservations, evict what failed, serve.
HandleSweepDone ==
  /\ status # "closed" /\ sweep = "running" /\ unprobed = {}
  /\ sweep' = "none" /\ probing' = {} /\ failed' = {}
  /\ closed' = closed \cup (failed \cap pooled)
  /\ ServeDialFlush(pooled \ failed, active, {}, dials, "dialBackoff")
  /\ UNCHANGED <<unprobed, status, drain, dialed, dialErrs, returned, socket, spoils,
                 pc, tries, expired>>

\* Close
Close ==
  /\ status = "open" /\ status' = "closing"
  /\ UNCHANGED <<actorVars, sweepVars, drain, dialVars, returned, socketVars, callerVars>>

\* handleClose, after which run returns and closes closedCh.
HandleClose ==
  /\ status = "closing" /\ status' = "closed"
  /\ reply' = [k \in Callers |-> IF InQueue(k, waiters) THEN "poolClosed" ELSE reply[k]]
  /\ waiters' = <<>>
  /\ drain' = dials /\ dials' = 0
  /\ closed' = closed \cup pooled
  /\ UNCHANGED <<pooled, active, probing, sweep, sweepVars, backoff, dialVars, returned,
                 socket, spoils, pc, tries, expired, grant>>

\* One receive of the drainer handleClose starts.
DrainDial ==
  /\ drain > 0 /\ drain' = drain - 1
  /\ \/ \E c \in dialed : /\ dialed' = dialed \ {c} /\ closed' = closed \cup {c}
                          /\ UNCHANGED dialErrs
     \/ dialErrs > 0 /\ dialErrs' = dialErrs - 1 /\ UNCHANGED <<dialed, closed>>
  /\ UNCHANGED <<actorVars, sweepVars, status, dialing, returned, socket, spoils,
                 callerVars>>

-----------------------------------------------------------------------------
(* The dial and sweep goroutines.                                          *)

\* An identity nothing refers to any more.
Available(c) ==
  /\ socket[c] = "unused" \/ c \in closed
  /\ c \notin pooled \cup dialed \cup probing
  /\ returned[c] = "none" /\ \A k \in Callers : grant[k] # c

DialOneOk(c) ==
  /\ dialing > 0 /\ Available(c)
  /\ dialing' = dialing - 1 /\ dialed' = dialed \cup {c}
  /\ socket' = [socket EXCEPT ![c] = "clean"] /\ closed' = closed \ {c}
  /\ active' = [active EXCEPT ![c] = 0]
  /\ UNCHANGED <<pooled, probing, sweep, waiters, dials, backoff, sweepVars, status,
                 drain, dialErrs, returned, spoils, callerVars>>

DialOneErr ==
  /\ dialing > 0 /\ dialing' = dialing - 1 /\ dialErrs' = dialErrs + 1
  /\ UNCHANGED <<actorVars, sweepVars, status, drain, dialed, returned, socketVars,
                 callerVars>>

\* http1.Conn.ProbeIdle: silence until the deadline is what it wants to see.
ProbeIdle(c) == IsAlive(c) /\ socket[c] = "clean"

\* http1.Conn.HasResidue: it cannot see a FIN, and has nothing to say once closed.
HasResidue(c) == IsAlive(c) /\ socket[c] = "residue"

\* runHealthSweep probes the reserved connections concurrently.
Probe(c) ==
  /\ c \in unprobed /\ unprobed' = unprobed \ {c}
  /\ failed' = IF ProbeIdle(c) THEN failed ELSE failed \cup {c}
  /\ UNCHANGED <<actorVars, status, drain, dialVars, returned, socketVars, callerVars>>

-----------------------------------------------------------------------------
(* Callers.                                                                *)

\* acquireOnce's second select takes the reply; a connection is inspected next.
TakeReply(k) ==
  /\ pc[k] = "waiting" /\ reply[k] # "none"
  /\ reply' = [reply EXCEPT ![k] = "none"]
  /\ IF reply[k] = "conn" THEN pc' = [pc EXCEPT ![k] = "checking"] /\ UNCHANGED <<tries, expired>>
     ELSE /\ pc' = [pc EXCEPT ![k] = "idle"]
          /\ tries' = [tries EXCEPT ![k] = 0] /\ expired' = expired \ {k}
  /\ UNCHANGED <<actorVars, sweepVars, status, drain, dialVars, returned, socketVars, grant>>

Expire(k) ==
  /\ pc[k] \in {"waiting", "retry"} /\ k \notin expired
  /\ expired' = expired \cup {k}
  /\ UNCHANGED <<actorVars, sweepVars, status, drain, dialVars, returned, socketVars, pc,
                 tries, reply, grant>>

\* A select of acquireOnce takes ctx.Done or closedCh; a request the actor has
\* accepted leaves its reply to a reclaim goroutine.
Abandon(k) ==
  /\ pc[k] \in {"waiting", "retry"} /\ (k \in expired \/ status = "closed")
  /\ pc' = [pc EXCEPT ![k] = IF @ = "waiting" THEN "reclaiming" ELSE "idle"]
  /\ tries' = [tries EXCEPT ![k] = 0]
  /\ expired' = IF pc[k] = "retry" THEN expired \ {k} ELSE expired
  /\ UNCHANGED <<actorVars, sweepVars, status, drain, dialVars, returned, socketVars,
                 reply, grant>>

\* release: the message is buffered; in a closed pool the select may instead
\* close the connection itself.
SendRelease(k, verdict) ==
  LET c == grant[k]
  IN /\ grant' = [grant EXCEPT ![k] = NoConn]
     /\ \/ returned' = [returned EXCEPT ![c] = verdict] /\ UNCHANGED closed
        \/ status = "closed" /\ closed' = closed \cup {c} /\ UNCHANGED returned

\* reclaim
Reclaim(k) ==
  /\ pc[k] = "reclaiming" /\ reply[k] # "none"
  /\ pc' = [pc EXCEPT ![k] = "idle"] /\ reply' = [reply EXCEPT ![k] = "none"]
  /\ expired' = expired \ {k}
  /\ IF reply[k] = "conn" THEN SendRelease(k, "keep") ELSE UNCHANGED <<grant, returned, closed>>
  /\ UNCHANGED <<actorVars, sweepVars, status, drain, dialVars, socket, spoils, tries>>

\* Acquire's verdict on a connection it was given.  Whether it has been idle long
\* enough to be probed is left open; the attempt after the loop does not probe.
Passes(k, longIdle) ==
  /\ ~HasResidue(grant[k])
  /\ longIdle /\ tries[k] <= MaxConnsPerHost => ProbeIdle(grant[k])

\* Acquire inspects what acquireOnce returned: it hands the connection to the
\* request, or discards it and asks again, up to its bound.
Inspect(k) ==
  /\ pc[k] = "checking"
  /\ \E longIdle \in BOOLEAN :
       IF Passes(k, longIdle)
       THEN /\ pc' = [pc EXCEPT ![k] = "holding"] /\ tries' = [tries EXCEPT ![k] = 0]
            /\ UNCHANGED <<grant, returned, closed>>
       ELSE /\ SendRelease(k, "drop")
            /\ pc' = [pc EXCEPT ![k] = IF tries[k] <= MaxConnsPerHost THEN "retry" ELSE "idle"]
            /\ tries' = [tries EXCEPT ![k] = IF @ <= MaxConnsPerHost THEN @ + 1 ELSE 0]
  /\ expired' = IF pc'[k] = "retry" THEN expired ELSE expired \ {k}
  /\ UNCHANGED <<actorVars, sweepVars, status, drain, dialVars, socket, spoils, reply>>

\* The exchange ends with its keep-alive verdict (h1Exchange.release).
Release(k, verdict) ==
  /\ pc[k] = "holding" /\ pc' = [pc EXCEPT ![k] = "idle"]
  /\ SendRelease(k, verdict)
  /\ UNCHANGED <<actorVars, sweepVars, status, drain, dialVars, socket, spoils, tries,
                 expired, reply>>

-----------------------------------------------------------------------------
(* The environment.                                                        *)

\* The peer closes a connection or writes to it unasked.
Spoil(c, how) ==
  /\ spoils < MaxSpoils /\ socket[c] = "clean" /\ IsAlive(c)
  /\ \A k \in Callers : grant[k] = c => pc[k] # "holding"
  /\ socket' = [socket EXCEPT ![c] = how] /\ spoils' = spoils + 1
  /\ UNCHANGED <<actorVars, sweepVars, status, drain, dialVars, returned, closed,
                 callerVars>>

BackoffEnds ==
  /\ backoff /\ backoff' = FALSE
  /\ UNCHANGED <<pooled, active, probing, sweep, waiters, dials, sweepVars, status, drain,
                 dialVars, returned, socketVars, callerVars>>

Next ==
  \/ \E k \in Callers :
       \/ HandleAcquire(k) \/ TakeReply(k) \/ Expire(k) \/ Abandon(k) \/ Reclaim(k)
       \/ Inspect(k) \/ \E v \in {"keep", "drop"} : Release(k, v)
  \/ \E c \in Conns :
       \/ HandleRelease(c) \/ HandleDialOk(c) \/ DialOneOk(c) \/ Probe(c)
       \/ \E how \in {"fin", "residue"} : Spoil(c, how)
  \/ HandleDialErr \/ HandleStats \/ HandleTick \/ HandleSweepDone
  \/ Close \/ HandleClose \/ DrainDial \/ DialOneErr \/ BackoffEnds

Spec == Init /\ [][Next]_vars

-----------------------------------------------------------------------------
(* What the code promises.                                                 *)

\* The type of every variable.
TypeOK ==
  /\ pooled \subseteq Conns /\ active \in [Conns -> Nat] /\ probing \subseteq Conns
  /\ sweep \in {"none", "running"} /\ unprobed \subseteq Conns /\ failed \subseteq Conns
  /\ waiters \in Seq(Callers) /\ dials \in Nat /\ backoff \in BOOLEAN
  /\ status \in {"open", "closing", "closed"} /\ drain \in Nat
  /\ dialing \in Nat /\ dialed \subseteq Conns /\ dialErrs \in Nat
  /\ returned \in [Conns -> {"none", "keep", "drop"}]
  /\ socket \in [Conns -> {"unused", "clean", "fin", "residue"}]
  /\ closed \subseteq Conns /\ spoils \in Nat
  /\ pc \in [Callers -> {"idle", "waiting", "reclaiming", "checking", "retry", "holding"}]
  /\ tries \in [Callers -> Nat] /\ expired \subseteq Callers
  /\ reply \in [Callers -> Replies]
  /\ grant \in [Callers -> Conns \cup {NoConn}]

\* Who may use the socket of c: the callers it is committed to, and the sweep.
UsersOf(c) ==
  {k \in Callers : grant[k] = c} \cup (IF c \in probing /\ IsAlive(c) THEN {"sweep"} ELSE {})

LifeOf(c) ==
  IF socket[c] = "unused" \/ ~IsAlive(c) THEN "gone"
  ELSE IF returned[c] = "keep" THEN "back"
  ELSE IF returned[c] = "drop" THEN "spent" ELSE "open"

Contract ==
  INSTANCE Lease WITH
    Users <- Callers \cup {"sweep"}, Inspector <- "sweep",
    pool  <- IF status = "closed" THEN "closed" ELSE "open",
    users <- [c \in Conns |-> UsersOf(c)],
    life  <- [c \in Conns |-> LifeOf(c)]

\* Exclusive checkout: the pool implements Lease.  A connection has one user at a
\* time, a caller or the health sweep, and keeps it until that user hands it back;
\* one handed back with keepAlive=false is never used again.
ExclusiveCheckout == Contract!LeaseSpec

\* MaxConnsPerHost is the concurrency limit: connections and dials stay within it,
\* although the sweep makes connections look busy.
WithinLimit == CountLive(pooled) + dials <= MaxConnsPerHost

\* flushStrandedWaiters "belongs immediately after every call" to ensureDialForWaiters:
\* while the backoff window is open nobody is queued with no connection and no dial
\* to wait for, however the last connection went (released as not reusable, idle,
\* found dead by a sweep, not reached by a dial).  Only a window that closes between
\* the two leaves a queue to the next tick, which then dials for it.
NobodyStranded ==
  backoff /\ status # "closed" /\ waiters # <<>> => CountLive(pooled) + dials > 0
=============================================================================
