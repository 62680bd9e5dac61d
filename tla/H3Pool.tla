------------------------------- MODULE H3Pool -------------------------------
(***************************************************************************)
(* The pool of QUIC connections to one host (client/h3_pool.go).  One      *)
(* actor owns the connections, the waiters and the dials in flight, and    *)
(* answers callers, releases, finished dials, ticks and Close one at a     *)
(* time; callers give up, connections die or are told to go away, and      *)
(* dials end, whenever they like.                                          *)
(***************************************************************************)
EXTENDS Integers, Sequences, FiniteSets, FiniteSetsExt, SequencesExt

CONSTANTS
  Askers,       \* callers, one Acquire each
  Quics,        \* the connections that may be dialled
  MaxQuics,     \* MaxConnsPerHost
  StreamCap,    \* effectiveStreamCap(MaxStreamsPerConn, 0)
  MaxTurns      \* bound: ticks and warm-ups

VARIABLES
  p,         \* what the actor owns: h3RunState, pickCursor and each active count
  up, away,  \* the connections that are Alive; those that are GoingAway
  cooling,   \* lastDialErrAt is within DialBackoff
  apc,       \* where each caller is
  lapsed,    \* callers whose ctx is done
  answer,    \* the reply channel of each caller
  releases,  \* releaseCh
  arrived,   \* dialDoneCh
  underWay,  \* dialOne goroutines that have not delivered
  shutQ,     \* connections that were closed
  pool,      \* "open" or "closed"
  toDrain,   \* dial results handleClose left a goroutine to collect
  turns

poolVars == <<p, up, away, cooling, apc, lapsed, answer, releases, arrived, underWay, shutQ, pool,
              toDrain, turns>>

NoQuic == "none"
NoReply == "empty"
Refused == "error"
conn    == <<up, away, cooling>>
queues  == <<releases, arrived, underWay>>
ends    == <<pool, toDrain, turns>>

\* Alive and not GoingAway.
Usable(c) == c \in up /\ c \notin away
H3CountLive(q) == Cardinality({i \in DOMAIN q.conns : Usable(q.conns[i])})

\* pickLeastLoaded: from the cursor on, the first idle connection, or the least loaded.
Pick(q) ==
  LET n     == Len(q.conns)
      start == q.cursor % n
      nth(k) == q.conns[((start + k) % n) + 1]
      fit   == {k \in 0..n - 1 : Usable(nth(k)) /\ q.active[nth(k)] < StreamCap}
      idle  == {k \in fit : q.active[nth(k)] = 0}
      least == {k \in fit : \A j \in fit : q.active[nth(k)] <= q.active[nth(j)]}
  IN IF n = 0 THEN [mc |-> NoQuic, cursor |-> q.cursor]
     ELSE IF idle # {} THEN [mc |-> nth(Min(idle)), cursor |-> (start + Min(idle) + 1) % n]
     ELSE [mc |-> IF fit = {} THEN NoQuic ELSE nth(Min(least)), cursor |-> q.cursor]

\* The actor's state q carries the replies and closes it makes.
Answer(q, k, r) == [q EXCEPT !.replies = @ @@ (k :> r)]
Grant(q, k, x) == Answer([q EXCEPT !.active[x.mc] = @ + 1, !.cursor = x.cursor], k, x.mc)

\* serveWaiters
ServeOne(q, k) ==
  LET x == Pick(q)
  IN IF q.waiters = <<>> \/ Head(q.waiters) # k \/ x.mc = NoQuic THEN q
     ELSE [Grant(q, k, x) EXCEPT !.waiters = Tail(@)]
Serve(q) == FoldLeft(ServeOne, q, q.waiters)

\* Faulty variant: the slots of a connection that is going away count as spare.
SpareCountsAway(q) ==
  MapThenSumSet(LAMBDA i : StreamCap - q.active[q.conns[i]],
                {i \in DOMAIN q.conns : q.conns[i] \in up})

\* h3SpareStreamCapacity
Spare(q) ==
  MapThenSumSet(LAMBDA i : StreamCap - q.active[q.conns[i]],
                {i \in DOMAIN q.conns : Usable(q.conns[i])})

Dial(q, n) == [q EXCEPT !.inFlightDials = @ + n, !.started = @ + n]

\* dialForWaiters
H3DialForWaiters(q, inBackoff) ==
  LET room      == MaxQuics - H3CountLive(q) - q.inFlightDials
      uncovered == Len(q.waiters) - Spare(q) - q.inFlightDials * StreamCap
      need      == (uncovered + StreamCap - 1) \div StreamCap
  IN IF q.waiters = <<>> \/ inBackoff \/ room <= 0 \/ uncovered <= 0 THEN q
     ELSE Dial(q, IF need < room THEN need ELSE room)

\* flushStrandedWaiters
FlushStranded(q, inBackoff) ==
  IF q.inFlightDials > 0 \/ H3CountLive(q) > 0 \/ ~inBackoff THEN q
  ELSE [FoldLeft(LAMBDA s, k : Answer(s, k, Refused), q, q.waiters) EXCEPT !.waiters = <<>>]

\* h3RetireReason; evict, evictDead and h3RetireEvict close what they remove.
Retired(q, c) == c \notin up \/ (c \in away /\ q.active[c] = 0)
Evict(q, gone) ==
  [q EXCEPT !.conns = SelectSeq(@, LAMBDA c : c \notin gone),
            !.closes = @ \cup (gone \cap {q.conns[i] : i \in DOMAIN q.conns})]

Start == [p EXCEPT !.replies = <<>>, !.closes = {}, !.started = 0]

\* A handler ends: its replies are sent, its connections closed, its dials begun.
Done(q) ==
  /\ p' = [q EXCEPT !.replies = <<>>, !.closes = {}, !.started = 0]
  /\ answer' = [k \in Askers |-> IF k \in DOMAIN q.replies THEN q.replies[k] ELSE answer[k]]
  /\ shutQ' = shutQ \cup q.closes
  /\ underWay' = underWay + q.started

-----------------------------------------------------------------------------
\* handleAcquire, on the rendezvous with Acquire.
H3Acquire(k) ==
  /\ pool = "open" /\ apc[k] = "idle" /\ apc' = [apc EXCEPT ![k] = "waiting"]
  /\ LET x     == Pick(p)
         atCap == H3CountLive(p) + p.inFlightDials >= MaxQuics
         park  == [Start EXCEPT !.waiters = Append(@, k)]
     IN Done(IF x.mc # NoQuic THEN Grant(Start, k, x)
             ELSE IF ~atCap /\ ~cooling THEN Dial(park, 1)
             ELSE IF cooling /\ H3CountLive(p) = 0 /\ p.inFlightDials = 0 THEN Answer(Start, k, Refused)
             ELSE park)
  /\ UNCHANGED <<conn, lapsed, releases, arrived, ends>>

H3Release ==
  /\ pool = "open" /\ releases # <<>> /\ releases' = Tail(releases)
  /\ LET c == Head(releases)
         q == [Start EXCEPT !.active[c] = @ - 1]
         e == IF Retired(q, c) THEN Evict(q, {c}) ELSE q
     IN Done(FlushStranded(H3DialForWaiters(Serve(e), cooling), cooling))
  /\ UNCHANGED <<conn, apc, lapsed, arrived, ends>>

\* handleDialDone
H3DialFailed ==
  /\ pool = "open" /\ arrived # <<>> /\ Head(arrived) = NoQuic /\ arrived' = Tail(arrived)
  /\ cooling' = TRUE
  /\ LET q == [Start EXCEPT !.inFlightDials = @ - 1]
         a == IF q.waiters = <<>> THEN q
              ELSE [Answer(q, Head(q.waiters), Refused) EXCEPT !.waiters = Tail(@)]
     IN Done(FlushStranded(H3DialForWaiters(a, TRUE), TRUE))
  /\ UNCHANGED <<up, away, apc, lapsed, releases, ends>>

H3DialSucceeded ==
  /\ pool = "open" /\ arrived # <<>> /\ Head(arrived) # NoQuic /\ arrived' = Tail(arrived)
  /\ LET q == [Start EXCEPT !.inFlightDials = @ - 1, !.conns = Append(@, Head(arrived))]
     IN Done(H3DialForWaiters(Serve(q), cooling))
  /\ UNCHANGED <<conn, apc, lapsed, releases, ends>>

\* handleTick: dead, drained and idle connections leave, expired waiters are answered.
H3Tick ==
  /\ pool = "open" /\ turns > 0 /\ turns' = turns - 1
  /\ \E idle \in SUBSET {c \in Quics : p.active[c] = 0} :
       LET gone == idle \cup {c \in Quics : Retired(p, c)}
           q    == Evict(Start, gone)
           out  == SelectSeq(q.waiters, LAMBDA k : k \in lapsed)
           w    == [FoldLeft(LAMBDA s, k : Answer(s, k, Refused), q, out)
                      EXCEPT !.waiters = SelectSeq(@, LAMBDA k : k \notin lapsed)]
       IN Done(FlushStranded(H3DialForWaiters(w, cooling), cooling))
  /\ UNCHANGED <<conn, apc, lapsed, releases, arrived, pool, toDrain>>

\* handleStats evicts, too, and neither dials nor answers.
H3Stats ==
  /\ pool = "open" /\ Done(Evict(Start, {c \in Quics : Retired(p, c)}))
  /\ UNCHANGED <<conn, apc, lapsed, releases, arrived, ends>>

\* handleWarmup
H3Warmup(n) ==
  /\ pool = "open" /\ turns > 0 /\ turns' = turns - 1
  /\ LET target == IF n < MaxQuics THEN n ELSE MaxQuics
         need   == target - H3CountLive(p) - p.inFlightDials
     IN Done(IF need <= 0 \/ cooling THEN Start ELSE Dial(Start, need))
  /\ UNCHANGED <<conn, apc, lapsed, releases, arrived, pool, toDrain>>

H3Close ==
  /\ pool = "open" /\ pool' = "closed"
  /\ LET q == FoldLeft(LAMBDA s, k : Answer(s, k, Refused), Start, p.waiters)
     IN Done([q EXCEPT !.waiters = <<>>, !.inFlightDials = 0,
                       !.closes = {q.conns[i] : i \in DOMAIN q.conns}])
  /\ toDrain' = p.inFlightDials
  /\ UNCHANGED <<conn, apc, lapsed, releases, arrived, turns>>

\* The goroutine handleClose leaves behind closes what the last dials brought.
CloseDrains ==
  /\ toDrain > 0 /\ arrived # <<>> /\ arrived' = Tail(arrived) /\ toDrain' = toDrain - 1
  /\ shutQ' = shutQ \cup ({Head(arrived)} \ {NoQuic})
  /\ UNCHANGED <<p, conn, apc, lapsed, answer, releases, underWay, pool, turns>>

-----------------------------------------------------------------------------
\* Acquire: refused before it is accepted, answered, or given up to reclaim.
AcquireRefused(k) ==
  /\ apc[k] = "idle" /\ (k \in lapsed \/ pool = "closed") /\ apc' = [apc EXCEPT ![k] = "done"]
  /\ UNCHANGED <<p, conn, lapsed, answer, queues, shutQ, ends>>

AcquireReturns(k) ==
  /\ apc[k] = "waiting" /\ answer[k] # NoReply
  /\ apc' = [apc EXCEPT ![k] = IF answer[k] = Refused THEN "done" ELSE "holding"]
  /\ UNCHANGED <<p, conn, lapsed, answer, queues, shutQ, ends>>

\* Faulty variant: whoever gives up leaves its reply unread.
AbandonsUnread(k) ==
  /\ apc[k] = "waiting" /\ (k \in lapsed \/ pool = "closed")
  /\ apc' = [apc EXCEPT ![k] = "done"]
  /\ UNCHANGED <<p, conn, lapsed, answer, queues, shutQ, ends>>

AcquireAbandons(k) ==
  /\ apc[k] = "waiting" /\ (k \in lapsed \/ pool = "closed")
  /\ apc' = [apc EXCEPT ![k] = "reclaim"]
  /\ UNCHANGED <<p, conn, lapsed, answer, queues, shutQ, ends>>

\* release, and reclaim once the reply is there: to the actor, or, after Close, to no one.
H3GiveBack(k) ==
  /\ apc[k] \in {"holding", "reclaim"} /\ answer[k] # NoReply
  /\ apc' = [apc EXCEPT ![k] = "done"]
  /\ IF answer[k] = Refused THEN UNCHANGED <<releases, shutQ>>
     ELSE \/ releases' = Append(releases, answer[k]) /\ shutQ' = shutQ
          \/ pool = "closed" /\ shutQ' = shutQ \cup {answer[k]} /\ releases' = releases
  /\ UNCHANGED <<p, conn, lapsed, answer, arrived, underWay, ends>>

\* dialOne delivers a connection, or an error; the rest is what the world may do.
Fresh == {c \in Quics : c \notin up /\ c \notin shutQ /\ p.active[c] = 0
                         /\ \A i \in DOMAIN p.conns : p.conns[i] # c}
DialEnds(c) ==
  /\ underWay > 0 /\ underWay' = underWay - 1 /\ c \in Fresh \cup {NoQuic}
  /\ arrived' = Append(arrived, c) /\ up' = up \cup ({c} \ {NoQuic})
  /\ UNCHANGED <<p, away, cooling, apc, lapsed, answer, releases, shutQ, ends>>

Loses(c) ==
  /\ c \in up \ shutQ
  /\ \/ up' = up \ {c} /\ shutQ' = shutQ \cup {c} /\ away' = away
     \/ c \notin away /\ away' = away \cup {c} /\ UNCHANGED <<up, shutQ>>
  /\ UNCHANGED <<p, cooling, apc, lapsed, answer, queues, ends>>

H3CtxExpires(k) ==
  /\ k \notin lapsed /\ apc[k] \in {"idle", "waiting"} /\ lapsed' = lapsed \cup {k}
  /\ UNCHANGED <<p, conn, apc, answer, queues, shutQ, ends>>

H3BackoffOver ==
  /\ cooling /\ pool = "open" /\ cooling' = FALSE
  /\ UNCHANGED <<p, up, away, apc, lapsed, answer, queues, shutQ, ends>>

PoolInit ==
  /\ p = [conns |-> <<>>, waiters |-> <<>>, inFlightDials |-> 0, cursor |-> 0,
          active |-> [c \in Quics |-> 0], replies |-> <<>>, closes |-> {}, started |-> 0]
  /\ up = {} /\ away = {} /\ cooling = FALSE /\ apc = [k \in Askers |-> "idle"] /\ lapsed = {}
  /\ answer = [k \in Askers |-> NoReply] /\ releases = <<>> /\ arrived = <<>> /\ underWay = 0
  /\ shutQ = {} /\ pool = "open" /\ toDrain = 0 /\ turns = MaxTurns

PoolNext ==
  \/ \E k \in Askers : \/ H3Acquire(k) \/ AcquireRefused(k) \/ AcquireReturns(k)
                       \/ AcquireAbandons(k) \/ H3GiveBack(k) \/ H3CtxExpires(k)
  \/ H3Release \/ H3DialFailed \/ H3DialSucceeded \/ H3Tick \/ H3Stats \/ H3Warmup(2)
  \/ H3Close \/ CloseDrains \/ H3BackoffOver
  \/ \E c \in Quics : Loses(c)
  \/ \E c \in Quics \cup {NoQuic} : DialEnds(c)

-----------------------------------------------------------------------------
(***************************************************************************)
(* No slot and no connection is lost: while the pool is open, the streams  *)
(* counted against a connection are those of the callers who hold it, of   *)
(* replies nobody has read yet and of releases on their way; the live      *)
(* connections and the dials together stay within MaxConnsPerHost; and     *)
(* once the pool is closed and its goroutines have finished, every         *)
(* connection ever dialled is closed (src/client/h3_pool.go:430, 381).     *)
(***************************************************************************)
H3PoolSound ==
  /\ pool = "open" =>
       /\ \A c \in Quics :
            p.active[c] = Cardinality({k \in Askers : answer[k] = c /\ apc[k] # "done"})
                          + Cardinality({i \in DOMAIN releases : releases[i] = c})
       /\ H3CountLive(p) + p.inFlightDials <= MaxQuics
       /\ p.inFlightDials = underWay + Len(arrived)
  /\ pool = "closed" => toDrain = underWay + Len(arrived)
  /\ pool = "closed" /\ toDrain = 0 => up \subseteq shutQ

(***************************************************************************)
(* A queued caller always has something to wait for: after a release, a    *)
(* failed dial or a tick, nobody is left in the queue of a pool that has   *)
(* neither a usable connection nor a dial in flight                        *)
(* (src/client/h3_pool.go:260).                                            *)
(***************************************************************************)
WaitersHaveHope ==
  [][(H3Release \/ H3DialFailed \/ H3Tick) /\ p'.waiters # <<>> =>
       p'.inFlightDials > 0 \/ H3CountLive(p') > 0]_poolVars
=============================================================================
