---------------------------- MODULE H1PoolActor -----------------------------
(***************************************************************************)
(* The inductive invariant of the HTTP/1.1 pool, what its counters count,  *)
(* what serveWaiters, ensureDialForWaiters and flushStrandedWaiters do     *)
(* together, and the pool actor's handling of everything but an acquire,   *)
(* for any number of callers and connections and any limit.                *)
(***************************************************************************)
EXTENDS H1Pool, FiniteSetTheorems, TLAPS

QueueDistinct == \A i, j \in 1..Len(waiters) : waiters[i] = waiters[j] => i = j

\* A queued request is unanswered, and only a request that waits has an answer.
QueueShape ==
  \A k \in Callers :
    /\ InQueue(k, waiters) => pc[k] \in {"waiting", "reclaiming"} /\ reply[k] = "none"
    /\ reply[k] # "none" => pc[k] \in {"waiting", "reclaiming"}

\* A connection is committed to a caller that uses it or has it in its reply.
GrantShape ==
  \A k \in Callers :
    grant[k] # NoConn <=> pc[k] \in {"checking", "holding"} \/ reply[k] = "conn"

OneHolder ==
  \A j, k \in Callers : grant[j] = grant[k] /\ grant[k] # NoConn => j = k

HandedBack ==
  \A c \in Conns : returned[c] # "none" => \A k \in Callers : grant[k] # c

\* What is out, or on its way back, counts as checked out.
Committed ==
  status # "closed" =>
    \A c \in Conns :
      (\E k \in Callers : grant[k] = c) \/ returned[c] # "none" =>
        c \in pooled /\ active[c] = 1

\* The pool's connections are open until it closes, and none is afterwards.
PooledOpen ==
  /\ \A c \in pooled \cup dialed : socket[c] # "unused"
  /\ status # "closed" => pooled \cap closed = {}
  /\ status = "closed" => pooled \subseteq closed /\ dials = 0
  /\ status = "closed" => \A k \in Callers : grant[k] # NoConn => grant[k] \in closed

DialedFresh ==
  \A c \in dialed :
    c \notin pooled \cup closed /\ returned[c] = "none" /\ \A k \in Callers : grant[k] # c

\* The sweep has only what nobody holds.
SweepShape ==
  /\ probing \subseteq pooled /\ unprobed \subseteq probing /\ failed \subseteq probing
  /\ sweep = "none" => probing = {}
  /\ status # "closed" => \A c \in probing : active[c] = 0

DialsAccounted ==
  IF status = "closed" THEN drain = dialing + Cardinality(dialed) + dialErrs
  ELSE drain = 0 /\ dials = dialing + Cardinality(dialed) + dialErrs

\* What the proofs carry from one step to the next.
IInv ==
  /\ TypeOK /\ QueueDistinct /\ QueueShape /\ GrantShape
  /\ OneHolder /\ HandedBack /\ Committed
  /\ PooledOpen /\ DialedFresh /\ SweepShape
  /\ DialsAccounted /\ WithinLimit /\ NobodyStranded

-----------------------------------------------------------------------------
(* Counting.                                                               *)

LEMMA CountLiveIsNat ==
  ASSUME NEW cs \in SUBSET Conns
  PROVE  CountLive(cs) \in Nat
<1>1. {c \in cs : IsAlive(c)} \in SUBSET Conns
  BY Zenon
<1>2. IsFiniteSet({c \in cs : IsAlive(c)})
  BY Zenon, <1>1, H1PoolAssumption, FS_Subset
<1> QED  BY Zenon, <1>2, FS_CardinalityType DEF CountLive

\* Connections the sweep holds are live ones.
LEMMA ReservedAreLive ==
  ASSUME NEW cs \in SUBSET Conns, NEW act, NEW probed
  PROVE  /\ CountReservedIdle(cs, act, probed) \in Nat
         /\ CountReservedIdle(cs, act, probed) <= CountLive(cs)
<1> DEFINE R == {c \in cs : c \in probed /\ IsAlive(c) /\ act[c] < 1}
           L == {c \in cs : IsAlive(c)}
<1>1. R \in SUBSET L /\ L \in SUBSET Conns
  BY Zenon
<1>2. IsFiniteSet(L)
  BY Zenon, <1>1, H1PoolAssumption, FS_Subset
<1>3. IsFiniteSet(R) /\ Cardinality(R) <= Cardinality(L)
  BY Zenon, <1>1, <1>2, FS_Subset
<1> QED  BY Zenon, <1>3, FS_CardinalityType DEF CountReservedIdle, CountLive

\* ensureDialForWaiters starts a number of dials that fits the limit.
LEMMA EnsureDialFits ==
  ASSUME NEW cs \in SUBSET Conns, NEW act, NEW probed, NEW q, Len(q) \in Nat,
         NEW d \in Nat, NEW b
  PROVE  LET new == EnsureDial(cs, act, probed, q, d, b)
         IN /\ new \in Nat
            /\ CountLive(cs) + d <= MaxConnsPerHost =>
                 CountLive(cs) + (d + new) <= MaxConnsPerHost
<1>1. /\ CountLive(cs) \in Nat /\ MaxConnsPerHost \in Nat
      /\ CountReservedIdle(cs, act, probed) \in Nat
  BY Zenon, CountLiveIsNat, ReservedAreLive, H1PoolAssumption
<1> QED  BY <1>1 DEF EnsureDial, Smaller

LEMMA SomeLive ==
  ASSUME NEW cs \in SUBSET Conns, NEW c \in cs, IsAlive(c)
  PROVE  CountLive(cs) > 0
<1> DEFINE L == {e \in cs : IsAlive(e)}
<1>1. L \in SUBSET Conns /\ L # {}
  BY Zenon
<1>2. IsFiniteSet(L)
  BY Zenon, <1>1, H1PoolAssumption, FS_Subset
<1>3. Cardinality(L) \in Nat /\ Cardinality(L) # 0
  BY Zenon, <1>1, <1>2, FS_CardinalityType, FS_EmptySet
<1> QED  BY <1>3 DEF CountLive
-----------------------------------------------------------------------------
(* The common tail of the handlers.                                        *)

\* After DialFlush the queue is kept, or answered why as a whole.
DialResult(cs, queue, d, answers, why) ==
  /\ dials' \in Nat /\ dials' >= d /\ dialing' = dialing + (dials' - d)
  /\ CountLive(cs) + d <= MaxConnsPerHost => CountLive(cs) + dials' <= MaxConnsPerHost
  /\ \/ waiters' = queue /\ reply' = answers
     \/ /\ waiters' = <<>> /\ why # "none"
        /\ reply' = [k \in Callers |-> IF InQueue(k, queue) THEN why ELSE answers[k]]
  /\ backoff' /\ waiters' # <<>> /\ (why # "none" \/ CountLive(cs) > 0) =>
       CountLive(cs) + dials' > 0

LEMMA DialFacts ==
  ASSUME NEW cs \in SUBSET Conns, NEW act, NEW probed, NEW queue \in Seq(Callers),
         NEW d \in Nat, NEW b, NEW b2, NEW answers \in [Callers -> Replies], NEW why,
         DialFlush(cs, act, probed, queue, d, b, b2, answers, why)
  PROVE  DialResult(cs, queue, d, answers, why) /\ backoff' = b2
<1> DEFINE new   == EnsureDial(cs, act, probed, queue, d, b)
           flush == why # "none" /\ d + new = 0 /\ CountLive(cs) = 0 /\ b2
<1>1. /\ dials' = d + new /\ dialing' = dialing + new /\ backoff' = b2
      /\ waiters' = IF flush THEN <<>> ELSE queue
      /\ reply' = [k \in Callers |-> IF flush /\ InQueue(k, queue) THEN why ELSE answers[k]]
  BY Zenon DEF DialFlush
<1>2. /\ new \in Nat
      /\ CountLive(cs) + d <= MaxConnsPerHost => CountLive(cs) + (d + new) <= MaxConnsPerHost
  BY EnsureDialFits
<1>3. CountLive(cs) \in Nat
  BY Zenon, CountLiveIsNat
<1> HIDE DEF new
<1>4. dials' \in Nat /\ dials' >= d /\ dialing' = dialing + (dials' - d)
  <2>1. new = (d + new) - d /\ d + new \in Nat /\ d + new >= d
    BY <1>2
  <2> QED  BY Zenon, <1>1, <2>1
<1>5. CountLive(cs) + d <= MaxConnsPerHost => CountLive(cs) + dials' <= MaxConnsPerHost
  BY Zenon, <1>1, <1>2
<1>6. CASE flush
  <2>1. waiters' = <<>> /\ why # "none"
    BY Zenon, <1>1, <1>6
  <2>2. reply' = [k \in Callers |-> IF InQueue(k, queue) THEN why ELSE answers[k]]
    BY Zenon, <1>1, <1>6
  <2> QED  BY Zenon, <1>1, <1>4, <1>5, <2>1, <2>2 DEF DialResult
<1>7. CASE ~flush
  <2>1. waiters' = queue
    BY Zenon, <1>1, <1>7
  <2>2. reply' = answers
    BY Zenon, <1>1, <1>7
  <2>3. ASSUME backoff', why # "none" \/ CountLive(cs) > 0
        PROVE  CountLive(cs) + dials' > 0
    <3>1. ~(why # "none" /\ d + new = 0 /\ CountLive(cs) = 0)
      BY Zenon, <1>1, <1>7, <2>3
    <3>2. dials' = d + new
      BY Zenon, <1>1
    <3> QED  BY <1>2, <1>3, <2>3, <3>1, <3>2
  <2> QED  BY Zenon, <1>1, <1>4, <1>5, <2>1, <2>2, <2>3 DEF DialResult
<1> QED  BY Zenon, <1>6, <1>7

\* What ServeDialFlush does to a caller that is not queued, and to one that is.
Untouched(k) ==
  ~InQueue(k, waiters)' /\ reply'[k] = reply[k] /\ grant'[k] = grant[k]

StillQueued(k) ==
  InQueue(k, waiters)' /\ reply'[k] = reply[k] /\ grant'[k] = grant[k]

Served(k, idle) ==
  /\ ~InQueue(k, waiters)' /\ reply'[k] = "conn"
  /\ grant'[k] \in idle /\ active'[grant'[k]] = 1

Refused(k) ==
  /\ ~InQueue(k, waiters)' /\ reply'[k] \in Replies \ {"none", "conn"}
  /\ grant'[k] = grant[k]

\* The state after ServeDialFlush.
ServeResult(cs, act, probed, d, why) ==
  /\ pooled' = cs /\ backoff' \in BOOLEAN /\ active' \in [Conns -> Nat]
  /\ waiters' \in Seq(Callers) /\ QueueDistinct'
  /\ reply' \in [Callers -> Replies] /\ grant' \in [Callers -> Conns \cup {NoConn}]
  /\ dials' \in Nat /\ dials' >= d /\ dialing' = dialing + (dials' - d)
  /\ CountLive(cs) + d <= MaxConnsPerHost => CountLive(cs) + dials' <= MaxConnsPerHost
  /\ backoff' /\ waiters' # <<>> /\ (why # "none" \/ CountLive(cs) > 0) =>
       CountLive(cs) + dials' > 0
  /\ \A k \in Callers :
       IF InQueue(k, waiters)
       THEN StillQueued(k) \/ Served(k, Idle(cs, act, probed)) \/ Refused(k)
       ELSE Untouched(k)
  /\ \A c \in Conns \ Idle(cs, act, probed) : active'[c] = act[c]
  /\ \A j, k \in Callers :
       InQueue(j, waiters) /\ InQueue(k, waiters) /\ grant'[j] = grant'[k]
         /\ grant'[k] # NoConn => j = k

LEMMA ServeFacts ==
  ASSUME TypeOK, QueueDistinct,
         \A k \in Callers : InQueue(k, waiters) => grant[k] = NoConn,
         NEW cs \in SUBSET Conns, NEW act \in [Conns -> Nat], NEW probed, NEW d \in Nat,
         NEW why \in {"none", "dialBackoff", "dialError"},
         ServeDialFlush(cs, act, probed, d, why)
  PROVE  ServeResult(cs, act, probed, d, why)
<1> DEFINE idle   == Idle(cs, act, probed)
           n      == Smaller(Len(waiters), Cardinality(idle))
           queue  == SubSeq(waiters, n + 1, Len(waiters))
           answers == [k \in Callers |->
                         IF \E i \in 1..n : waiters[i] = k THEN "conn" ELSE reply[k]]
<1>1. waiters \in Seq(Callers) /\ Len(waiters) \in Nat
      /\ \A i \in 1..Len(waiters) : waiters[i] \in Callers
  BY DEF TypeOK
<1>2. idle \in SUBSET Conns /\ NoConn \notin idle /\ Cardinality(idle) \in Nat
  <2>1. idle \in SUBSET Conns
    BY Zenon DEF Idle
  <2> QED  BY Zenon, <2>1, H1PoolAssumption, FS_Subset, FS_CardinalityType
<1>3. n \in Nat /\ n <= Len(waiters)
  BY <1>1, <1>2 DEF Smaller
<1>4. PICK f \in [1..n -> idle], b2 \in LaterBackoff(backoff) :
        /\ \A i, j \in 1..n : f[i] = f[j] => i = j
        /\ pooled' = cs
        /\ active' = [c \in Conns |-> IF \E i \in 1..n : f[i] = c THEN act[c] + 1 ELSE act[c]]
        /\ grant' = [k \in Callers |->
             IF \E i \in 1..n : waiters[i] = k
             THEN f[CHOOSE i \in 1..n : waiters[i] = k] ELSE grant[k]]
        /\ DialFlush(cs, active', probed, queue, d, backoff, b2, answers, why)
  BY Zenon DEF ServeDialFlush
<1> HIDE DEF idle, n
<1>5. b2 \in BOOLEAN
  BY Zenon DEF LaterBackoff
<1>6. /\ queue \in Seq(Callers) /\ Len(queue) = Len(waiters) - n
      /\ \A i \in 1..Len(queue) : queue[i] = waiters[n + i]
  BY <1>1, <1>3
<1>7. answers \in [Callers -> Replies]
  BY Zenon DEF TypeOK, Replies
<1> HIDE DEF queue, answers
<1>8. DialResult(cs, queue, d, answers, why) /\ backoff' = b2
  <2>1. DialFlush(cs, active', probed, queue, d, backoff, b2, answers, why)
    BY Zenon, <1>4
  <2>2. queue \in Seq(Callers)
    BY Zenon, <1>6
  <2> QED  BY Zenon, <2>1, <2>2, <1>7, DialFacts
<1> USE DEF answers
<1> DEFINE served == {waiters[i] : i \in 1..n}
<1>9. \A k : InQueue(k, queue) => InQueue(k, waiters) /\ k \notin served
  <2> SUFFICES ASSUME NEW k, InQueue(k, queue)
               PROVE  InQueue(k, waiters) /\ k \notin served
    BY Zenon
  <2>1. PICK i \in 1..Len(queue) : queue[i] = k
    BY Zenon DEF InQueue
  <2>2. n + i \in 1..Len(waiters) /\ waiters[n + i] = k /\ n + i > n
    BY <1>1, <1>3, <1>6, <2>1
  <2>3. ASSUME NEW j \in 1..n, waiters[j] = k PROVE FALSE
    <3>1. j \in 1..Len(waiters) /\ j # n + i
      BY <1>1, <1>3, <2>2
    <3> QED  BY Zenon, <2>2, <2>3, <3>1 DEF QueueDistinct
  <2> QED  BY Zenon, <2>2, <2>3 DEF InQueue
<1>10. \A k : InQueue(k, waiters) => k \in served \/ InQueue(k, queue)
  <2> SUFFICES ASSUME NEW k, InQueue(k, waiters), k \notin served
               PROVE  InQueue(k, queue)
    BY Zenon
  <2>1. PICK i \in 1..Len(waiters) : waiters[i] = k
    BY Zenon DEF InQueue
  <2>2. i > n
    BY <1>1, <1>3, <2>1
  <2>3. i - n \in 1..Len(queue) /\ n + (i - n) = i
    BY <1>1, <1>3, <1>6, <2>2
  <2>4. queue[i - n] = k
    BY Zenon, <1>6, <2>1, <2>3
  <2> QED  BY Zenon, <2>3, <2>4 DEF InQueue
<1>11. \A k : k \in served => InQueue(k, waiters)
  BY <1>1, <1>3 DEF InQueue
<1>12. \A i, j \in 1..Len(queue) : queue[i] = queue[j] => i = j
  <2> SUFFICES ASSUME NEW i \in 1..Len(queue), NEW j \in 1..Len(queue), queue[i] = queue[j]
               PROVE  i = j
    BY Zenon
  <2>1. n + i \in 1..Len(waiters) /\ n + j \in 1..Len(waiters)
    BY <1>1, <1>3, <1>6
  <2>2. n + i = n + j
    BY Zenon, <1>6, <2>1 DEF QueueDistinct
  <2> QED  BY <1>3, <2>2
<1>13. \A k \in Callers : k \in served =>
         \E i \in 1..n : waiters[i] = k /\ grant'[k] = f[i]
  <2> SUFFICES ASSUME NEW k \in Callers, k \in served
               PROVE  \E i \in 1..n : waiters[i] = k /\ grant'[k] = f[i]
    BY Zenon
  <2>1. \E i \in 1..n : waiters[i] = k
    BY Zenon
  <2>2. grant'[k] = f[CHOOSE i \in 1..n : waiters[i] = k]
    BY Zenon, <1>4, <2>1
  <2> QED  BY Zenon, <2>1, <2>2
<1>14. \A k \in Callers : k \notin served => grant'[k] = grant[k] /\ answers[k] = reply[k]
  BY Zenon, <1>4
<1>15. \A k \in Callers : k \in served => answers[k] = "conn"
  BY Zenon
<1>16. \A i \in 1..n : f[i] \in idle /\ f[i] \in Conns /\ active'[f[i]] = 1
  <2> TAKE i \in 1..n
  <2>1. f[i] \in idle /\ f[i] \in Conns
    BY Zenon, <1>2, <1>4
  <2>2. act[f[i]] = 0
    BY <2>1 DEF idle, Idle
  <2>3. active'[f[i]] = act[f[i]] + 1
    BY Zenon, <1>4, <2>1
  <2> QED  BY <2>1, <2>2, <2>3
<1>17. active' \in [Conns -> Nat] /\ \A c \in Conns \ idle : active'[c] = act[c]
  <2>1. \A i \in 1..n : f[i] \in idle
    BY Zenon
  <2>2. \A c \in Conns : active'[c] \in Nat
    BY <1>4
  <2>3. \A c \in Conns \ idle : ~ \E i \in 1..n : f[i] = c
    BY Zenon, <2>1
  <2>4. \A c \in Conns \ idle : active'[c] = act[c]
    BY Zenon, <1>4, <2>3
  <2> QED  BY Zenon, <1>4, <2>2, <2>4
<1>18. \/ waiters' = queue /\ reply' = answers
       \/ /\ waiters' = <<>> /\ why # "none"
          /\ reply' = [k \in Callers |-> IF InQueue(k, queue) THEN why ELSE answers[k]]
  BY Zenon, <1>8 DEF DialResult
<1>19. waiters' \in Seq(Callers) /\ QueueDistinct'
  <2>1. CASE waiters' = queue
    BY Zenon, <1>6, <1>12, <2>1 DEF QueueDistinct
  <2>2. CASE waiters' = <<>>
    BY <2>2 DEF QueueDistinct
  <2> QED  BY Zenon, <1>18, <2>1, <2>2
<1>20. reply' \in [Callers -> Replies]
  BY Zenon, <1>7, <1>18 DEF Replies
<1>21. grant' \in [Callers -> Conns \cup {NoConn}]
  <2>1. \A k \in Callers : grant'[k] \in Conns \cup {NoConn}
    <3> TAKE k \in Callers
    <3>1. CASE k \in served
      BY Zenon, <1>13, <1>16, <3>1
    <3>2. CASE k \notin served
      BY Zenon, <1>14, <3>2 DEF TypeOK
    <3> QED  BY Zenon, <3>1, <3>2
  <2> QED  BY Zenon, <1>4, <2>1
<1>22. \A k : InQueue(k, <<>>) <=> FALSE
  BY DEF InQueue
<1> HIDE DEF served, answers
<1>23. \A k \in Callers :
         IF InQueue(k, waiters)
         THEN StillQueued(k) \/ Served(k, idle) \/ Refused(k)
         ELSE Untouched(k)
  <2> TAKE k \in Callers
  <2>1. CASE k \in served
    <3>1. InQueue(k, waiters) /\ ~InQueue(k, queue) /\ answers[k] = "conn"
      BY Zenon, <1>9, <1>11, <1>15, <2>1
    <3>2. grant'[k] \in idle /\ active'[grant'[k]] = 1
      <4>1. PICK i \in 1..n : grant'[k] = f[i]
        BY Zenon, <1>13, <2>1
      <4> QED  BY Zenon, <1>16, <4>1
    <3>3. ~InQueue(k, waiters)'
      BY Zenon, <1>18, <1>22, <3>1 DEF InQueue
    <3>4. reply'[k] = "conn"
      BY Zenon, <1>18, <3>1
    <3> QED  BY Zenon, <3>1, <3>2, <3>3, <3>4 DEF Served
  <2>2. CASE k \notin served /\ InQueue(k, queue)
    <3>1. InQueue(k, waiters) /\ grant'[k] = grant[k] /\ answers[k] = reply[k]
      BY Zenon, <1>9, <1>14, <2>2
    <3>2. CASE waiters' = queue /\ reply' = answers
      <4>1. InQueue(k, waiters)'
        BY Zenon, <2>2, <3>2 DEF InQueue
      <4> QED  BY Zenon, <3>1, <3>2, <4>1 DEF StillQueued
    <3>3. CASE /\ waiters' = <<>> /\ why # "none"
               /\ reply' = [e \in Callers |-> IF InQueue(e, queue) THEN why ELSE answers[e]]
      <4>1. ~InQueue(k, waiters)'
        BY Zenon, <1>22, <3>3 DEF InQueue
      <4>2. reply'[k] = why
        BY Zenon, <2>2, <3>3
      <4>3. why \in Replies \ {"none", "conn"}
        BY Zenon, <3>3 DEF Replies
      <4> QED  BY Zenon, <3>1, <4>1, <4>2, <4>3 DEF Refused
    <3> QED  BY Zenon, <1>18, <3>2, <3>3
  <2>3. CASE k \notin served /\ ~InQueue(k, queue)
    <3>1. ~InQueue(k, waiters) /\ grant'[k] = grant[k] /\ answers[k] = reply[k]
      BY Zenon, <1>10, <1>14, <2>3
    <3>2. ~InQueue(k, waiters)'
      BY Zenon, <1>18, <1>22, <2>3 DEF InQueue
    <3>3. reply'[k] = answers[k]
      BY Zenon, <1>18, <2>3
    <3> QED  BY Zenon, <3>1, <3>2, <3>3 DEF Untouched
  <2> QED  BY Zenon, <2>1, <2>2, <2>3
<1>24. \A j, k \in Callers :
         InQueue(j, waiters) /\ InQueue(k, waiters) /\ grant'[j] = grant'[k]
           /\ grant'[k] # NoConn => j = k
  <2> SUFFICES ASSUME NEW j \in Callers, NEW k \in Callers, InQueue(j, waiters),
                      InQueue(k, waiters), grant'[j] = grant'[k], grant'[k] # NoConn
               PROVE  j = k
    BY Zenon
  <2>1. j \in served /\ k \in served
    BY Zenon, <1>14
  <2>2. PICK i \in 1..n : waiters[i] = j /\ grant'[j] = f[i]
    BY Zenon, <1>13, <2>1
  <2>3. PICK m \in 1..n : waiters[m] = k /\ grant'[k] = f[m]
    BY Zenon, <1>13, <2>1
  <2>4. i = m
    <3>1. f[i] = f[m]
      BY Zenon, <2>2, <2>3
    <3> QED  BY Zenon, <1>4, <3>1
  <2> QED  BY Zenon, <2>2, <2>3, <2>4
<1>25. pooled' = cs /\ backoff' \in BOOLEAN
  BY Zenon, <1>4, <1>5, <1>8
<1> QED
  BY Zenon, <1>8, <1>17, <1>19, <1>20, <1>21, <1>23, <1>24, <1>25
     DEF ServeResult, DialResult, idle

-----------------------------------------------------------------------------

LEMMA InitIInv == Init => IInv
<1> SUFFICES ASSUME Init PROVE IInv
  BY Zenon
<1>1. TypeOK
  <2>1. waiters \in Seq(Callers) /\ dials \in Nat /\ drain \in Nat /\ dialing \in Nat
        /\ dialErrs \in Nat /\ spoils \in Nat /\ active \in [Conns -> Nat]
        /\ tries \in [Callers -> Nat]
    BY DEF Init
  <2>2. backoff \in BOOLEAN
    BY Zenon DEF Init
  <2>3. grant \in [Callers -> Conns \cup {NoConn}] /\ reply \in [Callers -> Replies]
    BY Zenon DEF Init, Replies
  <2> QED  BY Zenon, <2>1, <2>2, <2>3 DEF Init, TypeOK
<1>2. \A k : ~InQueue(k, waiters)
  BY DEF Init, InQueue
<1>3. QueueDistinct /\ QueueShape /\ GrantShape /\ OneHolder /\ HandedBack
  BY <1>2 DEF Init, QueueDistinct, QueueShape, GrantShape, OneHolder, HandedBack
<1>4. Committed
  BY Zenon, H1PoolAssumption DEF Init, Committed
<1>5. PooledOpen /\ DialedFresh /\ SweepShape
  BY Zenon DEF Init, PooledOpen, DialedFresh, SweepShape
<1>6. CountLive(pooled) = 0 /\ Cardinality(dialed) = 0
  <2>1. {c \in pooled : IsAlive(c)} = {} /\ dialed = {}
    BY Zenon DEF Init
  <2> QED  BY Zenon, <2>1, FS_EmptySet DEF CountLive
<1>7. DialsAccounted /\ WithinLimit /\ NobodyStranded
  BY <1>6, H1PoolAssumption DEF Init, DialsAccounted, WithinLimit, NobodyStranded
<1> QED  BY Zenon, <1>1, <1>3, <1>4, <1>5, <1>7 DEF IInv

-----------------------------------------------------------------------------
(* Counts from one state to the next.                                      *)

LEMMA CountSame ==
  ASSUME NEW cs, pooled' = cs, closed' \cap cs = closed \cap cs
  PROVE  CountLive(pooled)' = CountLive(cs)
<1>1. {c \in pooled : IsAlive(c)}' = {c \in cs : IsAlive(c)}
  BY Zenon DEF IsAlive
<1> QED  BY Zenon, <1>1 DEF CountLive

LEMMA CountFewer ==
  ASSUME NEW ds \in SUBSET Conns, NEW cs \in SUBSET ds
  PROVE  CountLive(cs) <= CountLive(ds)
<1> DEFINE A == {c \in cs : IsAlive(c)}
           B == {c \in ds : IsAlive(c)}
<1>1. A \in SUBSET B /\ B \in SUBSET Conns
  BY Zenon
<1>2. IsFiniteSet(B)
  BY Zenon, <1>1, H1PoolAssumption, FS_Subset
<1> QED  BY Zenon, <1>1, <1>2, FS_Subset DEF CountLive

LEMMA CountOneMore ==
  ASSUME NEW cs \in SUBSET Conns, NEW c \in Conns
  PROVE  CountLive(cs \cup {c}) <= CountLive(cs) + 1
<1> DEFINE A == {e \in cs : IsAlive(e)}
           B == {e \in cs \cup {c} : IsAlive(e)}
<1>1. A \in SUBSET Conns /\ B \in SUBSET (A \cup {c})
  BY Zenon
<1>2. IsFiniteSet(A)
  BY Zenon, <1>1, H1PoolAssumption, FS_Subset
<1>3. IsFiniteSet(A \cup {c}) /\ Cardinality(A \cup {c}) <= Cardinality(A) + 1
  <2>1. /\ IsFiniteSet(A \cup {c})
        /\ Cardinality(A \cup {c}) = IF c \in A THEN Cardinality(A) ELSE Cardinality(A) + 1
    BY Zenon, <1>2, FS_AddElement
  <2>2. Cardinality(A) \in Nat
    BY Zenon, <1>2, FS_CardinalityType
  <2> HIDE DEF A
  <2> QED  BY <2>1, <2>2
<1>4. Cardinality(B) <= Cardinality(A \cup {c}) /\ IsFiniteSet(B)
  BY Zenon, <1>1, <1>3, FS_Subset
<1>5. Cardinality(A) \in Nat /\ Cardinality(B) \in Nat /\ Cardinality(A \cup {c}) \in Nat
  BY Zenon, <1>2, <1>3, <1>4, FS_CardinalityType
<1> HIDE DEF A, B
<1>6. Cardinality(B) <= Cardinality(A) + 1
  BY <1>3, <1>4, <1>5
<1> QED  BY Zenon, <1>6 DEF CountLive, A, B

-----------------------------------------------------------------------------
(* Handlers that serve the queue.                                          *)

\* What a handler has done to the commitments when it comes to serve the queue.
Ready(cs, act) ==
  /\ pc' = pc
  /\ \A k \in Callers : grant[k] # NoConn => grant[k] \in cs /\ act[grant[k]] = 1
  /\ returned' \in [Conns -> {"none", "keep", "drop"}]
  /\ \A c \in Conns : returned'[c] # "none" =>
       c \in cs /\ act[c] = 1 /\ \A k \in Callers : grant[k] # c

LEMMA ServeKeeps ==
  ASSUME IInv, NEW cs \in SUBSET Conns, NEW act \in [Conns -> Nat],
         NEW probed \in SUBSET Conns, NEW d \in Nat,
         NEW why \in {"none", "dialBackoff", "dialError"},
         ServeDialFlush(cs, act, probed, d, why), Ready(cs, act)
  PROVE  /\ ServeResult(cs, act, probed, d, why)
         /\ QueueShape' /\ GrantShape' /\ OneHolder' /\ HandedBack' /\ Committed'
         /\ \A c \in probed : active'[c] = act[c]
         /\ \A k \in Callers : grant'[k] = grant[k] \/ grant'[k] \in cs
<1> DEFINE idle == Idle(cs, act, probed)
<1>0. /\ pc' = pc
      /\ \A k \in Callers : grant[k] # NoConn => grant[k] \in cs /\ act[grant[k]] = 1
      /\ \A c \in Conns : returned'[c] # "none" =>
           c \in cs /\ act[c] = 1 /\ \A k \in Callers : grant[k] # c
  BY Zenon DEF Ready
<1>1. \A k \in Callers : InQueue(k, waiters) =>
        pc[k] \in {"waiting", "reclaiming"} /\ reply[k] = "none" /\ grant[k] = NoConn
  <2> TAKE k \in Callers
  <2>1. InQueue(k, waiters) => pc[k] \in {"waiting", "reclaiming"} /\ reply[k] = "none"
    BY Zenon DEF IInv, QueueShape
  <2>2. grant[k] # NoConn => pc[k] \in {"checking", "holding"} \/ reply[k] = "conn"
    BY Zenon DEF IInv, GrantShape
  <2> QED  BY Zenon, <2>1, <2>2
<1>2. TypeOK /\ QueueDistinct
  BY Zenon DEF IInv
<1>3. ServeResult(cs, act, probed, d, why)
  <2>1. \A k \in Callers : InQueue(k, waiters) => grant[k] = NoConn
    BY Zenon, <1>1
  <2> QED  BY Zenon, <1>2, <2>1, ServeFacts
<1>4. \A k \in Callers :
        IF InQueue(k, waiters) THEN StillQueued(k) \/ Served(k, idle) \/ Refused(k)
        ELSE Untouched(k)
  BY Zenon, <1>3 DEF ServeResult
<1>5. \A c \in Conns \ idle : active'[c] = act[c]
  BY Zenon, <1>3 DEF ServeResult
<1>6. idle \in SUBSET cs /\ NoConn \notin idle /\ \A c \in idle : act[c] < 1 /\ c \notin probed
  BY Zenon, H1PoolAssumption DEF Idle
<1>7. \A c \in idle : act[c] # 1 /\ c \in Conns
  BY <1>6
<1> HIDE DEF idle
<1>8. \A k \in Callers : \/ grant'[k] = grant[k]
                         \/ InQueue(k, waiters) /\ grant'[k] \in idle /\ active'[grant'[k]] = 1
  BY Zenon, <1>4 DEF StillQueued, Served, Refused, Untouched
<1>9. QueueShape'
  <2> SUFFICES ASSUME NEW k \in Callers
               PROVE  /\ InQueue(k, waiters)' =>
                           pc'[k] \in {"waiting", "reclaiming"} /\ reply'[k] = "none"
                      /\ reply'[k] # "none" => pc'[k] \in {"waiting", "reclaiming"}
    BY Zenon DEF QueueShape
  <2>1. CASE InQueue(k, waiters)
    <3>1. InQueue(k, waiters)' => reply'[k] = reply[k]
      BY Zenon, <1>4, <2>1 DEF StillQueued, Served, Refused
    <3> QED  BY Zenon, <1>0, <1>1, <2>1, <3>1
  <2>2. CASE ~InQueue(k, waiters)
    <3>1. ~InQueue(k, waiters)' /\ reply'[k] = reply[k]
      BY Zenon, <1>4, <2>2 DEF Untouched
    <3>2. reply[k] # "none" => pc[k] \in {"waiting", "reclaiming"}
      BY Zenon DEF IInv, QueueShape
    <3> QED  BY Zenon, <1>0, <3>1, <3>2
  <2> QED  BY Zenon, <2>1, <2>2
<1>10. GrantShape'
  <2> SUFFICES ASSUME NEW k \in Callers
               PROVE  grant'[k] # NoConn <=>
                        pc'[k] \in {"checking", "holding"} \/ reply'[k] = "conn"
    BY Zenon DEF GrantShape
  <2>1. grant[k] # NoConn <=> pc[k] \in {"checking", "holding"} \/ reply[k] = "conn"
    BY Zenon DEF IInv, GrantShape
  <2>2. CASE StillQueued(k) \/ Untouched(k)
    BY Zenon, <1>0, <2>1, <2>2 DEF StillQueued, Untouched
  <2>3. CASE InQueue(k, waiters) /\ Served(k, idle)
    <3>1. grant'[k] \in idle /\ reply'[k] = "conn"
      BY Zenon, <2>3 DEF Served
    <3> QED  BY Zenon, <1>6, <3>1
  <2>4. CASE InQueue(k, waiters) /\ Refused(k)
    <3>1. grant'[k] = grant[k] /\ reply'[k] # "conn"
      BY Zenon, <2>4 DEF Refused
    <3>2. grant[k] = NoConn /\ pc[k] \in {"waiting", "reclaiming"}
      BY Zenon, <1>1, <2>4
    <3> QED  BY Zenon, <1>0, <3>1, <3>2
  <2> QED  BY Zenon, <1>4, <2>2, <2>3, <2>4
<1>11. OneHolder'
  <2> SUFFICES ASSUME NEW j \in Callers, NEW k \in Callers, grant'[j] = grant'[k],
                      grant'[k] # NoConn
               PROVE  j = k
    BY Zenon DEF OneHolder
  <2>1. CASE InQueue(j, waiters) /\ InQueue(k, waiters)
    BY Zenon, <1>3, <2>1 DEF ServeResult
  <2>2. CASE ~InQueue(j, waiters)
    <3>1. grant'[j] = grant[j]
      BY Zenon, <1>8, <2>2
    <3>2. act[grant'[k]] = 1
      BY Zenon, <1>0, <3>1
    <3>3. grant'[k] = grant[k]
      BY Zenon, <1>7, <1>8, <3>2
    <3> QED  BY Zenon, <3>1, <3>3 DEF IInv, OneHolder
  <2>3. CASE ~InQueue(k, waiters)
    <3>1. grant'[k] = grant[k]
      BY Zenon, <1>8, <2>3
    <3>2. act[grant'[j]] = 1
      BY Zenon, <1>0, <3>1
    <3>3. grant'[j] = grant[j]
      BY Zenon, <1>7, <1>8, <3>2
    <3> QED  BY Zenon, <3>1, <3>3 DEF IInv, OneHolder
  <2> QED  BY Zenon, <2>1, <2>2, <2>3
<1>12. HandedBack'
  <2> SUFFICES ASSUME NEW c \in Conns, returned'[c] # "none", NEW k \in Callers
               PROVE  grant'[k] # c
    BY Zenon DEF HandedBack
  <2>1. act[c] = 1 /\ grant[k] # c
    BY Zenon, <1>0
  <2> QED  BY Zenon, <1>7, <1>8, <2>1
<1>13. Committed'
  <2> SUFFICES ASSUME NEW c \in Conns,
                      (\E k \in Callers : grant'[k] = c) \/ returned'[c] # "none"
               PROVE  c \in pooled' /\ active'[c] = 1
    BY Zenon DEF Committed
  <2>1. pooled' = cs
    BY Zenon, <1>3 DEF ServeResult
  <2>2. ASSUME c \in cs, act[c] = 1 PROVE active'[c] = 1
    BY Zenon, <1>5, <1>7, <2>2
  <2>3. CASE returned'[c] # "none"
    BY Zenon, <1>0, <2>1, <2>2, <2>3
  <2>4. CASE \E k \in Callers : grant'[k] = c
    <3>1. PICK k \in Callers : grant'[k] = c
      BY Zenon, <2>4
    <3>2. CASE grant'[k] = grant[k]
      <4>1. grant[k] # NoConn
        BY Zenon, H1PoolAssumption, <3>1, <3>2
      <4> QED  BY Zenon, <1>0, <2>1, <2>2, <3>1, <3>2, <4>1
    <3>3. CASE grant'[k] \in idle /\ active'[grant'[k]] = 1
      BY Zenon, <1>6, <2>1, <3>1, <3>3
    <3> QED  BY Zenon, <1>8, <3>2, <3>3
  <2> QED  BY Zenon, <2>3, <2>4
<1>14. \A c \in probed : active'[c] = act[c]
  BY Zenon, <1>5, <1>6
<1>15. \A k \in Callers : grant'[k] = grant[k] \/ grant'[k] \in cs
  BY Zenon, <1>6, <1>8
<1> QED  BY Zenon, <1>3, <1>9, <1>10, <1>11, <1>12, <1>13, <1>14, <1>15

\* The rest of what it has done: connections evicted or added, a result taken, the
\* sweep begun or ended.
Settled(cs, probed, d) ==
  /\ UNCHANGED <<status, drain, socket, spoils, tries, expired>>
  /\ closed' \in SUBSET Conns /\ cs \cap closed = {} /\ cs \cap closed' = {}
  /\ \A c \in cs \cup dialed' : socket[c] # "unused"
  /\ dialed' \in SUBSET Conns /\ dialed' \cap cs = {} /\ dialed' \cap closed' = {}
  /\ dialErrs' \in Nat /\ d = dialing + Cardinality(dialed') + dialErrs'
  /\ probing' = probed /\ unprobed' \subseteq probed /\ failed' \subseteq probed
  /\ sweep' \in {"none", "running"} /\ (sweep' = "none" => probed = {})

\* What its last calls have done to the queue, the replies and the dials.
Finished(cs, d) ==
  /\ pooled' = cs /\ backoff' \in BOOLEAN /\ active' \in [Conns -> Nat]
  /\ waiters' \in Seq(Callers) /\ QueueDistinct'
  /\ reply' \in [Callers -> Replies] /\ grant' \in [Callers -> Conns \cup {NoConn}]
  /\ dials' \in Nat /\ dials' >= d /\ dialing' = dialing + (dials' - d)
  /\ CountLive(cs) + dials' <= MaxConnsPerHost
  /\ backoff' /\ waiters' # <<>> => CountLive(cs) + dials' > 0
  /\ \A k \in Callers : grant'[k] = grant[k] \/ grant'[k] \in cs
  /\ QueueShape' /\ GrantShape' /\ OneHolder' /\ HandedBack' /\ Committed'

LEMMA SettledIInv ==
  ASSUME IInv, status # "closed", NEW cs \in SUBSET Conns, NEW act,
         NEW probed \in SUBSET cs, NEW d \in Nat,
         Ready(cs, act), Settled(cs, probed, d), Finished(cs, d),
         \A c \in probed : active'[c] = 0
  PROVE  IInv'
<1>1. probed \in SUBSET Conns
  BY Zenon
<1>2. \A k \in Callers : grant'[k] = grant[k] \/ grant'[k] \in cs
  BY Zenon DEF Finished
<1>3. /\ pooled' = cs /\ backoff' \in BOOLEAN /\ active' \in [Conns -> Nat]
      /\ waiters' \in Seq(Callers) /\ QueueDistinct'
      /\ reply' \in [Callers -> Replies] /\ grant' \in [Callers -> Conns \cup {NoConn}]
      /\ dials' \in Nat /\ dials' >= d /\ dialing' = dialing + (dials' - d)
      /\ CountLive(cs) + dials' <= MaxConnsPerHost
      /\ backoff' /\ waiters' # <<>> => CountLive(cs) + dials' > 0
  BY Zenon DEF Finished
<1>4. dialing \in Nat /\ dialErrs' \in Nat /\ Cardinality(dialed') \in Nat
  <2>1. dialed' \in SUBSET Conns /\ dialErrs' \in Nat
    BY Zenon DEF Settled
  <2>2. IsFiniteSet(dialed')
    BY Zenon, <2>1, H1PoolAssumption, FS_Subset
  <2> QED  BY Zenon, <2>1, <2>2, FS_CardinalityType DEF IInv, TypeOK
<1>5. dialing' \in Nat /\ dials' = dialing' + Cardinality(dialed') + dialErrs'
  <2>1. d = dialing + Cardinality(dialed') + dialErrs'
    BY Zenon DEF Settled
  <2>2. dials' \in Nat /\ dials' >= d /\ dialing' = dialing + (dials' - d)
    BY Zenon, <1>3
  <2> QED  BY <1>4, <2>1, <2>2
<1>6. TypeOK'
  <2>1. /\ status \in {"open", "closing", "closed"} /\ drain \in Nat
        /\ socket \in [Conns -> {"unused", "clean", "fin", "residue"}] /\ spoils \in Nat
        /\ pc \in [Callers -> {"idle", "waiting", "reclaiming", "checking", "retry", "holding"}]
        /\ tries \in [Callers -> Nat] /\ expired \subseteq Callers
    BY Zenon DEF IInv, TypeOK
  <2>2. /\ pooled' \subseteq Conns /\ probing' \subseteq Conns /\ unprobed' \subseteq Conns
        /\ failed' \subseteq Conns /\ dialed' \subseteq Conns /\ closed' \subseteq Conns
    BY Zenon, <1>1, <1>3 DEF Settled
  <2>3. /\ UNCHANGED <<pc, status, drain, socket, spoils, tries, expired>>
        /\ dialErrs' \in Nat /\ sweep' \in {"none", "running"}
        /\ returned' \in [Conns -> {"none", "keep", "drop"}]
    BY Zenon DEF Settled, Ready
  <2> QED  BY Zenon, <1>3, <1>5, <2>1, <2>2, <2>3 DEF TypeOK
<1>7. PooledOpen'
  BY Zenon, <1>3 DEF PooledOpen, Settled
<1>8. DialedFresh'
  <2> SUFFICES ASSUME NEW c \in dialed'
               PROVE  /\ c \notin pooled' \cup closed' /\ returned'[c] = "none"
                      /\ \A k \in Callers : grant'[k] # c
    BY Zenon DEF DialedFresh
  <2>1. c \in Conns /\ c \notin cs /\ c \notin closed' /\ c # NoConn
    BY Zenon, H1PoolAssumption DEF Settled
  <2>2. returned'[c] = "none"
    BY Zenon, <2>1 DEF Ready
  <2>3. ASSUME NEW k \in Callers, grant'[k] = c PROVE FALSE
    <3>1. grant'[k] = grant[k] \/ grant'[k] \in cs
      BY Zenon, <1>2
    <3>2. grant[k] # NoConn => grant[k] \in cs
      BY Zenon DEF Ready
    <3> QED  BY Zenon, <2>1, <2>3, <3>1, <3>2
  <2> QED  BY Zenon, <1>3, <2>1, <2>2, <2>3
<1>9. SweepShape'
  <2>1. /\ probing' \subseteq pooled' /\ unprobed' \subseteq probing' /\ failed' \subseteq probing'
        /\ probing' = probed /\ (sweep' = "none" => probing' = {})
    BY Zenon, <1>3 DEF Settled
  <2>2. \A c \in probing' : active'[c] = 0
    BY Zenon, <1>2, <2>1
  <2> QED  BY Zenon, <2>1, <2>2 DEF SweepShape
<1>10. DialsAccounted'
  <2>1. drain = 0
    BY Zenon DEF IInv, DialsAccounted
  <2>2. drain' = drain /\ status' # "closed"
    BY Zenon DEF Settled
  <2> QED  BY Zenon, <1>5, <2>1, <2>2 DEF DialsAccounted
<1>11. CountLive(pooled)' = CountLive(cs)
  <2>1. closed' \cap cs = closed \cap cs
    BY Zenon DEF Settled
  <2> QED  BY Zenon, <1>3, <2>1, CountSame
<1>12. WithinLimit'
  BY Zenon, <1>3, <1>11 DEF WithinLimit
<1>13. NobodyStranded'
  BY Zenon, <1>3, <1>11 DEF NobodyStranded
<1> QED  BY Zenon, <1>3, <1>6, <1>7, <1>8, <1>9, <1>10, <1>12, <1>13 DEF IInv, Finished

LEMMA ServeIInv ==
  ASSUME IInv, status # "closed", NEW cs \in SUBSET Conns, NEW act \in [Conns -> Nat],
         NEW probed \in SUBSET cs, NEW d \in Nat,
         NEW why \in {"none", "dialBackoff", "dialError"},
         ServeDialFlush(cs, act, probed, d, why), Ready(cs, act), Settled(cs, probed, d),
         \A c \in probed : act[c] = 0,
         CountLive(cs) + d <= MaxConnsPerHost,
         why # "none" \/ CountLive(cs) > 0
  PROVE  IInv'
<1>1. probed \in SUBSET Conns
  BY Zenon
<1>2. /\ ServeResult(cs, act, probed, d, why)
      /\ QueueShape' /\ GrantShape' /\ OneHolder' /\ HandedBack' /\ Committed'
      /\ \A c \in probed : active'[c] = act[c]
      /\ \A k \in Callers : grant'[k] = grant[k] \/ grant'[k] \in cs
  BY <1>1, ServeKeeps, ZenonT(60)
<1>3. Finished(cs, d)
  BY Zenon, <1>2 DEF ServeResult, Finished
<1>4. \A c \in probed : active'[c] = 0
  BY Zenon, <1>2
<1> QED  BY <1>3, <1>4, SettledIInv, ZenonT(60)

\* Handlers that answer and shorten the queue without serving it: queue is what is
\* left of it, answers are the replies before the flush.
Shortened(queue, answers) ==
  /\ queue \in Seq(Callers) /\ answers \in [Callers -> Replies]
  /\ \A i, j \in 1..Len(queue) : queue[i] = queue[j] => i = j
  /\ \A k \in Callers : InQueue(k, queue) => InQueue(k, waiters) /\ answers[k] = reply[k]
  /\ \A k \in Callers : answers[k] = reply[k]
                        \/ (InQueue(k, waiters) /\ answers[k] \notin {"none", "conn"})

LEMMA FlushIInv ==
  ASSUME IInv, status # "closed", NEW cs \in SUBSET Conns, NEW probed \in SUBSET cs,
         NEW d \in Nat, NEW b, NEW b2 \in BOOLEAN, NEW queue, NEW answers,
         NEW why \in {"dialBackoff", "dialError"},
         DialFlush(cs, active, probed, queue, d, b, b2, answers, why),
         Shortened(queue, answers), pooled' = cs, UNCHANGED <<active, grant>>,
         Ready(cs, active), Settled(cs, probed, d),
         \A c \in probed : active[c] = 0,
         CountLive(cs) + d <= MaxConnsPerHost
  PROVE  IInv'
<1>1. /\ queue \in Seq(Callers) /\ answers \in [Callers -> Replies]
      /\ \A i, j \in 1..Len(queue) : queue[i] = queue[j] => i = j
      /\ \A k \in Callers : InQueue(k, queue) => InQueue(k, waiters) /\ answers[k] = reply[k]
      /\ \A k \in Callers : answers[k] = reply[k]
                            \/ (InQueue(k, waiters) /\ answers[k] \notin {"none", "conn"})
  BY Zenon DEF Shortened
<1>2. DialResult(cs, queue, d, answers, why) /\ backoff' = b2
  BY <1>1, DialFacts
<1>3. /\ dials' \in Nat /\ dials' >= d /\ dialing' = dialing + (dials' - d)
      /\ CountLive(cs) + dials' <= MaxConnsPerHost
  BY Zenon, <1>2 DEF DialResult
<1>4. \/ waiters' = queue /\ reply' = answers
      \/ /\ waiters' = <<>>
         /\ reply' = [k \in Callers |-> IF InQueue(k, queue) THEN why ELSE answers[k]]
  BY Zenon, <1>2 DEF DialResult
<1>5. backoff' /\ waiters' # <<>> => CountLive(cs) + dials' > 0
  <2>1. why # "none"
    BY Zenon
  <2> QED  BY Zenon, <1>2, <2>1 DEF DialResult
<1>6. waiters' \in Seq(Callers) /\ QueueDistinct'
  <2>1. CASE waiters' = queue
    BY Zenon, <1>1, <2>1 DEF QueueDistinct
  <2>2. CASE waiters' = <<>>
    BY <2>2 DEF QueueDistinct
  <2> QED  BY Zenon, <1>4, <2>1, <2>2
<1>7. reply' \in [Callers -> Replies]
  BY Zenon, <1>1, <1>4 DEF Replies
<1>8. \A k : ~InQueue(k, <<>>)
  BY DEF InQueue
<1>9. \A k \in Callers :
        /\ InQueue(k, waiters)' => InQueue(k, waiters) /\ reply'[k] = reply[k]
        /\ reply'[k] = reply[k] \/ (InQueue(k, waiters) /\ reply'[k] \notin {"none", "conn"})
  <2> TAKE k \in Callers
  <2>1. CASE waiters' = queue /\ reply' = answers
    <3>1. InQueue(k, waiters)' => InQueue(k, queue)
      BY Zenon, <2>1 DEF InQueue
    <3> QED  BY Zenon, <1>1, <2>1, <3>1
  <2>2. CASE /\ waiters' = <<>>
             /\ reply' = [e \in Callers |-> IF InQueue(e, queue) THEN why ELSE answers[e]]
    <3>1. ~InQueue(k, waiters)'
      BY Zenon, <1>8, <2>2 DEF InQueue
    <3>2. reply'[k] = IF InQueue(k, queue) THEN why ELSE answers[k]
      BY Zenon, <2>2
    <3>3. why \notin {"none", "conn"}
      BY Zenon
    <3>4. InQueue(k, queue) => InQueue(k, waiters)
      BY Zenon, <1>1
    <3>5. answers[k] = reply[k] \/ (InQueue(k, waiters) /\ answers[k] \notin {"none", "conn"})
      BY Zenon, <1>1
    <3> QED  BY Zenon, <3>1, <3>2, <3>3, <3>4, <3>5
  <2> QED  BY Zenon, <1>4, <2>1, <2>2
<1>10. \A k \in Callers : InQueue(k, waiters) =>
         pc[k] \in {"waiting", "reclaiming"} /\ reply[k] = "none"
  BY Zenon DEF IInv, QueueShape
<1>11. pc' = pc /\ grant' = grant /\ active' = active
  BY Zenon DEF Ready
<1>12. QueueShape'
  <2>1. \A k \in Callers : reply[k] # "none" => pc[k] \in {"waiting", "reclaiming"}
    BY Zenon DEF IInv, QueueShape
  <2> QED  BY Zenon, <1>9, <1>10, <1>11, <2>1 DEF QueueShape
<1>13. GrantShape'
  <2> SUFFICES ASSUME NEW k \in Callers
               PROVE  grant[k] # NoConn <=> pc[k] \in {"checking", "holding"} \/ reply'[k] = "conn"
    BY Zenon, <1>11 DEF GrantShape
  <2>1. grant[k] # NoConn <=> pc[k] \in {"checking", "holding"} \/ reply[k] = "conn"
    BY Zenon DEF IInv, GrantShape
  <2>2. reply'[k] = "conn" <=> reply[k] = "conn"
    <3>1. CASE reply'[k] = reply[k]
      BY Zenon, <3>1
    <3>2. CASE InQueue(k, waiters) /\ reply'[k] \notin {"none", "conn"}
      <4>1. reply[k] = "none"
        BY Zenon, <1>10, <3>2
      <4> QED  BY Zenon, <3>2, <4>1
    <3> QED  BY Zenon, <1>9, <3>1, <3>2
  <2> QED  BY Zenon, <2>1, <2>2
<1>14. OneHolder'
  BY Zenon, <1>11 DEF IInv, OneHolder
<1>15. HandedBack'
  BY Zenon, <1>11 DEF HandedBack, Ready
<1>16. Committed'
  <2> SUFFICES ASSUME NEW c \in Conns,
                      (\E k \in Callers : grant[k] = c) \/ returned'[c] # "none"
               PROVE  c \in cs /\ active[c] = 1
    BY Zenon, <1>11 DEF Committed
  <2>1. c # NoConn
    BY Zenon, H1PoolAssumption
  <2> QED  BY Zenon, <2>1 DEF Ready
<1>17. active' \in [Conns -> Nat] /\ grant' \in [Callers -> Conns \cup {NoConn}]
       /\ pooled' = cs /\ backoff' \in BOOLEAN
  BY Zenon, <1>2, <1>11 DEF IInv, TypeOK
<1>18. Finished(cs, d)
  BY Zenon, <1>3, <1>5, <1>6, <1>7, <1>11, <1>12, <1>13, <1>14, <1>15, <1>16, <1>17 DEF Finished
<1>19. \A c \in probed : active'[c] = 0
  BY Zenon, <1>11
<1> QED  BY <1>18, <1>19, SettledIInv, ZenonT(60)

\* What a handler of the open pool starts from.
OpenShape ==
  /\ pooled \in SUBSET Conns /\ dialed \in SUBSET Conns /\ closed \in SUBSET Conns
  /\ active \in [Conns -> Nat] /\ returned \in [Conns -> {"none", "keep", "drop"}]
  /\ \A k \in Callers : grant[k] # NoConn => grant[k] \in pooled /\ active[grant[k]] = 1
  /\ \A c \in Conns : returned[c] # "none" =>
       c \in pooled /\ active[c] = 1 /\ \A k \in Callers : grant[k] # c
  /\ pooled \cap closed = {} /\ dialed \cap pooled = {} /\ dialed \cap closed = {}
  /\ \A c \in pooled \cup dialed : socket[c] # "unused"
  /\ probing \in SUBSET pooled /\ unprobed \subseteq probing /\ failed \subseteq probing
  /\ sweep \in {"none", "running"} /\ (sweep = "none" => probing = {})
  /\ \A c \in probing : active[c] = 0

LEMMA OpenFacts ==
  ASSUME IInv, status # "closed"
  PROVE  OpenShape
<1>1. /\ pooled \in SUBSET Conns /\ dialed \in SUBSET Conns /\ closed \in SUBSET Conns
      /\ active \in [Conns -> Nat] /\ returned \in [Conns -> {"none", "keep", "drop"}]
      /\ sweep \in {"none", "running"}
  BY Zenon DEF IInv, TypeOK
<1>2. \A k \in Callers : grant[k] \in Conns \cup {NoConn}
  BY Zenon DEF IInv, TypeOK
<1>3. \A c \in Conns : (\E k \in Callers : grant[k] = c) \/ returned[c] # "none" =>
        c \in pooled /\ active[c] = 1
  BY Zenon DEF IInv, Committed
<1>4. \A k \in Callers : grant[k] # NoConn => grant[k] \in pooled /\ active[grant[k]] = 1
  BY Zenon, <1>2, <1>3
<1>5. \A c \in Conns : returned[c] # "none" =>
        c \in pooled /\ active[c] = 1 /\ \A k \in Callers : grant[k] # c
  BY Zenon, <1>3 DEF IInv, HandedBack
<1>6. pooled \cap closed = {} /\ \A c \in pooled \cup dialed : socket[c] # "unused"
  BY Zenon DEF IInv, PooledOpen
<1>7. dialed \cap pooled = {} /\ dialed \cap closed = {}
  BY Zenon DEF IInv, DialedFresh
<1>8. /\ probing \in SUBSET pooled /\ unprobed \subseteq probing /\ failed \subseteq probing
      /\ (sweep = "none" => probing = {}) /\ \A c \in probing : active[c] = 0
  BY Zenon DEF IInv, SweepShape
<1> QED  BY Zenon, <1>1, <1>4, <1>5, <1>6, <1>7, <1>8 DEF OpenShape

LEMMA OpenDials ==
  ASSUME IInv, status # "closed"
  PROVE  /\ drain = 0 /\ dials \in Nat /\ dialing \in Nat /\ dialErrs \in Nat
         /\ IsFiniteSet(dialed) /\ Cardinality(dialed) \in Nat
         /\ dials = dialing + Cardinality(dialed) + dialErrs
         /\ CountLive(pooled) \in Nat /\ CountLive(pooled) + dials <= MaxConnsPerHost
<1>1. pooled \in SUBSET Conns /\ dialed \in SUBSET Conns
      /\ dials \in Nat /\ dialing \in Nat /\ dialErrs \in Nat
  BY Zenon DEF IInv, TypeOK
<1>2. IsFiniteSet(dialed)
  BY Zenon, <1>1, H1PoolAssumption, FS_Subset
<1>3. Cardinality(dialed) \in Nat
  BY Zenon, <1>2, FS_CardinalityType
<1>4. drain = 0 /\ dials = dialing + Cardinality(dialed) + dialErrs
  BY Zenon DEF IInv, DialsAccounted
<1>5. CountLive(pooled) \in Nat
  BY Zenon, <1>1, CountLiveIsNat
<1>6. CountLive(pooled) + dials <= MaxConnsPerHost
  BY Zenon DEF IInv, WithinLimit
<1> QED  BY Zenon, <1>1, <1>2, <1>3, <1>4, <1>5, <1>6

LEMMA HandleReleaseKeeps ==
  ASSUME IInv, NEW c \in Conns, HandleRelease(c)
  PROVE  IInv'
<1> DEFINE evict == returned[c] = "drop" \/ ~IsAlive(c)
           cs    == IF evict THEN pooled \ {c} ELSE pooled
           act   == [active EXCEPT ![c] = @ - 1]
<1>1. /\ status # "closed" /\ returned[c] # "none"
      /\ returned' = [returned EXCEPT ![c] = "none"]
      /\ closed' = IF evict /\ c \in pooled THEN closed \cup {c} ELSE closed
      /\ ServeDialFlush(cs, act, probing, dials, "dialBackoff")
      /\ UNCHANGED <<probing, sweep, unprobed, failed, status, drain, dialed, dialErrs,
                     socket, spoils, pc, tries, expired>>
  BY Zenon DEF HandleRelease, sweepVars
<1>2. OpenShape
  BY Zenon, <1>1, OpenFacts
<1>3. dials \in Nat /\ dialErrs \in Nat /\ dials = dialing + Cardinality(dialed) + dialErrs
      /\ CountLive(pooled) \in Nat /\ CountLive(pooled) + dials <= MaxConnsPerHost
  BY Zenon, <1>1, OpenDials
<1>4. c \in pooled /\ active[c] = 1 /\ \A k \in Callers : grant[k] # c
  BY Zenon, <1>1, <1>2 DEF OpenShape
<1>5. act \in [Conns -> Nat] /\ \A e \in Conns \ {c} : act[e] = active[e]
  BY <1>2, <1>4 DEF OpenShape
<1>6. cs \in SUBSET pooled /\ pooled \ {c} \subseteq cs /\ cs \in SUBSET Conns
  BY Zenon, <1>2 DEF OpenShape
<1>7. cs \cap closed' = {} /\ closed' \in SUBSET Conns /\ closed' \subseteq closed \cup {c}
  BY Zenon, <1>1, <1>2 DEF OpenShape
<1> HIDE DEF act, cs, evict
<1>8. Ready(cs, act)
  <2>1. \A k \in Callers : grant[k] # NoConn => grant[k] \in cs /\ act[grant[k]] = 1
    BY Zenon, <1>2, <1>4, <1>5, <1>6 DEF OpenShape
  <2>2. returned' \in [Conns -> {"none", "keep", "drop"}]
    BY Zenon, <1>1, <1>2 DEF OpenShape
  <2>3. ASSUME NEW e \in Conns, returned'[e] # "none"
        PROVE  e \in cs /\ act[e] = 1 /\ \A k \in Callers : grant[k] # e
    <3>1. e # c /\ returned[e] # "none"
      BY Zenon, <1>1, <1>2, <2>3 DEF OpenShape
    <3> QED  BY Zenon, <1>2, <1>5, <1>6, <3>1 DEF OpenShape
  <2> QED  BY Zenon, <1>1, <2>1, <2>2, <2>3 DEF Ready
<1>9. probing \in SUBSET cs /\ \A e \in probing : act[e] = 0
  BY <1>2, <1>4, <1>5, <1>6 DEF OpenShape
<1>10. Settled(cs, probing, dials)
  <2>1. dialed \cap closed' = {} /\ dialed \cap cs = {} /\ cs \cap closed = {}
    BY <1>2, <1>4, <1>6, <1>7 DEF OpenShape
  <2>2. \A e \in cs \cup dialed : socket[e] # "unused"
    BY Zenon, <1>2, <1>6 DEF OpenShape
  <2> QED  BY Zenon, <1>1, <1>2, <1>3, <1>7, <2>1, <2>2 DEF Settled, OpenShape
<1>11. CountLive(cs) + dials <= MaxConnsPerHost
  <2>1. CountLive(cs) <= CountLive(pooled) /\ CountLive(cs) \in Nat
    BY Zenon, <1>2, <1>6, CountFewer, CountLiveIsNat DEF OpenShape
  <2> QED  BY <1>3, <2>1, H1PoolAssumption
<1>12. ServeDialFlush(cs, act, probing, dials, "dialBackoff") /\ status # "closed" /\ dials \in Nat
  BY Zenon, <1>1, <1>3
<1> QED
  BY <1>5, <1>6, <1>8, <1>9, <1>10, <1>11, <1>12, ServeIInv, ZenonT(60)

LEMMA HandleDialOkKeeps ==
  ASSUME IInv, NEW c \in Conns, HandleDialOk(c)
  PROVE  IInv'
<1> DEFINE cs == pooled \cup {c}
           d  == dials - 1
<1>1. /\ status # "closed" /\ c \in dialed /\ dialed' = dialed \ {c}
      /\ ServeDialFlush(cs, active, probing, d, "none")
      /\ UNCHANGED <<probing, sweep, unprobed, failed, status, drain, dialErrs, returned,
                     socket, closed, spoils, pc, tries, expired>>
  BY Zenon DEF HandleDialOk, sweepVars, socketVars
<1>2. OpenShape
  BY Zenon, <1>1, OpenFacts
<1>3. /\ dialing \in Nat /\ dialErrs \in Nat /\ dials = dialing + Cardinality(dialed) + dialErrs
      /\ IsFiniteSet(dialed) /\ Cardinality(dialed) \in Nat
      /\ CountLive(pooled) \in Nat /\ CountLive(pooled) + dials <= MaxConnsPerHost
  BY Zenon, <1>1, OpenDials
<1>4. cs \in SUBSET Conns /\ pooled \subseteq cs /\ cs \cap closed = {} /\ dialed' \cap cs = {}
      /\ closed' = closed /\ dialed' \in SUBSET Conns /\ dialed' \cap closed = {}
      /\ probing \in SUBSET cs
  BY <1>1, <1>2 DEF OpenShape
<1>5. \A e \in cs \cup dialed' : socket[e] # "unused"
  BY Zenon, <1>1, <1>2 DEF OpenShape
<1>6. d \in Nat /\ dialErrs' \in Nat /\ d = dialing + Cardinality(dialed') + dialErrs'
  <2>1. Cardinality(dialed \ {c}) = Cardinality(dialed) - 1
    BY Zenon, <1>1, <1>3, FS_RemoveElement
  <2>2. Cardinality(dialed \ {c}) \in Nat
    BY Zenon, <1>3, FS_RemoveElement, FS_CardinalityType
  <2> QED  BY <1>1, <1>3, <2>1, <2>2
<1>7. CountLive(cs) + d <= MaxConnsPerHost /\ CountLive(cs) > 0
  <2>1. CountLive(cs) <= CountLive(pooled) + 1 /\ CountLive(cs) \in Nat
    BY Zenon, <1>2, <1>4, CountOneMore, CountLiveIsNat DEF OpenShape
  <2>2. IsAlive(c)
    BY Zenon, <1>1, <1>2 DEF OpenShape, IsAlive
  <2>3. CountLive(cs) > 0
    BY Zenon, <1>4, <2>2, SomeLive
  <2> QED  BY <1>3, <1>6, <2>1, <2>3, H1PoolAssumption
<1> HIDE DEF cs, d
<1>8. Ready(cs, active)
  BY Zenon, <1>1, <1>2, <1>4 DEF Ready, OpenShape
<1>9. Settled(cs, probing, d)
  BY Zenon, <1>1, <1>2, <1>4, <1>5, <1>6 DEF Settled, OpenShape
<1>10. /\ ServeDialFlush(cs, active, probing, d, "none") /\ status # "closed"
       /\ active \in [Conns -> Nat] /\ \A e \in probing : active[e] = 0
  BY Zenon, <1>1, <1>2 DEF OpenShape
<1> QED
  BY <1>4, <1>6, <1>7, <1>8, <1>9, <1>10, ServeIInv, ZenonT(60)

LEMMA HandleSweepDoneKeeps ==
  ASSUME IInv, HandleSweepDone
  PROVE  IInv'
<1> DEFINE cs == pooled \ failed
<1>1. /\ status # "closed" /\ unprobed = {}
      /\ sweep' = "none" /\ probing' = {} /\ failed' = {}
      /\ closed' = closed \cup (failed \cap pooled)
      /\ ServeDialFlush(cs, active, {}, dials, "dialBackoff")
      /\ UNCHANGED <<unprobed, status, drain, dialed, dialErrs, returned, socket, spoils,
                     pc, tries, expired>>
  BY Zenon DEF HandleSweepDone
<1>2. OpenShape
  BY Zenon, <1>1, OpenFacts
<1>3. dials \in Nat /\ dialErrs \in Nat /\ dials = dialing + Cardinality(dialed) + dialErrs
      /\ CountLive(pooled) \in Nat /\ CountLive(pooled) + dials <= MaxConnsPerHost
  BY Zenon, <1>1, OpenDials
<1>4. /\ cs \in SUBSET pooled /\ cs \in SUBSET Conns /\ closed' \in SUBSET Conns
      /\ cs \cap closed = {} /\ cs \cap closed' = {}
      /\ dialed \cap cs = {} /\ dialed \cap closed' = {}
  BY Zenon, <1>1, <1>2 DEF OpenShape
<1>5. \A e \in pooled : active[e] = 1 => e \in cs
  BY <1>2 DEF OpenShape
<1>6. \A e \in cs \cup dialed : socket[e] # "unused"
  BY Zenon, <1>2 DEF OpenShape
<1>7. CountLive(cs) + dials <= MaxConnsPerHost
  <2>1. CountLive(cs) <= CountLive(pooled) /\ CountLive(cs) \in Nat
    BY Zenon, <1>2, <1>4, CountFewer, CountLiveIsNat DEF OpenShape
  <2> QED  BY <1>3, <2>1, H1PoolAssumption
<1> HIDE DEF cs
<1>8. Ready(cs, active)
  BY Zenon, <1>1, <1>2, <1>5 DEF Ready, OpenShape
<1>9. Settled(cs, {}, dials)
  BY Zenon, <1>1, <1>2, <1>3, <1>4, <1>6 DEF Settled, OpenShape
<1>10. /\ ServeDialFlush(cs, active, {}, dials, "dialBackoff") /\ status # "closed"
       /\ active \in [Conns -> Nat] /\ dials \in Nat /\ \A e \in {} : active[e] = 0
       /\ {} \in SUBSET cs
  BY Zenon, <1>1, <1>2, <1>3 DEF OpenShape
<1> QED
  BY <1>4, <1>7, <1>8, <1>9, <1>10, ServeIInv, ZenonT(60)

LEMMA HandleDialErrKeeps ==
  ASSUME IInv, HandleDialErr
  PROVE  IInv'
<1> DEFINE n       == Len(waiters)
           last    == n > CountReservedIdle(pooled, active, probing)
           queue   == IF last THEN SubSeq(waiters, 1, n - 1) ELSE waiters
           answers == IF last THEN [reply EXCEPT ![waiters[n]] = "dialError"] ELSE reply
           d       == dials - 1
<1>1. /\ status # "closed" /\ dialErrs > 0 /\ dialErrs' = dialErrs - 1
      /\ DialFlush(pooled, active, probing, queue, d, TRUE, TRUE, answers, "dialError")
      /\ UNCHANGED <<pooled, active, probing, sweep, unprobed, failed, status, drain, dialed,
                     returned, socket, closed, spoils, pc, tries, expired, grant>>
  BY Zenon DEF HandleDialErr, sweepVars, socketVars
<1>2. OpenShape
  BY Zenon, <1>1, OpenFacts
<1>3. /\ dials \in Nat /\ dialing \in Nat /\ dialErrs \in Nat /\ Cardinality(dialed) \in Nat
      /\ dials = dialing + Cardinality(dialed) + dialErrs
      /\ CountLive(pooled) \in Nat /\ CountLive(pooled) + dials <= MaxConnsPerHost
  BY Zenon, <1>1, OpenDials
<1>4. /\ waiters \in Seq(Callers) /\ reply \in [Callers -> Replies]
      /\ \A i, j \in 1..Len(waiters) : waiters[i] = waiters[j] => i = j
  BY Zenon DEF IInv, TypeOK, QueueDistinct
<1>5. Shortened(queue, answers)
  <2>1. CASE last
    <3>1. CountReservedIdle(pooled, active, probing) \in Nat
      BY Zenon, <1>2, ReservedAreLive DEF OpenShape
    <3>2. n \in Nat /\ n > 0 /\ waiters[n] \in Callers
      BY <1>4, <2>1, <3>1
    <3>3. /\ queue \in Seq(Callers) /\ Len(queue) = n - 1
          /\ \A i \in 1..Len(queue) : queue[i] = waiters[i] /\ i \in 1..n /\ i # n
      <4>1. queue = SubSeq(waiters, 1, n - 1)
        BY Zenon, <2>1
      <4>2. 1 \in Int /\ n - 1 \in Int /\ \A i \in 1..(n - 1) : waiters[i] \in Callers
        BY <1>4, <3>2
      <4> HIDE DEF queue, n
      <4>3. /\ queue \in Seq(Callers)
            /\ Len(queue) = IF 1 <= n - 1 THEN n - 1 - 1 + 1 ELSE 0
            /\ \A i \in 1..(n - 1 - 1 + 1) : queue[i] = waiters[1 + i - 1]
        BY <4>1, <4>2
      <4> QED  BY <3>2, <4>3
    <3>4. /\ answers \in [Callers -> Replies] /\ answers[waiters[n]] = "dialError"
          /\ \A k \in Callers : k # waiters[n] => answers[k] = reply[k]
      BY Zenon, <1>4, <2>1, <3>2 DEF Replies
    <3> HIDE DEF queue, answers
    <3>5. \A k \in Callers : InQueue(k, queue) => InQueue(k, waiters) /\ answers[k] = reply[k]
      <4> SUFFICES ASSUME NEW k \in Callers, InQueue(k, queue)
                   PROVE  InQueue(k, waiters) /\ answers[k] = reply[k]
        BY Zenon
      <4>1. PICK i \in 1..Len(queue) : queue[i] = k
        BY Zenon DEF InQueue
      <4>2. i \in 1..n /\ waiters[i] = k /\ i # n
        BY Zenon, <3>3, <4>1
      <4>3. k # waiters[n]
        BY <1>4, <3>2, <4>2
      <4> QED  BY Zenon, <3>4, <4>2, <4>3 DEF InQueue
    <3>6. \A k \in Callers : answers[k] = reply[k]
                             \/ (InQueue(k, waiters) /\ answers[k] \notin {"none", "conn"})
      <4>1. InQueue(waiters[n], waiters)
        BY <3>2 DEF InQueue
      <4>2. answers[waiters[n]] \notin {"none", "conn"}
        BY Zenon, <3>4
      <4> QED  BY Zenon, <3>4, <4>1, <4>2
    <3>7. \A i, j \in 1..Len(queue) : queue[i] = queue[j] => i = j
      BY Zenon, <1>4, <3>3
    <3> QED  BY Zenon, <3>3, <3>4, <3>5, <3>6, <3>7 DEF Shortened
  <2>2. CASE ~last
    <3>1. queue = waiters /\ answers = reply
      BY Zenon, <2>2
    <3> QED  BY Zenon, <1>4, <3>1 DEF Shortened
  <2> QED  BY Zenon, <2>1, <2>2
<1>6. d \in Nat /\ dialErrs' \in Nat /\ d = dialing + Cardinality(dialed') + dialErrs'
      /\ CountLive(pooled) + d <= MaxConnsPerHost
  <2>1. dialed' = dialed /\ dialErrs > 0 /\ dialErrs' = dialErrs - 1
    BY Zenon, <1>1
  <2> QED  BY <1>3, <2>1, H1PoolAssumption
<1> HIDE DEF queue, answers, d
<1>7. Ready(pooled, active)
  BY Zenon, <1>1, <1>2 DEF Ready, OpenShape
<1>8. Settled(pooled, probing, d)
  BY Zenon, <1>1, <1>2, <1>6 DEF Settled, OpenShape
<1>9. /\ DialFlush(pooled, active, probing, queue, d, TRUE, TRUE, answers, "dialError")
      /\ status # "closed" /\ pooled' = pooled /\ UNCHANGED <<active, grant>>
      /\ \A e \in probing : active[e] = 0
      /\ pooled \in SUBSET Conns /\ probing \in SUBSET pooled
  BY Zenon, <1>1, <1>2 DEF OpenShape
<1> QED
  BY <1>5, <1>6, <1>7, <1>8, <1>9, FlushIInv, ZenonT(60)

\* What pruneExpiredWaiters leaves is part of the queue, and not expired.
LEMMA SurvivingFacts ==
  ASSUME NEW ws \in Seq(Callers), \A i, j \in 1..Len(ws) : ws[i] = ws[j] => i = j,
         NEW queue \in Surviving(ws)
  PROVE  /\ queue \in Seq(Callers)
         /\ \A i, j \in 1..Len(queue) : queue[i] = queue[j] => i = j
         /\ \A k \in Callers : InQueue(k, queue) => InQueue(k, ws) /\ k \notin expired
<1> DEFINE S == {i \in 1..Len(ws) : ws[i] \notin expired}
           n == Cardinality(S)
<1>1. n \in Nat
  <2>1. IsFiniteSet(1..Len(ws))
    BY FS_Interval
  <2>2. IsFiniteSet(S)
    BY Zenon, <2>1, FS_Subset
  <2> QED  BY Zenon, <2>2, FS_CardinalityType
<1>2. PICK h \in [1..n -> S] : /\ \A i, j \in 1..n : i < j => h[i] < h[j]
                               /\ queue = [j \in 1..n |-> ws[h[j]]]
  BY Zenon DEF Surviving
<1> HIDE DEF n
<1>3. \A j \in 1..n : h[j] \in 1..Len(ws) /\ ws[h[j]] \in Callers /\ ws[h[j]] \notin expired
  BY <1>2
<1>4. queue \in Seq(Callers) /\ Len(queue) = n /\ \A j \in 1..n : queue[j] = ws[h[j]]
  BY <1>1, <1>2, <1>3
<1>5. \A i, j \in 1..Len(queue) : queue[i] = queue[j] => i = j
  <2> SUFFICES ASSUME NEW i \in 1..n, NEW j \in 1..n, queue[i] = queue[j] PROVE i = j
    BY Zenon, <1>4
  <2>1. h[i] = h[j]
    <3>1. ws[h[i]] = ws[h[j]] /\ h[i] \in 1..Len(ws) /\ h[j] \in 1..Len(ws)
      BY Zenon, <1>3, <1>4
    <3> QED  BY Zenon, <3>1
  <2>2. h[i] \in Int
    BY <1>3
  <2> QED  BY <1>1, <1>2, <2>1, <2>2
<1>6. ASSUME NEW k \in Callers, InQueue(k, queue) PROVE InQueue(k, ws) /\ k \notin expired
  <2>1. PICK j \in 1..n : queue[j] = k
    BY Zenon, <1>4, <1>6 DEF InQueue
  <2> QED  BY Zenon, <1>3, <1>4, <2>1 DEF InQueue
<1> QED  BY Zenon, <1>4, <1>5, <1>6

LEMMA HandleTickKeeps ==
  ASSUME IInv, HandleTick
  PROVE  IInv'
<1>1. status # "closed"
  BY Zenon DEF HandleTick
<1>2. PICK idle \in SUBSET {c \in pooled \ probing : active[c] = 0},
           b2 \in LaterBackoff(backoff), queue \in Surviving(waiters) :
        LET gone   == idle \cup Dead
            cs     == pooled \ gone
            starts == sweep = "none" /\ Candidates(cs) # {}
            probed == IF starts THEN Candidates(cs) ELSE probing
        IN /\ pooled' = cs /\ closed' = closed \cup gone
           /\ probing' = probed
           /\ sweep' = IF starts THEN "running" ELSE sweep
           /\ unprobed' = IF starts THEN probed ELSE unprobed
           /\ DialFlush(cs, active, probed, queue, dials, backoff, b2,
                        [k \in Callers |->
                           IF InQueue(k, waiters) /\ k \in expired THEN "ctxErr" ELSE reply[k]],
                        "dialBackoff")
  BY Zenon DEF HandleTick
<1> DEFINE cs      == pooled \ (idle \cup Dead)
           starts  == sweep = "none" /\ Candidates(cs) # {}
           probed  == IF starts THEN Candidates(cs) ELSE probing
           answers == [k \in Callers |->
                         IF InQueue(k, waiters) /\ k \in expired THEN "ctxErr" ELSE reply[k]]
<1>3. OpenShape
  BY Zenon, <1>1, OpenFacts
<1>4. UNCHANGED <<active, failed, status, drain, dialed, dialErrs, returned, socket,
                  spoils, pc, tries, expired, grant>>
  BY Zenon DEF HandleTick
<1>5. /\ dials \in Nat /\ dialErrs \in Nat /\ dials = dialing + Cardinality(dialed) + dialErrs
      /\ CountLive(pooled) \in Nat /\ CountLive(pooled) + dials <= MaxConnsPerHost
  BY Zenon, <1>1, OpenDials
<1>6. b2 \in BOOLEAN
  BY Zenon DEF LaterBackoff
<1>7. Dead = {}
  BY Zenon, <1>3 DEF OpenShape, Dead, IsAlive
<1>8. /\ cs \in SUBSET pooled /\ cs \in SUBSET Conns /\ probing \subseteq cs
      /\ closed' \in SUBSET Conns /\ cs \cap closed = {} /\ cs \cap closed' = {}
      /\ dialed \cap cs = {} /\ dialed \cap closed' = {}
      /\ \A e \in pooled : active[e] = 1 => e \in cs
  BY <1>2, <1>3, <1>7 DEF OpenShape
<1>9. /\ probed \in SUBSET cs /\ \A e \in probed : active[e] = 0
      /\ probing' = probed /\ unprobed' \subseteq probed /\ failed \subseteq probed
      /\ sweep' \in {"none", "running"} /\ (sweep' = "none" => probed = {})
  <2>1. CASE starts
    <3>1. probing = {} /\ failed = {}
      BY Zenon, <1>3, <2>1 DEF OpenShape
    <3>2. probed = Candidates(cs) /\ sweep' = "running" /\ unprobed' = probed /\ probing' = probed
      BY Zenon, <1>2, <2>1
    <3>3. probed \in SUBSET cs /\ \A e \in probed : active[e] = 0
      BY Zenon, <3>2 DEF Candidates
    <3> QED  BY Zenon, <3>1, <3>2, <3>3
  <2>2. CASE ~starts
    <3>1. probed = probing /\ sweep' = sweep /\ unprobed' = unprobed /\ probing' = probing
      BY Zenon, <1>2, <2>2
    <3> QED  BY Zenon, <1>3, <1>8, <3>1 DEF OpenShape
  <2> QED  BY Zenon, <2>1, <2>2
<1>10. Shortened(queue, answers)
  <2>1. /\ waiters \in Seq(Callers) /\ reply \in [Callers -> Replies]
        /\ \A i, j \in 1..Len(waiters) : waiters[i] = waiters[j] => i = j
    BY Zenon DEF IInv, TypeOK, QueueDistinct
  <2>2. /\ queue \in Seq(Callers)
        /\ \A i, j \in 1..Len(queue) : queue[i] = queue[j] => i = j
        /\ \A k \in Callers : InQueue(k, queue) => InQueue(k, waiters) /\ k \notin expired
    BY Zenon, <2>1, SurvivingFacts
  <2>3. answers \in [Callers -> Replies]
    BY Zenon, <2>1 DEF Replies
  <2>4. \A k \in Callers :
          answers[k] = IF InQueue(k, waiters) /\ k \in expired THEN "ctxErr" ELSE reply[k]
    BY Zenon
  <2> HIDE DEF answers
  <2>5. \A k \in Callers : answers[k] = reply[k]
                           \/ (InQueue(k, waiters) /\ answers[k] \notin {"none", "conn"})
    <3> TAKE k \in Callers
    <3>1. answers[k] = IF InQueue(k, waiters) /\ k \in expired THEN "ctxErr" ELSE reply[k]
      BY Zenon, <2>4
    <3> QED  BY Zenon, <3>1
  <2>6. \A k \in Callers : InQueue(k, queue) => InQueue(k, waiters) /\ answers[k] = reply[k]
    BY Zenon, <2>2, <2>4
  <2> QED  BY Zenon, <2>2, <2>3, <2>5, <2>6 DEF Shortened
<1>11. CountLive(cs) + dials <= MaxConnsPerHost
  <2>1. CountLive(cs) <= CountLive(pooled) /\ CountLive(cs) \in Nat
    BY Zenon, <1>3, <1>8, CountFewer, CountLiveIsNat DEF OpenShape
  <2> QED  BY <1>5, <2>1, H1PoolAssumption
<1>12. pooled' = cs /\ DialFlush(cs, active, probed, queue, dials, backoff, b2, answers, "dialBackoff")
  BY Zenon, <1>2
<1> HIDE DEF cs, probed, answers
<1>13. Ready(cs, active)
  BY Zenon, <1>3, <1>4, <1>8 DEF Ready, OpenShape
<1>14. Settled(cs, probed, dials)
  BY Zenon, <1>3, <1>4, <1>5, <1>8, <1>9 DEF Settled, OpenShape
<1>15. UNCHANGED <<active, grant>>
  BY Zenon, <1>4
<1>16. /\ cs \in SUBSET Conns /\ probed \in SUBSET cs /\ dials \in Nat
       /\ \A e \in probed : active[e] = 0
  BY Zenon, <1>5, <1>8, <1>9
<1> QED
  BY <1>1, <1>6, <1>10, <1>11, <1>12, <1>13, <1>14, <1>15, <1>16, FlushIInv, ZenonT(60)
=============================================================================
