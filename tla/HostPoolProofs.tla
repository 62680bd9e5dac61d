--------------------------- MODULE HostPoolProofs ---------------------------
(***************************************************************************)
(* The HTTP/2 pool of one host keeps its invariant, for any number of      *)
(* callers and connections and any limits: what serving the queue and      *)
(* dialling for it do, the steps one by one, and the theorems.             *)
(***************************************************************************)
EXTENDS HostPool, FiniteSetTheorems, TLAPS

\* A slot is committed to a caller exactly while it uses it, is handing it
\* back, or has the connection waiting in its reply channel.
GrantShape ==
  \A k \in Callers :
    grant[k] # NoConn <=> \/ pc[k] \in {"holding", "releasing"}
                          \/ reply[k] = "conn"

\* A connection is delivered to the pool once.
DialedApart == dialed \cap pooled = {}

\* The drainer exists only after handleClose.
DrainAfterClose == status # "closed" => drain = 0

\* What the proofs carry from one step to the next.
IInv ==
  /\ TypeOK
  /\ OneReply
  /\ GrantShape
  /\ SlotsMatchGrants
  /\ GrantedStaysOpen
  /\ NoBarging
  /\ DialsAccounted
  /\ WithinHostLimit
  /\ DialedApart
  /\ DrainAfterClose
  /\ NoOrphan
-----------------------------------------------------------------------------
(* Arithmetic and cardinality.                                             *)

LEMMA CapIsPositive ==
  ASSUME NEW pcap \in Nat
  PROVE  EffectiveStreamCap(MaxStreamsPerConn, pcap) \in Nat \ {0}
BY Zenon, PoolAssumption DEF EffectiveStreamCap, Smaller

LEMMA DivIsNat ==
  ASSUME NEW a \in Nat, NEW p \in Nat \ {0}
  PROVE  a \div p \in Nat
OBVIOUS

LEMMA SumIsNat ==
  ASSUME NEW a \in Nat, NEW x \in Nat, NEW d \in Nat, x >= d
  PROVE  a + (x - d) \in Nat
OBVIOUS

LEMMA PredIsNat ==
  ASSUME NEW a \in Nat \ {0}
  PROVE  a - 1 \in Nat
OBVIOUS

LEMMA UpdateTyped ==
  ASSUME NEW S, NEW T, NEW g \in [S -> T], NEW x, NEW y \in T
  PROVE  [g EXCEPT ![x] = y] \in [S -> T]
BY Zenon

LEMMA CountLiveIsNat ==
  ASSUME NEW cs \in SUBSET Conns
  PROVE  CountLive(cs) \in Nat
<1>1. IsFiniteSet(Live(cs))
  BY Zenon, PoolAssumption, FS_Subset, Live(cs) \in SUBSET Conns DEF Live
<1> QED  BY Zenon, <1>1, FS_CardinalityType DEF CountLive

\* Where no connection has room there is no spare capacity.
LEMMA NoSpare ==
  ASSUME NEW cs \in SUBSET Conns, NEW act \in [Conns -> Nat],
         NEW cap \in [Conns -> Nat], NoneFree(cs, act, cap)
  PROVE  SpareStreamCapacity(cs, act, cap) = 0
<1>1. \A c \in Live(cs) : (act[c] + 1)..cap[c] = {}
  BY DEF Live, NoneFree, HasRoom
<1>2. UNION {{c} \X ((act[c] + 1)..cap[c]) : c \in Live(cs)} = {}
  BY Zenon, <1>1
<1> QED  BY Zenon, <1>2, FS_EmptySet DEF SpareStreamCapacity

\* EnsureDialForWaiters starts a number of dials that fits the host's limit.
LEMMA EnsureDialFits ==
  ASSUME NEW cs \in SUBSET Conns, NEW act \in [Conns -> Nat],
         NEW cap \in [Conns -> Nat], NEW q, Len(q) \in Nat, NEW d \in Nat,
         NEW b \in BOOLEAN, q # <<>> => NoneFree(cs, act, cap)
  PROVE  LET new == EnsureDialForWaiters(cs, act, cap, q, d, b)
         IN /\ new \in Nat
            /\ CountLive(cs) + d <= MaxConnsPerHost =>
                 CountLive(cs) + d + new <= MaxConnsPerHost
<1> DEFINE room      == MaxConnsPerHost - CountLive(cs) - d
           perConn   == EffectiveStreamCap(MaxStreamsPerConn, 0)
           uncovered == Len(q) - SpareStreamCapacity(cs, act, cap) - d * perConn
           need      == (uncovered + perConn - 1) \div perConn
<1>1. CountLive(cs) \in Nat /\ perConn \in Nat \ {0} /\ MaxConnsPerHost \in Nat
  BY Zenon, CountLiveIsNat, CapIsPositive, PoolAssumption
<1>2. CASE q = <<>> \/ room <= 0 \/ b \/ uncovered <= 0
  BY <1>1, <1>2 DEF EnsureDialForWaiters
<1>3. CASE ~(q = <<>> \/ room <= 0 \/ b \/ uncovered <= 0)
  <2>0. Len(q) \in Nat
    OBVIOUS
  <2>1. uncovered = Len(q) - d * perConn
    BY <1>1, <1>3, NoSpare
  <2>2. d * perConn \in Nat
    BY <1>1
  <2>3. uncovered \in Nat /\ uncovered + perConn - 1 \in Nat
    <3> DEFINE p == d * perConn
    <3> HIDE DEF p, perConn, uncovered
    <3>1. p \in Nat /\ uncovered = Len(q) - p /\ perConn \in Nat \ {0} /\ Len(q) \in Nat
      BY Zenon, <1>1, <2>1, <2>2, <2>0 DEF p
    <3>2. ~(uncovered <= 0)
      BY Zenon, <1>3
    <3> QED  BY <3>1, <3>2
  <2>4. need \in Nat
    BY Zenon, <1>1, <2>3, DivIsNat
  <2>5. EnsureDialForWaiters(cs, act, cap, q, d, b) = Smaller(need, room)
    BY Zenon, <1>3 DEF EnsureDialForWaiters
  <2> HIDE DEF need
  <2> QED  BY <1>1, <1>3, <2>4, <2>5 DEF Smaller
<1> QED  BY Zenon, <1>2, <1>3
-----------------------------------------------------------------------------
(* The common tail of the handlers.                                        *)

QueueDistinct == \A i, j \in 1..Len(waiters) : waiters[i] = waiters[j] => i = j

\* What ServeDialFlush does to a caller that is not queued, and to one that is:
\* it stays queued, gets a live connection, or gets an error.
Untouched(k, gr) ==
  ~InQueue(k, waiters)' /\ reply'[k] = reply[k] /\ grant'[k] = gr[k]

StillQueued(k, gr) ==
  InQueue(k, waiters)' /\ reply'[k] = reply[k] /\ grant'[k] = gr[k]

Served(k, cs) ==
  /\ ~InQueue(k, waiters)' /\ reply'[k] = "conn"
  /\ grant'[k] \in cs /\ IsAlive(grant'[k])

Refused(k, gr) ==
  ~InQueue(k, waiters)' /\ reply'[k] \in Errors /\ grant'[k] = gr[k]

LEMMA LoadIsNat ==
  ASSUME NEW act \in [Conns -> Nat], NEW n \in Nat, NEW f
  PROVE  LoadAfter(act, f, n) \in [Conns -> Nat]
<1>1. \A c \in Conns : Cardinality({j \in 1..n : f[j] = c}) \in Nat
  <2> TAKE c \in Conns
  <2>1. IsFiniteSet(1..n)
    BY FS_Interval
  <2>2. IsFiniteSet({j \in 1..n : f[j] = c})
    BY Zenon, <2>1, FS_Subset
  <2> QED  BY Zenon, <2>2, FS_CardinalityType
<1> QED  BY <1>1 DEF LoadAfter

\* The state after ServeDialFlush.
TailResult(cs, act, cap, d, gr) ==
  /\ pooled' = cs /\ streamCap' = cap /\ backoff' \in BOOLEAN
  /\ active' \in [Conns -> Nat]
  /\ waiters' \in Seq(Callers) /\ QueueDistinct'
  /\ reply' \in [Callers -> Replies]
  /\ grant' \in [Callers -> Conns \cup {NoConn}]
  /\ dials' \in Nat /\ dials' >= d /\ dialing' = dialing + (dials' - d)
  /\ CountLive(cs) + d <= MaxConnsPerHost =>
       CountLive(cs) + dials' <= MaxConnsPerHost
  /\ waiters' # <<>> => NoneFree(cs, active', cap)
  /\ \A k \in Callers :
       IF InQueue(k, waiters)
       THEN StillQueued(k, gr) \/ Served(k, cs) \/ Refused(k, gr)
       ELSE Untouched(k, gr)
  /\ (\A c \in Conns : act[c] = Cardinality({k \in Callers : gr[k] = c}))
       => \A c \in Conns : active'[c] = Cardinality(Holders(c)')

LEMMA ServeFacts ==
  ASSUME TypeOK, QueueDistinct,
         NEW cs \in SUBSET Conns, NEW act \in [Conns -> Nat],
         NEW cap \in [Conns -> Nat], NEW d \in Nat, NEW b \in BOOLEAN,
         NEW gr \in [Callers -> Conns \cup {NoConn}], NEW done,
         NEW flushes \in BOOLEAN,
         \A k \in Callers : InQueue(k, waiters) => gr[k] = NoConn,
         ServeDialFlush(cs, act, cap, d, b, gr, done, flushes)
  PROVE  TailResult(cs, act, cap, d, gr)
<1>1. waiters \in Seq(Callers) /\ Len(waiters) \in Nat
      /\ \A i \in 1..Len(waiters) : waiters[i] \in Callers
  BY DEF TypeOK
<1> DEFINE Keep(n) == {i \in (n + 1)..Len(waiters) : waiters[i] \notin done}
           Tail4(n, f, b2, h) ==
             /\ ServeWaiters(cs, act, cap, n, f)
             /\ DialAndFlush(cs, LoadAfter(act, f, n), cap, d, b, b2, gr, n, f,
                             [j \in DOMAIN h |-> waiters[h[j]]], flushes)
<1>20. PICK n \in 0..Len(waiters) :
         \E f \in [1..n -> cs], b2 \in LaterBackoff(b) :
         \E h \in Enumerations(Keep(n)) : Tail4(n, f, b2, h)
  BY Zenon DEF ServeDialFlush
<1>21. PICK f \in [1..n -> cs], b2 \in LaterBackoff(b) :
         \E h \in Enumerations(Keep(n)) : Tail4(n, f, b2, h)
  BY Zenon, <1>20
<1>2. PICK h \in Enumerations(Keep(n)) : Tail4(n, f, b2, h)
  BY Zenon, <1>21
<1> DEFINE keep   == Keep(n)
           m      == Cardinality(keep)
           queue  == [j \in DOMAIN h |-> waiters[h[j]]]
           act2   == LoadAfter(act, f, n)
           new    == EnsureDialForWaiters(cs, act2, cap, queue, d, b)
           flush  == flushes /\ Stranded(cs, queue, d + new, b2)
           served == {waiters[i] : i \in 1..n}
<1>3. n \in Nat /\ n <= Len(waiters)
  BY <1>1
<1>3a. b2 \in BOOLEAN
  BY Zenon DEF LaterBackoff
<1>3b. keep \subseteq (n + 1)..Len(waiters) /\ keep \subseteq 1..Len(waiters)
  BY <1>1, <1>3
<1>4. m \in Nat
  <2>1. IsFiniteSet((n + 1)..Len(waiters))
    BY <1>1, <1>3, FS_Interval
  <2> QED  BY Zenon, <2>1, <1>3b, FS_Subset, FS_CardinalityType
<1>5. /\ h \in [1..m -> keep]
      /\ \A i, j \in 1..m : i < j => h[i] < h[j]
      /\ \A p \in keep : \E i \in 1..m : h[i] = p
  BY Zenon DEF Enumerations
<1> HIDE DEF keep, m
<1>6. /\ queue \in Seq(Callers) /\ Len(queue) = m
      /\ \A j \in 1..m : queue[j] = waiters[h[j]]
  <2>1. \A j \in 1..m : waiters[h[j]] \in Callers
    BY Zenon, <1>1, <1>3b, <1>5
  <2>2. queue = [j \in 1..m |-> waiters[h[j]]]
    BY Zenon, <1>5
  <2>3. queue \in [1..m -> Callers] /\ \A j \in 1..m : queue[j] = waiters[h[j]]
    BY Zenon, <2>1, <2>2
  <2> QED  BY <1>4, <2>3
<1> HIDE DEF queue, act2
<1>7. \A i, j \in 1..m : queue[i] = queue[j] => i = j
  <2> SUFFICES ASSUME NEW i \in 1..m, NEW j \in 1..m, queue[i] = queue[j]
               PROVE  i = j
    BY Zenon
  <2>1. h[i] \in 1..Len(waiters) /\ h[j] \in 1..Len(waiters)
    BY Zenon, <1>3b, <1>5
  <2>a. waiters[h[i]] = waiters[h[j]]
    BY Zenon, <1>6
  <2>2. h[i] = h[j]
    BY Zenon, <2>1, <2>a DEF QueueDistinct
  <2>3. ~(h[i] < h[j]) /\ ~(h[j] < h[i])
    BY <2>1, <2>2
  <2> QED  BY <1>4, <1>5, <2>3
<1>8. \A k : InQueue(k, queue) <=> \E i \in keep : waiters[i] = k
  <2>1. \A k : InQueue(k, queue) <=> \E j \in 1..m : waiters[h[j]] = k
    BY Zenon, <1>6 DEF InQueue
  <2> QED  BY Zenon, <1>5, <2>1
<1>9. \A k : InQueue(k, queue) => InQueue(k, waiters) /\ k \notin served
  <2> SUFFICES ASSUME NEW k, InQueue(k, queue)
               PROVE  InQueue(k, waiters) /\ k \notin served
    BY Zenon
  <2>1. PICK i \in keep : waiters[i] = k
    BY Zenon, <1>8
  <2>2. i \in 1..Len(waiters) /\ i > n
    BY <1>1, <1>3, <1>3b
  <2>3. ASSUME NEW j \in 1..n, waiters[j] = k PROVE FALSE
    BY <1>1, <1>3, <2>1, <2>2, <2>3 DEF QueueDistinct
  <2> QED  BY Zenon, <2>1, <2>2, <2>3 DEF InQueue
<1>10. \A k : k \in served => InQueue(k, waiters)
  BY <1>1, <1>3 DEF InQueue
<1>11. act2 \in [Conns -> Nat]
  BY Zenon, <1>3, LoadIsNat DEF act2
<1>12. queue # <<>> => NoneFree(cs, act2, cap)
  <2>1. ASSUME n = Len(waiters) PROVE m = 0
    <3>1. keep = {}
      BY <1>1, <1>3b, <2>1
    <3> QED  BY Zenon, <3>1, FS_EmptySet DEF m
  <2> QED  BY <1>2, <1>6, <2>1 DEF ServeWaiters, act2
<1>13. /\ new \in Nat
       /\ CountLive(cs) + d <= MaxConnsPerHost =>
            CountLive(cs) + d + new <= MaxConnsPerHost
  BY Zenon, <1>4, <1>6, <1>11, <1>12, EnsureDialFits
<1>14. /\ pooled' = cs /\ active' = act2 /\ streamCap' = cap
       /\ waiters' = IF flush THEN <<>> ELSE queue
       /\ dials' = d + new /\ dialing' = dialing + new /\ backoff' = b2
       /\ reply' = [k \in Callers |->
            IF k \in served THEN "conn"
            ELSE IF InQueue(k, queue) THEN IF flush THEN "dialBackoff" ELSE reply[k]
            ELSE IF InQueue(k, waiters) THEN "ctxErr"
            ELSE reply[k]]
       /\ grant' = [k \in Callers |->
            IF k \in served THEN f[CHOOSE i \in 1..n : waiters[i] = k] ELSE gr[k]]
  BY Zenon, <1>2 DEF DialAndFlush, queue, act2
<1> HIDE DEF new, flush, served
<1>15. /\ waiters' \in Seq(Callers) /\ QueueDistinct'
       /\ waiters' # <<>> => NoneFree(cs, active', cap)
  BY <1>6, <1>7, <1>12, <1>14 DEF QueueDistinct
<1>16. \A k \in Callers : k \in served =>
         \E i \in 1..n : waiters[i] = k /\ grant'[k] = f[i]
  <2> SUFFICES ASSUME NEW k \in Callers, k \in served
               PROVE  \E i \in 1..n : waiters[i] = k /\ grant'[k] = f[i]
    BY Zenon
  <2>1. \E i \in 1..n : waiters[i] = k
    BY Zenon DEF served
  <2>2. grant'[k] = f[CHOOSE i \in 1..n : waiters[i] = k]
    BY Zenon, <1>14
  <2> QED  BY Zenon, <2>1, <2>2
<1>17. \A i \in 1..n : f[i] \in cs /\ IsAlive(f[i])
  BY Zenon, <1>2 DEF ServeWaiters, PickLeastLoaded, HasRoom
<1>18. \A k \in Callers : InQueue(k, waiters)' <=> InQueue(k, queue) /\ ~flush
  BY <1>14 DEF InQueue
<1>19. \A k \in Callers :
         IF InQueue(k, waiters)
         THEN StillQueued(k, gr) \/ Served(k, cs) \/ Refused(k, gr)
         ELSE Untouched(k, gr)
  <2> TAKE k \in Callers
  <2>1. CASE k \in served
    BY ZenonT(30), <1>9, <1>10, <1>14, <1>16, <1>17, <1>18, <2>1 DEF Served
  <2>2. CASE k \notin served /\ InQueue(k, queue)
    BY Zenon, <1>9, <1>14, <1>18, <2>2 DEF StillQueued, Refused, Errors
  <2>3. CASE k \notin served /\ ~InQueue(k, queue)
    BY Zenon, <1>14, <1>18, <2>3 DEF Untouched, Refused, Errors
  <2> QED  BY Zenon, <2>1, <2>2, <2>3
<1>a. reply' \in [Callers -> Replies]
  BY Zenon, <1>14 DEF TypeOK, Replies, Errors
<1>b. grant' \in [Callers -> Conns \cup {NoConn}]
  BY Zenon, <1>14, <1>16
<1>10a. \A j \in 1..n : waiters[j] \in Callers /\ InQueue(waiters[j], waiters)
  BY <1>1, <1>3 DEF InQueue
<1>10b. \A i, j \in 1..n : waiters[i] = waiters[j] => i = j
  BY <1>1, <1>3 DEF QueueDistinct
<1>c. ASSUME \A c \in Conns : act[c] = Cardinality({k \in Callers : gr[k] = c})
      PROVE  \A c \in Conns : active'[c] = Cardinality(Holders(c)')
  <2> TAKE c \in Conns
  <2> DEFINE old == {k \in Callers : gr[k] = c}
             J   == {j \in 1..n : f[j] = c}
             got == {waiters[j] : j \in J}
             w   == [j \in J |-> waiters[j]]
  <2>1. Holders(c)' = old \cup got
    <3>1. ASSUME NEW k \in Callers, k \in served
          PROVE  grant'[k] = c <=> k \in old \cup got
      <4>1. PICK i \in 1..n : waiters[i] = k /\ grant'[k] = f[i]
        BY Zenon, <1>16, <3>1
      <4>2. \A j \in 1..n : waiters[j] = k => j = i
        BY Zenon, <1>10b, <4>1
      <4>3. k \notin old
        BY Zenon, <1>10, <3>1, PoolAssumption
      <4> QED  BY Zenon, <4>1, <4>2, <4>3
    <3>2. ASSUME NEW k \in Callers, k \notin served
          PROVE  grant'[k] = c <=> k \in old \cup got
      BY Zenon, <1>14, <3>2 DEF served
    <3>3. got \subseteq Callers
      BY Zenon, <1>10a
    <3> QED  BY Zenon, <3>1, <3>2, <3>3 DEF Holders
  <2>2. IsFiniteSet(J) /\ IsFiniteSet(old)
    <3>1. IsFiniteSet(1..n)
      BY <1>3, FS_Interval
    <3> QED  BY Zenon, <3>1, PoolAssumption, FS_Subset
  <2>3. IsFiniteSet(got) /\ Cardinality(got) = Cardinality(J)
    <3>1. w \in Bijection(J, got)
      BY Zenon, <1>10b DEF Bijection, Injection, Surjection, IsInjective
    <3>2. ExistsBijection(J, got)
      BY Zenon, <3>1 DEF ExistsBijection
    <3> HIDE DEF J, got
    <3> QED  BY Zenon, <2>2, <3>2, FS_Bijection
  <2>4. old \cap got = {}
    <3>1. \A k \in got : k \in Callers /\ InQueue(k, waiters)
      BY Zenon, <1>10a
    <3> QED  BY Zenon, <3>1, PoolAssumption
  <2>5. Cardinality(old \cup got) = Cardinality(old) + Cardinality(got)
    <3> HIDE DEF old, got
    <3>1. Cardinality(old) \in Nat /\ Cardinality(got) \in Nat
      BY Zenon, <2>2, <2>3, FS_CardinalityType
    <3>2. Cardinality(old \cup got) =
            Cardinality(old) + Cardinality(got) - Cardinality(old \cap got)
      BY Zenon, <2>2, <2>3, FS_Union
    <3>3. Cardinality(old \cap got) = 0
      BY ZenonT(30), <2>4, FS_EmptySet
    <3> QED  BY <3>1, <3>2, <3>3
  <2>6. active'[c] = act[c] + Cardinality(J)
    BY Zenon, <1>14 DEF act2, LoadAfter
  <2> QED  BY Zenon, <1>c, <2>1, <2>3, <2>5, <2>6
<1>14a. dials' = d + new /\ dialing' = dialing + new
  BY Zenon, <1>14
<1>d. dials' \in Nat /\ dials' >= d /\ dialing' = dialing + (dials' - d)
  <2>1. new = (d + new) - d /\ d + new \in Nat /\ d + new >= d
    BY <1>13
  <2> QED  BY Zenon, <1>14a, <2>1
<1>e. CountLive(cs) + d <= MaxConnsPerHost => CountLive(cs) + dials' <= MaxConnsPerHost
  <2>1. CountLive(cs) \in Nat
    BY Zenon, CountLiveIsNat
  <2>2. CountLive(cs) + (d + new) = CountLive(cs) + d + new
    BY <1>13, <2>1
  <2> QED  BY ZenonT(30), <1>13, <1>14a, <2>2
<1> QED
  BY Zenon, <1>3a, <1>11, <1>14, <1>15, <1>19, <1>a, <1>b, <1>c, <1>d, <1>e DEF TailResult

-----------------------------------------------------------------------------
(* The invariant, action by action.                                        *)

LEMMA InitIInv == Init => IInv
<1> SUFFICES ASSUME Init PROVE IInv
  BY Zenon
<1>1. TypeOK
  <2>1. backoff \in BOOLEAN
    BY Zenon DEF Init
  <2>2. waiters \in Seq(Callers)
    BY DEF Init
  <2> QED  BY Zenon, <2>1, <2>2, PoolAssumption DEF Init, TypeOK, PeerStates, Stages, Replies
<1>2. /\ OneReply /\ GrantShape /\ NoBarging /\ DialedApart /\ DrainAfterClose
      /\ NoOrphan /\ GrantedStaysOpen
  BY DEF Init, OneReply, InQueue, GrantShape, NoBarging, DialedApart, DrainAfterClose,
         NoOrphan, GrantedStaysOpen
<1>3. \A c \in Conns : Holders(c) = {}
  BY Zenon, PoolAssumption DEF Init, Holders
<1>4. Cardinality({}) = 0
  BY Zenon, FS_EmptySet
<1>4a. SlotsMatchGrants /\ DialsAccounted
  <2>1. \A c \in Conns : Cardinality(Holders(c)) = 0
    BY <1>3, <1>4, Zenon
  <2>2. Cardinality(dialed) = 0
    BY <1>4, Zenon DEF Init
  <2> QED  BY <2>1, <2>2 DEF Init, SlotsMatchGrants, DialsAccounted
<1>5. WithinHostLimit
  <2>1. Live(pooled) = {}
    BY Zenon DEF Init, Live
  <2>2. CountLive(pooled) = 0
    BY <1>4, <2>1, Zenon DEF CountLive
  <2> QED  BY <2>2, PoolAssumption DEF Init, WithinHostLimit
<1> QED  BY Zenon, <1>1, <1>2, <1>4a, <1>5 DEF IInv

LEMMA HoldersFinite ==
  ASSUME NEW c
  PROVE  IsFiniteSet(Holders(c)) /\ IsFiniteSet(Holders(c)')
BY Zenon, PoolAssumption, FS_Subset, Holders(c) \in SUBSET Callers,
   Holders(c)' \in SUBSET Callers DEF Holders

LEMMA DialedFinite ==
  ASSUME TypeOK
  PROVE  IsFiniteSet(dialed) /\ Cardinality(dialed) \in Nat
BY Zenon, PoolAssumption, FS_Subset, FS_CardinalityType DEF TypeOK

\* A smaller pool, or one in which connections have died, has fewer live ones.
LEMMA FewerLive ==
  ASSUME NEW cs \in SUBSET Conns, pooled' \in SUBSET cs,
         \A c \in pooled' : IsAlive(c)' => IsAlive(c)
  PROVE  CountLive(pooled)' <= CountLive(cs) /\ CountLive(pooled)' \in Nat
<1>1. Live(pooled)' \in SUBSET Live(cs) /\ Live(cs) \in SUBSET Conns
  BY Zenon DEF Live
<1>2. IsFiniteSet(Live(cs))
  BY Zenon, <1>1, PoolAssumption, FS_Subset
<1>3. /\ IsFiniteSet(Live(pooled)')
      /\ Cardinality(Live(pooled)') <= Cardinality(Live(cs))
  BY Zenon, <1>1, <1>2, FS_Subset
<1> QED  BY Zenon, <1>3, FS_CardinalityType DEF CountLive

LEMMA LimitKept ==
  ASSUME NEW cs \in SUBSET Conns, pooled' \in SUBSET cs, dials' \in Nat,
         \A c \in pooled' : IsAlive(c)' => IsAlive(c),
         CountLive(cs) + dials' <= MaxConnsPerHost
  PROVE  WithinHostLimit'
<1>1. CountLive(pooled)' <= CountLive(cs) /\ CountLive(pooled)' \in Nat
  BY Zenon, FewerLive
<1>2. CountLive(cs) \in Nat /\ MaxConnsPerHost \in Nat
  BY Zenon, CountLiveIsNat, PoolAssumption
<1> QED  BY <1>1, <1>2 DEF WithinHostLimit

\* Conjuncts that do not mention the callers' stages, replies and contexts.
LEMMA CallerFrame ==
  ASSUME IInv, UNCHANGED <<actorVars, status, drain, dialVars, connVars, grant>>
  PROVE  /\ SlotsMatchGrants' /\ GrantedStaysOpen' /\ NoBarging' /\ DialsAccounted'
         /\ WithinHostLimit' /\ DialedApart' /\ DrainAfterClose' /\ NoOrphan'
BY Zenon DEF IInv, actorVars, dialVars, connVars, SlotsMatchGrants, Holders, GrantedStaysOpen,
       NoBarging, NoneFree, HasRoom, IsAlive, DialsAccounted, WithinHostLimit,
       CountLive, Live, DialedApart, DrainAfterClose, NoOrphan

LEMMA CallerSteps ==
  ASSUME IInv, NEW k \in Callers,
         TakeReply(k) \/ Expire(k) \/ Abandon(k) \/ Reclaim(k) \/ Release(k)
  PROVE  IInv'
<1> USE DEF IInv
<1>1. UNCHANGED <<actorVars, status, drain, dialVars, connVars, grant>>
  BY Zenon DEF TakeReply, Expire, Abandon, Reclaim, Release
<1>2. TypeOK'
  BY ZenonT(30), <1>1 DEF TakeReply, Expire, Abandon, Reclaim, Release, TypeOK, actorVars, dialVars,
              connVars, Stages, Replies
<1>3. OneReply'
  BY <1>1 DEF TakeReply, Expire, Abandon, Reclaim, Release, TypeOK, OneReply, InQueue,
              actorVars
<1>4. GrantShape'
  BY ZenonT(30), <1>1 DEF TakeReply, Expire, Abandon, Reclaim, Release, TypeOK, OneReply, GrantShape
<1> QED  BY Zenon, <1>1, <1>2, <1>3, <1>4, CallerFrame

LEMMA ReleaseClosedStep ==
  ASSUME IInv, NEW k \in Callers, ReleaseClosed(k)
  PROVE  IInv'
<1> USE DEF IInv
<1>1. grant[k] \in Conns
  BY Zenon DEF ReleaseClosed, TypeOK, GrantShape
<1>2. TypeOK'
  BY Zenon, <1>1 DEF ReleaseClosed, TypeOK, actorVars, dialVars, Stages
<1>3. OneReply'
  BY DEF ReleaseClosed, TypeOK, OneReply, InQueue, actorVars
<1>3a. GrantShape'
  <2>1. reply[k] = "none" /\ pc'[k] = "idle" /\ grant'[k] = NoConn /\ reply' = reply
    BY Zenon DEF ReleaseClosed, OneReply, TypeOK
  <2>2. \A j \in Callers \ {k} : pc'[j] = pc[j] /\ grant'[j] = grant[j]
    BY Zenon DEF ReleaseClosed, TypeOK
  <2> QED  BY Zenon, <2>1, <2>2 DEF GrantShape
<1>4. SlotsMatchGrants' /\ GrantedStaysOpen' /\ DrainAfterClose'
  BY Zenon DEF ReleaseClosed, SlotsMatchGrants, GrantedStaysOpen, DrainAfterClose
<1>5. NoBarging' /\ DialsAccounted' /\ DialedApart' /\ NoOrphan'
  BY Zenon DEF ReleaseClosed, actorVars, dialVars, NoBarging, NoneFree, HasRoom, IsAlive,
         DialsAccounted, DialedApart, NoOrphan
<1>6. WithinHostLimit'
  <2>1. pooled' \in SUBSET pooled /\ \A c \in pooled' : IsAlive(c)' => IsAlive(c)
    BY Zenon DEF ReleaseClosed, actorVars, IsAlive
  <2>2. dials' = dials /\ dials \in Nat /\ pooled \in SUBSET Conns
    BY Zenon DEF ReleaseClosed, actorVars, TypeOK
  <2> QED  BY Zenon, <2>1, <2>2, LimitKept DEF WithinHostLimit
<1> QED  BY Zenon, <1>2, <1>3, <1>3a, <1>4, <1>5, <1>6

\* Transports and time: liveness only shrinks, the actor's state is untouched.
LEMMA EnvironmentSteps ==
  ASSUME IInv,
         \/ \E c \in Conns, how \in {"goaway", "dead"} : ConnLost(c, how)
         \/ \E c \in Conns, v \in PeerCaps : PeerSettings(c, v)
         \/ BackoffEnds
  PROVE  IInv'
<1> USE DEF IInv
<1>1. /\ UNCHANGED <<pooled, active, streamCap, waiters, dials, status, drain>>
      /\ UNCHANGED <<dialing, dialed, dialErrs, closed, pc, expired, reply, grant>>
  BY Zenon DEF ConnLost, PeerSettings, BackoffEnds, actorVars, dialVars, connVars
<1>2. peer' \in [Conns -> PeerStates] /\ peerCap' \in [Conns -> PeerCaps] /\ losses' \in Nat
  <2>1. CASE \E c \in Conns, how \in {"goaway", "dead"} : ConnLost(c, how)
    BY <2>1 DEF ConnLost, TypeOK, PeerStates
  <2>2. CASE \E c \in Conns, v \in PeerCaps : PeerSettings(c, v)
    BY ZenonT(60), <2>2 DEF PeerSettings, TypeOK
  <2>3. CASE BackoffEnds
    BY Zenon, <2>3 DEF BackoffEnds, TypeOK, connVars
  <2> QED  BY Zenon, <2>1, <2>2, <2>3
<1>3. backoff' \in BOOLEAN
  <2>1. backoff' = backoff \/ backoff' = FALSE
    BY Zenon DEF ConnLost, PeerSettings, BackoffEnds, actorVars
  <2> QED  BY <2>1, Zenon DEF TypeOK
<1>4. \A c \in Conns : peer'[c] = peer[c] \/ (peer[c] # "unused" /\ peer'[c] # "alive")
  BY Zenon DEF ConnLost, PeerSettings, BackoffEnds, TypeOK, connVars
<1>5. TypeOK'
  BY Zenon, <1>1, <1>2, <1>3 DEF TypeOK
<1>6. OneReply' /\ GrantShape' /\ SlotsMatchGrants' /\ GrantedStaysOpen'
  BY <1>1 DEF OneReply, InQueue, GrantShape, SlotsMatchGrants, Holders, GrantedStaysOpen
<1>7. DialsAccounted' /\ DialedApart' /\ DrainAfterClose'
  BY Zenon, <1>1 DEF DialsAccounted, DialedApart, DrainAfterClose
<1>8. pooled \in SUBSET Conns /\ \A c \in pooled' : IsAlive(c)' => IsAlive(c)
  BY Zenon, <1>1, <1>4 DEF IsAlive, TypeOK
<1>9. NoBarging' /\ NoOrphan'
  BY Zenon, <1>1, <1>4, <1>8 DEF NoBarging, NoneFree, HasRoom, NoOrphan
<1>10. WithinHostLimit'
  <2>1. pooled' \in SUBSET pooled /\ dials' \in Nat /\ dials' = dials
    BY Zenon, <1>1 DEF TypeOK
  <2> QED  BY Zenon, <1>8, <2>1, LimitKept DEF WithinHostLimit
<1> QED  BY Zenon, <1>5, <1>6, <1>7, <1>9, <1>10

LEMMA HandleAcquireStep ==
  ASSUME IInv, NEW k \in Callers, HandleAcquire(k)
  PROVE  IInv'
<1> USE DEF IInv
<1>1. /\ status # "closed" /\ pc[k] = "idle" /\ pc' = [pc EXCEPT ![k] = "waiting"]
      /\ UNCHANGED <<pooled, streamCap, backoff, status, drain, dialed, dialErrs>>
      /\ UNCHANGED <<peer, closed, peerCap, losses, expired>>
  BY Zenon DEF HandleAcquire, connVars
<1>2. reply[k] = "none" /\ ~InQueue(k, waiters) /\ grant[k] = NoConn
  BY Zenon, <1>1 DEF OneReply, GrantShape
<1>3. pooled \in SUBSET Conns /\ CountLive(pooled) \in Nat /\ dials \in Nat
      /\ MaxConnsPerHost \in Nat
  BY Zenon, CountLiveIsNat, PoolAssumption DEF TypeOK
<1>4. pooled' \in SUBSET pooled /\ \A c \in pooled' : IsAlive(c)' => IsAlive(c)
  BY Zenon, <1>1 DEF IsAlive
<1>5. DrainAfterClose' /\ DialedApart' /\ NoOrphan'
  BY Zenon, <1>1 DEF DrainAfterClose, DialedApart, NoOrphan
<1>6. CASE \E c \in PickLeastLoaded(pooled, active, streamCap) :
             /\ active' = [active EXCEPT ![c] = @ + 1]
             /\ reply' = [reply EXCEPT ![k] = "conn"]
             /\ grant' = [grant EXCEPT ![k] = c]
             /\ UNCHANGED <<waiters, dials, dialing>>
  <2>1. PICK c \in PickLeastLoaded(pooled, active, streamCap) :
             /\ active' = [active EXCEPT ![c] = @ + 1]
             /\ reply' = [reply EXCEPT ![k] = "conn"]
             /\ grant' = [grant EXCEPT ![k] = c]
             /\ UNCHANGED <<waiters, dials, dialing>>
    BY Zenon, <1>6
  <2>2. c \in pooled /\ c \in Conns /\ HasRoom(c, active, streamCap) /\ c # NoConn
    BY Zenon, <1>3, PoolAssumption DEF PickLeastLoaded
  <2>3. TypeOK'
    BY SMTT(30), <1>1, <2>1, <2>2 DEF TypeOK, Stages, Replies
  <2>4. OneReply' /\ GrantShape'
    BY <1>1, <1>2, <2>1, <2>2 DEF TypeOK, OneReply, GrantShape, InQueue
  <2>5. SlotsMatchGrants'
    <3>1. Holders(c)' = Holders(c) \cup {k} /\ k \notin Holders(c)
      BY Zenon, <1>2, <2>1, <2>2 DEF Holders, TypeOK
    <3>2. \A e \in Conns \ {c} : Holders(e)' = Holders(e)
      BY Zenon, <1>2, <2>1, <2>2, PoolAssumption DEF Holders, TypeOK
    <3>3. Cardinality(Holders(c)') = Cardinality(Holders(c)) + 1
      BY Zenon, <3>1, HoldersFinite, FS_AddElement
    <3> QED  BY Zenon, <1>1, <2>1, <2>2, <3>2, <3>3 DEF SlotsMatchGrants, TypeOK
  <2>6. GrantedStaysOpen'
    BY Zenon, <1>1, <2>1, <2>2 DEF GrantedStaysOpen, HasRoom, IsAlive, TypeOK
  <2>7. NoBarging'
    BY Zenon, <2>1, <2>2 DEF NoBarging, NoneFree
  <2>8. DialsAccounted'
    BY Zenon, <1>1, <2>1 DEF DialsAccounted
  <2>9. WithinHostLimit'
    BY Zenon, <1>3, <1>4, <2>1, LimitKept DEF WithinHostLimit
  <2> QED  BY Zenon, <1>5, <2>3, <2>4, <2>5, <2>6, <2>7, <2>8, <2>9
<1>7. CASE /\ NoneFree(pooled, active, streamCap)
           /\ waiters' = Append(waiters, k)
           /\ UNCHANGED <<active, reply, grant>>
           /\ \/ /\ CountLive(pooled) + dials < MaxConnsPerHost
                 /\ dials' = dials + 1 /\ dialing' = dialing + 1
              \/ UNCHANGED <<dials, dialing>>
  <2>1. /\ waiters' \in Seq(Callers) /\ Len(waiters') = Len(waiters) + 1
        /\ Len(waiters) \in Nat
        /\ \A i \in 1..Len(waiters) : waiters'[i] = waiters[i]
        /\ waiters'[Len(waiters) + 1] = k
    BY <1>7 DEF TypeOK
  <2>2. TypeOK'
    BY <1>1, <1>7, <2>1 DEF TypeOK, Stages
  <2>3. \A j \in Callers : InQueue(j, waiters)' <=> InQueue(j, waiters) \/ j = k
    BY <2>1 DEF InQueue
  <2>4. \A i, j \in 1..Len(waiters') : waiters'[i] = waiters'[j] => i = j
    BY <1>2, <2>1 DEF OneReply, InQueue
  <2>5. OneReply'
    BY Zenon, <1>1, <1>2, <1>7, <2>3, <2>4 DEF OneReply, TypeOK
  <2>6. GrantShape' /\ SlotsMatchGrants' /\ GrantedStaysOpen'
    BY Zenon, <1>1, <1>7 DEF GrantShape, SlotsMatchGrants, Holders, GrantedStaysOpen, TypeOK
  <2>7. NoBarging'
    BY Zenon, <1>1, <1>7 DEF NoBarging, NoneFree, HasRoom, IsAlive
  <2>8. DialsAccounted'
    <3>1. /\ Cardinality(dialed) \in Nat /\ dialErrs \in Nat /\ dialing \in Nat /\ dials \in Nat
          /\ dialErrs' = dialErrs /\ Cardinality(dialed') = Cardinality(dialed)
      BY Zenon, <1>1, <1>7, DialedFinite DEF TypeOK
    <3>2. dialing + Cardinality(dialed) + dialErrs = dials
      BY Zenon, <1>1 DEF DialsAccounted
    <3>3. dialing' + Cardinality(dialed) + dialErrs = dials'
      BY <1>7, <3>1, <3>2
    <3> QED  BY Zenon, <1>1, <3>1, <3>3 DEF DialsAccounted
  <2>9. dials' \in Nat /\ CountLive(pooled) + dials' <= MaxConnsPerHost
    BY <1>3, <1>7 DEF WithinHostLimit
  <2>10. WithinHostLimit'
    BY Zenon, <1>3, <1>4, <2>9, LimitKept
  <2> QED  BY ZenonT(60), <1>5, <2>2, <2>5, <2>6, <2>7, <2>8, <2>10
<1>8. CASE /\ reply' = [reply EXCEPT ![k] = "dialBackoff"]
           /\ UNCHANGED <<active, grant, waiters, dials, dialing>>
  <2>1. TypeOK'
    BY Zenon, <1>1, <1>8 DEF TypeOK, Stages, Replies, Errors
  <2>2. OneReply' /\ GrantShape'
    BY <1>1, <1>2, <1>8 DEF TypeOK, OneReply, GrantShape, InQueue
  <2>3. SlotsMatchGrants' /\ GrantedStaysOpen' /\ NoBarging' /\ DialsAccounted'
    BY Zenon, <1>1, <1>8 DEF SlotsMatchGrants, Holders, GrantedStaysOpen, NoBarging, NoneFree,
                      HasRoom, IsAlive, DialsAccounted
  <2>4. WithinHostLimit'
    BY Zenon, <1>3, <1>4, <1>8, LimitKept DEF WithinHostLimit
  <2> QED  BY Zenon, <1>5, <2>1, <2>2, <2>3, <2>4
<1> QED  BY <1>3, <1>6, <1>7, <1>8 DEF HandleAcquire

LEMMA DialsBalance ==
  ASSUME status' # "closed", NEW d \in Nat, dialing \in Nat, dialErrs' \in Nat,
         Cardinality(dialed') \in Nat, dialing + Cardinality(dialed') + dialErrs' = d,
         dials' \in Nat, dials' >= d, dialing' = dialing + (dials' - d)
  PROVE  DialsAccounted' /\ dialing' \in Nat
<1>1. dialing + (dials' - d) \in Nat
  BY SumIsNat, Zenon
<1>2. dialing' \in Nat
  BY <1>1, Zenon
<1>3. dialing' + Cardinality(dialed') + dialErrs' = dials'
  OBVIOUS
<1> QED  BY <1>2, <1>3, Zenon DEF DialsAccounted

\* The invariant after a handler that ends in ServeDialFlush, but for the
\* variables and conjuncts the tail does not reach.
TailInv(cs, cap) ==
  /\ OneReply' /\ GrantShape' /\ SlotsMatchGrants' /\ GrantedStaysOpen'
  /\ NoBarging' /\ DialsAccounted' /\ WithinHostLimit' /\ DrainAfterClose'
  /\ pooled' = cs /\ streamCap' = cap
  /\ active' \in [Conns -> Nat] /\ backoff' \in BOOLEAN
  /\ waiters' \in Seq(Callers) /\ dials' \in Nat /\ dialing' \in Nat
  /\ reply' \in [Callers -> Replies]
  /\ grant' \in [Callers -> Conns \cup {NoConn}]

\* Handlers that end in ServeDialFlush: what follows for the invariant when the
\* state before the tail already balances.
LEMMA TailStep ==
  ASSUME IInv, status # "closed", status' = status, drain' = drain,
         NEW cs \in SUBSET Conns, NEW act \in [Conns -> Nat],
         NEW cap \in [Conns -> Nat], NEW d \in Nat,
         NEW gr \in [Callers -> Conns \cup {NoConn}], NEW done,
         NEW flushes \in BOOLEAN,
         ServeDialFlush(cs, act, cap, d, backoff, gr, done, flushes),
         \A c \in Conns : act[c] = Cardinality({j \in Callers : gr[j] = c}),
         \A j \in Callers : gr[j] # NoConn => gr[j] \in cs \ closed',
         \A j \in Callers : InQueue(j, waiters) => gr[j] = NoConn,
         \A j \in Callers :
           \/ pc'[j] = pc[j] /\ gr[j] = grant[j]
           \/ pc[j] = "releasing" /\ pc'[j] = "idle" /\ gr[j] = NoConn,
         \A c \in cs : IsAlive(c)' <=> IsAlive(c),
         CountLive(cs) + d <= MaxConnsPerHost,
         dialing + Cardinality(dialed') + dialErrs = d, Cardinality(dialed') \in Nat,
         dialErrs' = dialErrs
  PROVE  TailInv(cs, cap)
<1> USE DEF IInv
<1>1. QueueDistinct /\ backoff \in BOOLEAN
  BY Zenon DEF OneReply, QueueDistinct, TypeOK
<1>2. TailResult(cs, act, cap, d, gr)
  BY ZenonT(30), <1>1, ServeFacts
<1>3. /\ pooled' = cs /\ streamCap' = cap /\ backoff' \in BOOLEAN
      /\ active' \in [Conns -> Nat]
      /\ waiters' \in Seq(Callers) /\ QueueDistinct'
      /\ reply' \in [Callers -> Replies]
      /\ grant' \in [Callers -> Conns \cup {NoConn}]
      /\ dials' \in Nat /\ dials' >= d /\ dialing' = dialing + (dials' - d)
      /\ CountLive(cs) + dials' <= MaxConnsPerHost
      /\ waiters' # <<>> => NoneFree(cs, active', cap)
      /\ \A c \in Conns : active'[c] = Cardinality(Holders(c)')
  BY Zenon, <1>2 DEF TailResult
<1>3a. DialsAccounted' /\ dialing' \in Nat
  <2>1. dialing \in Nat /\ dialErrs \in Nat
    BY Zenon DEF TypeOK
  <2> QED  BY Zenon, <1>3, <2>1, DialsBalance
<1>4. ASSUME NEW k \in Callers
      PROVE  /\ IF pc'[k] \in {"waiting", "reclaiming"}
                THEN InQueue(k, waiters)' <=> reply'[k] = "none"
                ELSE ~InQueue(k, waiters)' /\ reply'[k] = "none"
             /\ grant'[k] # NoConn <=> \/ pc'[k] \in {"holding", "releasing"}
                                       \/ reply'[k] = "conn"
             /\ grant'[k] # NoConn => grant'[k] \in cs \ closed'
  <2>1. /\ \/ pc'[k] = pc[k] /\ gr[k] = grant[k]
           \/ pc[k] = "releasing" /\ pc'[k] = "idle" /\ gr[k] = NoConn
        /\ gr[k] # NoConn => gr[k] \in cs \ closed'
        /\ IF pc[k] \in {"waiting", "reclaiming"}
           THEN InQueue(k, waiters) <=> reply[k] = "none"
           ELSE ~InQueue(k, waiters) /\ reply[k] = "none"
        /\ grant[k] # NoConn <=> \/ pc[k] \in {"holding", "releasing"}
                                 \/ reply[k] = "conn"
    BY Zenon DEF OneReply, GrantShape
  <2>2. CASE ~InQueue(k, waiters)
    BY Zenon, <1>2, <2>1, <2>2 DEF TailResult, Untouched
  <2>3. CASE InQueue(k, waiters) /\ StillQueued(k, gr)
    BY Zenon, <2>1, <2>3 DEF StillQueued
  <2>4. CASE InQueue(k, waiters) /\ Served(k, cs)
    <3>1. grant'[k] \notin closed' /\ grant'[k] # NoConn
      BY Zenon, <2>4, PoolAssumption DEF Served, IsAlive
    <3> QED  BY Zenon, <2>1, <2>4, <3>1 DEF Served
  <2>5. CASE InQueue(k, waiters) /\ Refused(k, gr)
    BY Zenon, <2>1, <2>5 DEF Refused, Errors
  <2> QED  BY Zenon, <1>2, <2>2, <2>3, <2>4, <2>5 DEF TailResult
<1>5. OneReply'
  BY Zenon, <1>3, <1>4 DEF OneReply, QueueDistinct
<1>6. GrantShape' /\ GrantedStaysOpen'
  BY Zenon, <1>3, <1>4 DEF GrantShape, GrantedStaysOpen
<1>7. SlotsMatchGrants' /\ DrainAfterClose'
  BY Zenon, <1>3 DEF SlotsMatchGrants, DrainAfterClose
<1>8. NoBarging'
  BY Zenon, <1>3 DEF NoBarging, NoneFree, HasRoom
<1>10. WithinHostLimit'
  <2>1. pooled' \in SUBSET cs /\ \A c \in pooled' : IsAlive(c)' => IsAlive(c)
    BY Zenon, <1>3
  <2> QED  BY Zenon, <1>3, <2>1, LimitKept
<1> QED  BY ZenonT(30), <1>3, <1>3a, <1>5, <1>6, <1>7, <1>8, <1>10 DEF TailInv

\* A connection without active slots is held by nobody.
LEMMA NoHolders ==
  ASSUME IInv, status # "closed", NEW c \in Conns, active[c] = 0
  PROVE  \A j \in Callers : grant[j] # c
<1>1. Cardinality(Holders(c)) = 0
  BY Zenon DEF IInv, SlotsMatchGrants
<1>2. Holders(c) = {}
  BY Zenon, <1>1, HoldersFinite, FS_EmptySet
<1> QED  BY Zenon, <1>2 DEF Holders

\* A queued caller holds no slot.
LEMMA QueuedHoldsNothing ==
  ASSUME IInv, NEW j \in Callers, InQueue(j, waiters)
  PROVE  grant[j] = NoConn
BY Zenon DEF IInv, OneReply, GrantShape

LEMMA HandleReleaseStep ==
  ASSUME IInv, NEW k \in Callers, HandleRelease(k)
  PROVE  IInv'
<1> DEFINE c     == grant[k]
           act   == [active EXCEPT ![c] = @ - 1]
           evict == ~IsAlive(c) /\ act[c] = 0
           cs    == IF evict THEN pooled \ {c} ELSE pooled
           gr    == [grant EXCEPT ![k] = NoConn]
<1>1. /\ status # "closed" /\ pc[k] = "releasing"
      /\ pc' = [pc EXCEPT ![k] = "idle"]
      /\ closed' = IF evict /\ c \in pooled THEN closed \cup {c} ELSE closed
      /\ ServeDialFlush(cs, act, streamCap, dials, backoff, gr, {}, TRUE)
      /\ UNCHANGED <<status, drain, dialed, dialErrs, peer, peerCap, losses, expired>>
  BY Zenon DEF HandleRelease
<1>2. TypeOK
  BY Zenon DEF IInv
<1>3. c \in Conns /\ c \in pooled
  BY Zenon, <1>1, <1>2 DEF IInv, TypeOK, GrantShape, GrantedStaysOpen
<1>4. Holders(c) \ {k} = {j \in Callers : gr[j] = c} /\ k \in Holders(c)
  BY Zenon, <1>2, <1>3, PoolAssumption DEF Holders, TypeOK
<1>5. /\ Cardinality({j \in Callers : gr[j] = c}) = Cardinality(Holders(c)) - 1
      /\ Cardinality(Holders(c)) \in Nat /\ Cardinality(Holders(c)) # 0
  <2>1. Cardinality(Holders(c) \ {k}) = Cardinality(Holders(c)) - 1
    BY Zenon, <1>4, HoldersFinite, FS_RemoveElement
  <2>2. Cardinality(Holders(c)) \in Nat
    BY Zenon, HoldersFinite, FS_CardinalityType
  <2>3. Cardinality(Holders(c)) # 0
    BY Zenon, <1>4, HoldersFinite, FS_EmptySet
  <2> QED  BY <1>4, <2>1, <2>2, <2>3, Zenon
<1>6. active[c] = Cardinality(Holders(c)) /\ active[c] \in Nat \ {0}
  BY Zenon, <1>1, <1>3, <1>5 DEF IInv, SlotsMatchGrants
<1>7. act \in [Conns -> Nat] /\ gr \in [Callers -> Conns \cup {NoConn}]
  <2>1. active[c] - 1 \in Nat
    BY <1>6, PredIsNat, Zenon
  <2>2. active \in [Conns -> Nat]
    BY Zenon, <1>2 DEF TypeOK
  <2>3. act = [active EXCEPT ![c] = active[c] - 1]
    BY Zenon
  <2>4. act \in [Conns -> Nat]
    BY <2>1, <2>2, <2>3, UpdateTyped, ZenonT(30)
  <2>5. gr \in [Callers -> Conns \cup {NoConn}]
    BY Zenon, <1>2 DEF TypeOK
  <2> QED  BY <2>4, <2>5, Zenon
<1>8. \A e \in Conns : act[e] = Cardinality({j \in Callers : gr[j] = e})
  <2> TAKE e \in Conns
  <2>1. CASE e = c
    BY Zenon, <1>2, <1>5, <1>6, <2>1 DEF TypeOK
  <2>2. CASE e # c
    <3>1. {j \in Callers : gr[j] = e} = Holders(e)
      BY Zenon, <1>2, <2>2, PoolAssumption DEF Holders, TypeOK
    <3>2. act[e] = active[e]
      BY Zenon, <1>2, <2>2 DEF TypeOK
    <3> QED  BY <1>1, <3>1, <3>2, ZenonT(30) DEF IInv, SlotsMatchGrants
  <2> QED  BY Zenon, <2>1, <2>2
<1>9. \A j \in Callers : gr[j] # NoConn => j # k /\ gr[j] = grant[j]
  BY Zenon, <1>2 DEF TypeOK
<1>10. evict => \A j \in Callers : gr[j] # c
  <2> SUFFICES ASSUME act[c] = 0 PROVE \A j \in Callers : gr[j] # c
    BY Zenon
  <2>1. Cardinality({j \in Callers : gr[j] = c}) = 0
    BY Zenon, <1>3, <1>8
  <2>2. IsFiniteSet({j \in Callers : gr[j] = c})
    BY Zenon, PoolAssumption, FS_Subset
  <2>3. {j \in Callers : gr[j] = c} = {}
    BY Zenon, <2>1, <2>2, FS_EmptySet
  <2> QED  BY Zenon, <2>3
<1> HIDE DEF act, gr
<1>11. \A j \in Callers : gr[j] # NoConn => gr[j] \in cs \ closed'
  BY ZenonT(30), <1>1, <1>9, <1>10 DEF IInv, GrantedStaysOpen
<1>12. \A j \in Callers : InQueue(j, waiters) => gr[j] = NoConn
  BY Zenon, <1>9, QueuedHoldsNothing
<1>13. \A j \in Callers :
         \/ pc'[j] = pc[j] /\ gr[j] = grant[j]
         \/ pc[j] = "releasing" /\ pc'[j] = "idle" /\ gr[j] = NoConn
  BY Zenon, <1>1, <1>2 DEF TypeOK, gr
<1>14. cs \in SUBSET Conns /\ \A e \in cs : IsAlive(e)' <=> IsAlive(e)
  BY Zenon, <1>1, <1>2 DEF TypeOK, IsAlive
<1>15. CountLive(cs) + dials <= MaxConnsPerHost
  <2>1. CASE ~evict
    BY Zenon, <2>1 DEF IInv, WithinHostLimit
  <2>2. CASE evict
    <3>1. Live(cs) = Live(pooled)
      BY Zenon, <2>2 DEF Live
    <3>2. CountLive(cs) = CountLive(pooled)
      BY <3>1, Zenon DEF CountLive
    <3> QED  BY Zenon, <3>2 DEF IInv, WithinHostLimit
  <2> QED  BY Zenon, <2>1, <2>2
<1>16. dialing + Cardinality(dialed') + dialErrs = dials /\ Cardinality(dialed') \in Nat
  BY Zenon, <1>1, <1>2, DialedFinite DEF IInv, DialsAccounted
<1> HIDE DEF cs, evict
<1>17. TailInv(cs, streamCap)
  <2>1. streamCap \in [Conns -> Nat] /\ dials \in Nat
    BY Zenon, <1>2 DEF TypeOK
  <2>2. TRUE \in BOOLEAN /\ status' = status /\ drain' = drain /\ dialErrs' = dialErrs
    BY Zenon, <1>1
  <2> QED  BY ZenonT(30), <1>1, <1>7, <1>8, <1>11, <1>12, <1>13, <1>14, <1>15, <1>16, <2>1, <2>2,
              TailStep, ZenonT(60)
<1>18. TypeOK'
  BY Zenon, <1>1, <1>2, <1>3, <1>14, <1>17 DEF TypeOK, Stages, TailInv
<1>19. DialedApart' /\ NoOrphan'
  BY Zenon, <1>1, <1>17 DEF IInv, DialedApart, NoOrphan, TailInv, cs
<1> QED  BY Zenon, <1>17, <1>18, <1>19 DEF IInv, TailInv

\* One more connection is at most one more live connection.
LEMMA OneMoreLive ==
  ASSUME NEW cs \in SUBSET Conns, NEW c \in Conns
  PROVE  CountLive(cs \cup {c}) <= CountLive(cs) + 1
<1>1. IsFiniteSet(Live(cs)) /\ CountLive(cs) \in Nat
  BY Zenon, PoolAssumption, FS_Subset, CountLiveIsNat, Live(cs) \in SUBSET Conns DEF Live
<1>2. CASE ~IsAlive(c)
  <2>1. Live(cs \cup {c}) = Live(cs)
    BY Zenon, <1>2 DEF Live
  <2>2. CountLive(cs \cup {c}) = CountLive(cs)
    BY <2>1, Zenon DEF CountLive
  <2> QED  BY <1>1, <2>2
<1>3. CASE IsAlive(c)
  <2>1. Live(cs \cup {c}) = Live(cs) \cup {c}
    BY Zenon, <1>3 DEF Live
  <2>2. /\ Cardinality(Live(cs) \cup {c}) = Cardinality(Live(cs))
        \/ Cardinality(Live(cs) \cup {c}) = Cardinality(Live(cs)) + 1
    BY Zenon, <1>1, FS_AddElement
  <2>3. \/ CountLive(cs \cup {c}) = CountLive(cs)
        \/ CountLive(cs \cup {c}) = CountLive(cs) + 1
    BY <2>1, <2>2, Zenon DEF CountLive
  <2> QED  BY <1>1, <2>3
<1> QED  BY Zenon, <1>2, <1>3

LEMMA HandleDialOkStep ==
  ASSUME IInv, NEW c \in Conns, HandleDialOk(c)
  PROVE  IInv'
<1> DEFINE cs  == pooled \cup {c}
           cap == [streamCap EXCEPT ![c] =
                     EffectiveStreamCap(MaxStreamsPerConn, peerCap[c])]
<1>1. /\ status # "closed" /\ c \in dialed /\ dialed' = dialed \ {c}
      /\ ServeDialFlush(cs, active, cap, dials - 1, backoff, grant, {}, FALSE)
      /\ UNCHANGED <<status, drain, dialErrs, peer, closed, peerCap, losses, pc, expired>>
  BY Zenon DEF HandleDialOk, connVars
<1>2. TypeOK
  BY Zenon DEF IInv
<1>3. /\ cs \in SUBSET Conns /\ active \in [Conns -> Nat]
      /\ grant \in [Callers -> Conns \cup {NoConn}]
      /\ dialing \in Nat /\ dialErrs \in Nat /\ dials \in Nat /\ pooled \in SUBSET Conns
  BY Zenon, <1>2 DEF TypeOK
<1>4. cap \in [Conns -> Nat]
  <2>1. peerCap[c] \in Nat
    <3>1. peerCap \in [Conns -> PeerCaps]
      BY Zenon, <1>2 DEF TypeOK
    <3>2. peerCap[c] \in PeerCaps
      BY Zenon, <3>1
    <3> QED  BY Zenon, <3>2, PoolAssumption
  <2>2. EffectiveStreamCap(MaxStreamsPerConn, peerCap[c]) \in Nat
    <3>1. EffectiveStreamCap(MaxStreamsPerConn, peerCap[c]) \in Nat \ {0}
      BY <2>1, CapIsPositive, Zenon
    <3> QED  BY <3>1, Zenon
  <2>3. streamCap \in [Conns -> Nat]
    BY Zenon, <1>2 DEF TypeOK
  <2> QED  BY <2>2, <2>3, UpdateTyped, Zenon
<1>5. /\ dialing + Cardinality(dialed') + dialErrs = dials - 1
      /\ Cardinality(dialed') \in Nat /\ dials \in Nat \ {0}
  <2>1. /\ IsFiniteSet(dialed) /\ Cardinality(dialed) \in Nat
        /\ IsFiniteSet(dialed') /\ Cardinality(dialed') = Cardinality(dialed) - 1
    BY ZenonT(30), <1>1, <1>2, DialedFinite, FS_RemoveElement
  <2>2. Cardinality(dialed') \in Nat
    BY Zenon, <2>1, FS_CardinalityType
  <2>3. dialing + Cardinality(dialed) + dialErrs = dials
    BY Zenon, <1>1 DEF IInv, DialsAccounted
  <2> QED  BY <1>3, <2>1, <2>2, <2>3
<1>6. dials - 1 \in Nat
  BY <1>5, PredIsNat, Zenon
<1>7. CountLive(cs) + (dials - 1) <= MaxConnsPerHost
  <2>1. CountLive(cs) <= CountLive(pooled) + 1
    BY Zenon, <1>3, OneMoreLive
  <2>2. CountLive(cs) \in Nat /\ CountLive(pooled) \in Nat /\ MaxConnsPerHost \in Nat
    BY Zenon, <1>3, CountLiveIsNat, PoolAssumption
  <2>3. CountLive(pooled) + dials <= MaxConnsPerHost
    BY Zenon DEF IInv, WithinHostLimit
  <2> HIDE DEF cs
  <2> QED  BY <1>3, <2>1, <2>2, <2>3
<1>8. \A e \in Conns : active[e] = Cardinality({j \in Callers : grant[j] = e})
  BY Zenon, <1>1 DEF IInv, SlotsMatchGrants, Holders
<1>9. \A j \in Callers : grant[j] # NoConn => grant[j] \in cs \ closed'
  BY Zenon, <1>1 DEF IInv, GrantedStaysOpen
<1>10. \A j \in Callers : InQueue(j, waiters) => grant[j] = NoConn
  BY Zenon, QueuedHoldsNothing
<1>11. \A e \in cs : IsAlive(e)' <=> IsAlive(e)
  BY ZenonT(30), <1>1 DEF IsAlive
<1>12. \A j \in Callers :
         \/ pc'[j] = pc[j] /\ grant[j] = grant[j]
         \/ pc[j] = "releasing" /\ pc'[j] = "idle" /\ grant[j] = NoConn
  BY Zenon, <1>1
<1> HIDE DEF cs, cap
<1>13. TailInv(cs, cap)
  <2>1. FALSE \in BOOLEAN /\ status' = status /\ drain' = drain /\ dialErrs' = dialErrs
    BY Zenon, <1>1
  <2> QED  BY ZenonT(30), <1>1, <1>3, <1>4, <1>5, <1>6, <1>7, <1>8, <1>9, <1>10, <1>11, <1>12,
              <2>1, TailStep, ZenonT(60)
<1>14. TypeOK'
  BY ZenonT(30), <1>1, <1>2, <1>3, <1>4, <1>13 DEF TypeOK, TailInv
<1>15. DialedApart' /\ NoOrphan'
  BY Zenon, <1>1, <1>13 DEF IInv, DialedApart, NoOrphan, TailInv, cs
<1> QED  BY Zenon, <1>13, <1>14, <1>15 DEF IInv, TailInv

-----------------------------------------------------------------------------

\* A failed dial: the front waiter, or all of them, get the error.
LEMMA HandleDialErrStep ==
  ASSUME IInv, HandleDialErr
  PROVE  IInv'
<1> DEFINE front == waiters # <<>>
           queue == IF front THEN Tail(waiters) ELSE waiters
           New(b1) == EnsureDialForWaiters(pooled, active, streamCap, queue, dials - 1, b1)
           Flush(b1, b2) == Stranded(pooled, queue, dials - 1 + New(b1), b2)
           Result(b1, b2) ==
             /\ dials' = dials - 1 + New(b1)
             /\ dialing' = dialing + New(b1)
             /\ backoff' = b2
             /\ waiters' = IF Flush(b1, b2) THEN <<>> ELSE queue
             /\ reply' = [k \in Callers |->
                  IF \/ front /\ k = Head(waiters)
                     \/ Flush(b1, b2) /\ InQueue(k, queue)
                  THEN "dialError" ELSE reply[k]]
<1>1. /\ status # "closed" /\ dialErrs > 0 /\ dialErrs' = dialErrs - 1
      /\ UNCHANGED <<pooled, active, streamCap, status, drain, dialed>>
      /\ UNCHANGED <<peer, closed, peerCap, losses, pc, expired, grant>>
  BY Zenon DEF HandleDialErr, connVars
<1>2. PICK b1 \in BOOLEAN : \E b2 \in LaterBackoff(b1) : Result(b1, b2)
  BY Zenon DEF HandleDialErr
<1>3. PICK b2 \in LaterBackoff(b1) : Result(b1, b2)
  BY Zenon, <1>2
<1>4. b2 \in BOOLEAN
  BY Zenon DEF LaterBackoff
<1>5. /\ TypeOK /\ dials \in Nat /\ dialing \in Nat /\ dialErrs \in Nat \ {0}
      /\ waiters \in Seq(Callers) /\ Len(waiters) \in Nat /\ pooled \in SUBSET Conns
      /\ active \in [Conns -> Nat] /\ streamCap \in [Conns -> Nat]
  BY <1>1 DEF IInv, TypeOK
<1>6. /\ queue \in Seq(Callers) /\ Len(queue) \in Nat
      /\ front => /\ Len(queue) = Len(waiters) - 1 /\ Len(waiters) > 0
                  /\ Head(waiters) = waiters[1]
                  /\ \A i \in 1..Len(queue) : queue[i] = waiters[i + 1]
  BY <1>5
<1>7. /\ \A k : InQueue(k, waiters) <=> InQueue(k, queue) \/ (front /\ k = Head(waiters))
      /\ front => ~InQueue(Head(waiters), queue)
      /\ \A i, j \in 1..Len(queue) : queue[i] = queue[j] => i = j
  <2>1. CASE front
    <3>1. ASSUME NEW k, InQueue(k, waiters), k # Head(waiters) PROVE InQueue(k, queue)
      <4>1. PICK i \in 1..Len(waiters) : waiters[i] = k
        BY Zenon, <3>1 DEF InQueue
      <4>2. i # 1 /\ i - 1 \in 1..Len(queue)
        BY SMTT(30), <1>5, <1>6, <2>1, <3>1, <4>1
      <4>3. queue[i - 1] = waiters[(i - 1) + 1] /\ (i - 1) + 1 = i
        BY <1>6, <2>1, <4>2
      <4> QED  BY Zenon, <4>1, <4>2, <4>3 DEF InQueue
    <3>2. ASSUME NEW k, InQueue(k, queue) PROVE InQueue(k, waiters)
      <4>1. PICK i \in 1..Len(queue) : queue[i] = k
        BY Zenon, <3>2 DEF InQueue
      <4>2. i + 1 \in 1..Len(waiters)
        BY <1>5, <1>6, <2>1
      <4> QED  BY Zenon, <1>6, <2>1, <4>1, <4>2 DEF InQueue
    <3>3. InQueue(Head(waiters), waiters)
      BY <1>5, <1>6, <2>1 DEF InQueue
    <3>4. ~InQueue(Head(waiters), queue)
      BY <1>5, <1>6, <2>1 DEF InQueue, IInv, OneReply
    <3>5. \A i, j \in 1..Len(queue) : queue[i] = queue[j] => i = j
      BY <1>5, <1>6, <2>1 DEF IInv, OneReply
    <3> QED  BY Zenon, <2>1, <3>1, <3>2, <3>3, <3>4, <3>5
  <2>2. CASE ~front
    BY Zenon, <2>2 DEF InQueue, IInv, OneReply
  <2> QED  BY Zenon, <2>1, <2>2
<1>8. dialing + Cardinality(dialed') + dialErrs' = dials - 1
      /\ Cardinality(dialed') \in Nat /\ dials \in Nat \ {0} /\ dialErrs' \in Nat
  <2>1. Cardinality(dialed) \in Nat /\ dialed' = dialed
    BY Zenon, <1>1, <1>5, DialedFinite
  <2>2. dialing + Cardinality(dialed) + dialErrs = dials
    BY Zenon, <1>1 DEF IInv, DialsAccounted
  <2>3. dialErrs' \in Nat
    BY <1>1, <1>5, PredIsNat, Zenon
  <2> QED  BY SMTT(30), <1>1, <1>5, <2>1, <2>2, <2>3
<1>9. dials - 1 \in Nat
  BY <1>8, PredIsNat, Zenon
<1>10. queue # <<>> => NoneFree(pooled, active, streamCap)
  <2>1. queue # <<>> => waiters # <<>>
    BY Zenon, <1>6
  <2> QED  BY Zenon, <2>1 DEF IInv, NoBarging
<1> HIDE DEF queue, front, New
<1>11. /\ New(b1) \in Nat
       /\ CountLive(pooled) + (dials - 1) <= MaxConnsPerHost =>
            CountLive(pooled) + (dials - 1) + New(b1) <= MaxConnsPerHost
  BY ZenonT(30), <1>5, <1>6, <1>9, <1>10, EnsureDialFits DEF New
<1>12. /\ dials' \in Nat /\ dials' >= dials - 1
       /\ dialing' = dialing + (dials' - (dials - 1))
  BY <1>3, <1>5, <1>9, <1>11
<1>13. DialsAccounted' /\ dialing' \in Nat
  <2>1. status' # "closed"
    BY Zenon, <1>1
  <2> QED  BY ZenonT(30), <1>5, <1>8, <1>9, <1>12, <2>1, DialsBalance
<1>14. WithinHostLimit'
  <2>1. CountLive(pooled) + dials <= MaxConnsPerHost /\ CountLive(pooled) \in Nat
        /\ MaxConnsPerHost \in Nat
    BY Zenon, <1>5, CountLiveIsNat, PoolAssumption DEF IInv, WithinHostLimit
  <2>2. CountLive(pooled) + dials' <= MaxConnsPerHost
    <3> HIDE DEF New
    <3>1. dials \in Nat /\ (dials' = dials - 1 \/ dials' = dials - 1 + New(b1))
      BY Zenon, <1>3, <1>5
    <3>2. \/ dials' = dials - 1
          \/ CountLive(pooled) + (dials - 1) + New(b1) <= MaxConnsPerHost
      BY <1>11, <2>1, <3>1
    <3> QED  BY <1>11, <2>1, <3>1, <3>2
  <2>3. pooled' \in SUBSET pooled /\ \A e \in pooled' : IsAlive(e)' => IsAlive(e)
    BY Zenon, <1>1 DEF IsAlive
  <2> QED  BY Zenon, <1>5, <1>12, <2>2, <2>3, LimitKept
<1>15. reply' \in [Callers -> Replies] /\ waiters' \in Seq(Callers)
  BY <1>3, <1>5, <1>6 DEF TypeOK, Replies, Errors
<1>16. TypeOK'
  BY ZenonT(30), <1>1, <1>3, <1>4, <1>5, <1>8, <1>12, <1>13, <1>15 DEF TypeOK
<1>17. \A k \in Callers :
         \/ InQueue(k, waiters) /\ InQueue(k, waiters)' /\ reply'[k] = reply[k]
         \/ InQueue(k, waiters) /\ ~InQueue(k, waiters)' /\ reply'[k] = "dialError"
         \/ ~InQueue(k, waiters) /\ ~InQueue(k, waiters)' /\ reply'[k] = reply[k]
  <2>1. \A k : ~InQueue(k, <<>>)
    BY DEF InQueue
  <2>2. \A k : InQueue(k, waiters)' <=> InQueue(k, waiters')
    BY Zenon DEF InQueue
  <2> QED  BY Zenon, <1>3, <1>7, <2>1, <2>2
<1>18. OneReply' /\ GrantShape'
  <2>1. \A i, j \in 1..Len(waiters') : waiters'[i] = waiters'[j] => i = j
    BY <1>3, <1>7
  <2> QED  BY ZenonT(30), <1>1, <1>17, <2>1 DEF IInv, OneReply, GrantShape
<1>19. NoBarging'
  <2>1. waiters' # <<>> => NoneFree(pooled, active, streamCap)
    BY Zenon, <1>3, <1>10
  <2> QED  BY Zenon, <1>1, <2>1 DEF NoBarging, NoneFree, HasRoom, IsAlive
<1>20. SlotsMatchGrants' /\ GrantedStaysOpen' /\ DialedApart' /\ DrainAfterClose' /\ NoOrphan'
  BY Zenon, <1>1 DEF IInv, SlotsMatchGrants, Holders, GrantedStaysOpen, DialedApart,
              DrainAfterClose, NoOrphan
<1> QED  BY Zenon, <1>13, <1>14, <1>16, <1>18, <1>19, <1>20 DEF IInv

LEMMA HandleStatsStep ==
  ASSUME IInv, HandleStats
  PROVE  IInv'
<1> USE DEF IInv
<1>1. /\ status # "closed" /\ pooled' = pooled \ Dead /\ closed' = closed \cup Dead
      /\ UNCHANGED <<active, streamCap, waiters, dials, backoff, status, drain>>
      /\ UNCHANGED <<dialing, dialed, dialErrs, peer, peerCap, losses, pc, expired,
                     reply, grant>>
  BY Zenon DEF HandleStats, dialVars
<1>2. Dead \in SUBSET Conns /\ \A c \in Dead : \A j \in Callers : grant[j] # c
  BY Zenon, <1>1, NoHolders DEF Dead, TypeOK
<1>3. TypeOK'
  BY Zenon, <1>1, <1>2 DEF TypeOK
<1>4. OneReply' /\ GrantShape' /\ SlotsMatchGrants' /\ DialsAccounted' /\ DialedApart'
      /\ DrainAfterClose' /\ NoOrphan'
  BY <1>1 DEF OneReply, InQueue, GrantShape, SlotsMatchGrants, Holders, DialsAccounted,
              DialedApart, DrainAfterClose, NoOrphan
<1>5. GrantedStaysOpen'
  BY Zenon, <1>1, <1>2 DEF GrantedStaysOpen
<1>6. pooled' \in SUBSET pooled /\ \A c \in pooled' : IsAlive(c)' => IsAlive(c)
  BY Zenon, <1>1 DEF IsAlive
<1>7. NoBarging'
  BY Zenon, <1>1, <1>6 DEF NoBarging, NoneFree, HasRoom
<1>8. WithinHostLimit'
  <2>1. pooled \in SUBSET Conns /\ dials' \in Nat /\ dials' = dials
    BY Zenon, <1>1 DEF TypeOK
  <2> QED  BY Zenon, <1>6, <2>1, LimitKept DEF WithinHostLimit
<1> QED  BY Zenon, <1>3, <1>4, <1>5, <1>7, <1>8

LEMMA HandleTickStep ==
  ASSUME IInv, HandleTick
  PROVE  IInv'
<1> DEFINE Cs(idle)  == pooled \ (Dead \cup idle)
           Cap(idle) == [c \in Conns |->
                           IF c \in Cs(idle)
                           THEN EffectiveStreamCap(MaxStreamsPerConn, peerCap[c])
                           ELSE streamCap[c]]
<1>1. /\ status # "closed"
      /\ UNCHANGED <<status, drain, dialed, dialErrs, peer, peerCap, losses, pc, expired>>
  BY Zenon DEF HandleTick
<1>2. PICK idle \in SUBSET {c \in pooled : active[c] = 0} :
        /\ closed' = closed \cup (Dead \cup idle)
        /\ ServeDialFlush(Cs(idle), active, Cap(idle), dials, backoff, grant, expired, TRUE)
  BY Zenon DEF HandleTick
<1> DEFINE cs  == Cs(idle)
           cap == Cap(idle)
<1>3. TypeOK
  BY Zenon DEF IInv
<1>4. /\ cs \in SUBSET Conns /\ active \in [Conns -> Nat]
      /\ grant \in [Callers -> Conns \cup {NoConn}]
      /\ dialing \in Nat /\ dialErrs \in Nat /\ dials \in Nat /\ pooled \in SUBSET Conns
      /\ Dead \cup idle \in SUBSET Conns /\ Dead \cup idle \in SUBSET pooled
  BY Zenon, <1>3 DEF TypeOK, Dead
<1>5. cap \in [Conns -> Nat]
  <2>1. ASSUME NEW c \in Conns
        PROVE  EffectiveStreamCap(MaxStreamsPerConn, peerCap[c]) \in Nat \ {0}
    <3>1. peerCap \in [Conns -> PeerCaps]
      BY Zenon, <1>3 DEF TypeOK
    <3>2. peerCap[c] \in PeerCaps
      BY Zenon, <3>1
    <3>3. peerCap[c] \in Nat
      BY <3>2, PoolAssumption, Zenon
    <3> QED  BY <3>3, CapIsPositive, Zenon
  <2>2. streamCap \in [Conns -> Nat]
    BY Zenon, <1>3 DEF TypeOK
  <2> HIDE DEF Cs
  <2> QED  BY Zenon, <2>1, <2>2
<1>6. \A c \in Dead \cup idle : \A j \in Callers : grant[j] # c
  <2>1. \A c \in Dead \cup idle : c \in Conns /\ active[c] = 0
    BY Zenon, <1>4 DEF Dead
  <2> QED  BY Zenon, <1>1, <2>1, NoHolders
<1>7. \A e \in Conns : active[e] = Cardinality({j \in Callers : grant[j] = e})
  BY Zenon, <1>1 DEF IInv, SlotsMatchGrants, Holders
<1>8. \A j \in Callers : grant[j] # NoConn => grant[j] \in cs \ closed'
  BY Zenon, <1>1, <1>2, <1>6 DEF IInv, GrantedStaysOpen
<1>9. \A j \in Callers : InQueue(j, waiters) => grant[j] = NoConn
  BY Zenon, QueuedHoldsNothing
<1>10. \A e \in cs : IsAlive(e)' <=> IsAlive(e)
  BY Zenon, <1>1, <1>2 DEF IsAlive
<1>11. \A j \in Callers :
         \/ pc'[j] = pc[j] /\ grant[j] = grant[j]
         \/ pc[j] = "releasing" /\ pc'[j] = "idle" /\ grant[j] = NoConn
  BY Zenon, <1>1
<1>12. CountLive(cs) + dials <= MaxConnsPerHost
  <2>1. Live(cs) \in SUBSET Live(pooled) /\ Live(pooled) \in SUBSET Conns
    BY Zenon, <1>4 DEF Live
  <2>2. IsFiniteSet(Live(pooled))
    BY Zenon, <2>1, PoolAssumption, FS_Subset
  <2>3. Cardinality(Live(cs)) <= Cardinality(Live(pooled))
    BY Zenon, <2>1, <2>2, FS_Subset
  <2>4. CountLive(cs) <= CountLive(pooled)
    BY Zenon, <2>3 DEF CountLive
  <2>5. CountLive(cs) \in Nat /\ CountLive(pooled) \in Nat /\ MaxConnsPerHost \in Nat
    BY Zenon, <1>4, CountLiveIsNat, PoolAssumption
  <2>6. CountLive(pooled) + dials <= MaxConnsPerHost
    BY Zenon DEF IInv, WithinHostLimit
  <2> HIDE DEF cs
  <2> QED  BY <1>4, <2>4, <2>5, <2>6
<1>13. dialing + Cardinality(dialed') + dialErrs = dials /\ Cardinality(dialed') \in Nat
  BY Zenon, <1>1, <1>3, DialedFinite DEF IInv, DialsAccounted
<1> HIDE DEF Cs, Cap
<1>14. TailInv(cs, cap)
  <2>1. TRUE \in BOOLEAN /\ status' = status /\ drain' = drain /\ dialErrs' = dialErrs
    BY Zenon, <1>1
  <2> QED  BY ZenonT(30), <1>1, <1>2, <1>4, <1>5, <1>7, <1>8, <1>9, <1>10, <1>11, <1>12, <1>13,
              <2>1, TailStep, ZenonT(60)
<1>15. TypeOK'
  BY ZenonT(30), <1>1, <1>2, <1>3, <1>4, <1>5, <1>14 DEF TypeOK, TailInv
<1>16. DialedApart' /\ NoOrphan'
  BY Zenon, <1>1, <1>2, <1>14 DEF IInv, DialedApart, NoOrphan, TailInv, Cs
<1> QED  BY Zenon, <1>14, <1>15, <1>16 DEF IInv, TailInv

LEMMA HandleWarmupStep ==
  ASSUME IInv, NEW n \in 1..MaxConnsPerHost, HandleWarmup(n)
  PROVE  IInv'
<1> USE DEF IInv
<1> DEFINE need == WarmupNeed(n)
<1>1. /\ status # "closed" /\ need > 0
      /\ dials' = dials + need /\ dialing' = dialing + need
      /\ UNCHANGED <<pooled, active, streamCap, waiters, backoff, status, drain>>
      /\ UNCHANGED <<dialed, dialErrs, peer, closed, peerCap, losses, pc, expired,
                     reply, grant>>
  BY Zenon DEF HandleWarmup, connVars
<1>2. CountLive(pooled) \in Nat /\ dials \in Nat /\ dialing \in Nat /\ MaxConnsPerHost \in Nat
  BY Zenon, CountLiveIsNat, PoolAssumption DEF TypeOK
<1>3. need \in Nat /\ CountLive(pooled) + dials + need <= MaxConnsPerHost
  BY <1>1, <1>2 DEF WarmupNeed, Smaller
<1> HIDE DEF need
<1>4. dials' \in Nat /\ dialing' \in Nat /\ CountLive(pooled) + dials' <= MaxConnsPerHost
  BY <1>1, <1>2, <1>3
<1>5. TypeOK'
  BY Zenon, <1>1, <1>4 DEF TypeOK
<1>6. OneReply' /\ GrantShape' /\ SlotsMatchGrants' /\ GrantedStaysOpen' /\ NoBarging'
      /\ DialedApart' /\ DrainAfterClose' /\ NoOrphan'
  BY <1>1 DEF OneReply, InQueue, GrantShape, SlotsMatchGrants, Holders, GrantedStaysOpen,
              NoBarging, NoneFree, HasRoom, IsAlive, DialedApart, DrainAfterClose, NoOrphan
<1>7. DialsAccounted'
  <2>1. Cardinality(dialed) \in Nat /\ dialErrs \in Nat
    BY Zenon, DialedFinite DEF TypeOK
  <2>2. dialing + Cardinality(dialed) + dialErrs = dials
    BY Zenon, <1>1 DEF DialsAccounted
  <2>3. dialing' + Cardinality(dialed) + dialErrs = dials'
    BY SMTT(30), <1>1, <1>2, <1>3, <2>1, <2>2
  <2> QED  BY Zenon, <1>1, <2>3 DEF DialsAccounted
<1>8. WithinHostLimit'
  <2>1. pooled' \in SUBSET pooled /\ \A c \in pooled' : IsAlive(c)' => IsAlive(c)
    BY Zenon, <1>1 DEF IsAlive
  <2> QED  BY Zenon, <1>4, <2>1, LimitKept DEF TypeOK
<1> QED  BY Zenon, <1>5, <1>6, <1>7, <1>8

LEMMA CloseStep ==
  ASSUME IInv, Close
  PROVE  IInv'
<1> USE DEF IInv
<1>1. /\ status = "open" /\ status' = "closing"
      /\ UNCHANGED <<pooled, active, streamCap, waiters, dials, backoff, drain>>
      /\ UNCHANGED <<dialing, dialed, dialErrs, peer, closed, peerCap, losses, pc,
                     expired, reply, grant>>
  BY Zenon DEF Close, actorVars, dialVars, connVars
<1>2. TypeOK'
  BY Zenon, <1>1 DEF TypeOK
<1>3. OneReply' /\ GrantShape' /\ SlotsMatchGrants' /\ GrantedStaysOpen' /\ NoBarging'
      /\ DialedApart' /\ DrainAfterClose' /\ NoOrphan' /\ DialsAccounted' /\ WithinHostLimit'
  BY <1>1 DEF OneReply, InQueue, GrantShape, SlotsMatchGrants, Holders, GrantedStaysOpen,
              NoBarging, NoneFree, HasRoom, IsAlive, DialedApart, DrainAfterClose, NoOrphan,
              DialsAccounted, WithinHostLimit, CountLive, Live
<1> QED  BY Zenon, <1>2, <1>3

LEMMA HandleCloseStep ==
  ASSUME IInv, HandleClose
  PROVE  IInv'
<1> USE DEF IInv
<1>1. /\ status = "closing" /\ status' = "closed" /\ reply' = RefuseAll("poolClosed")
      /\ waiters' = <<>> /\ drain' = dials /\ dials' = 0
      /\ closed' = closed \cup pooled /\ pooled' = {}
      /\ UNCHANGED <<active, streamCap, backoff, dialing, dialed, dialErrs>>
      /\ UNCHANGED <<peer, peerCap, losses, pc, expired, grant>>
  BY Zenon DEF HandleClose, dialVars
<1>2. TypeOK'
  BY SMTT(30), <1>1 DEF TypeOK, RefuseAll, Replies, Errors
<1>3. \A k \in Callers :
        /\ ~InQueue(k, waiters)'
        /\ reply'[k] = IF InQueue(k, waiters) THEN "poolClosed" ELSE reply[k]
  BY <1>1 DEF InQueue, RefuseAll
<1>4. OneReply' /\ GrantShape'
  BY <1>1, <1>3 DEF OneReply, GrantShape
<1>5. SlotsMatchGrants' /\ GrantedStaysOpen' /\ NoBarging' /\ DialsAccounted'
      /\ DialedApart' /\ DrainAfterClose' /\ NoOrphan'
  BY Zenon, <1>1 DEF SlotsMatchGrants, GrantedStaysOpen, NoBarging, DialsAccounted, DialedApart,
              DrainAfterClose, NoOrphan
<1>6. WithinHostLimit'
  <2>1. CountLive(pooled) \in Nat /\ dials \in Nat /\ MaxConnsPerHost \in Nat
        /\ pooled \in SUBSET Conns
    BY Zenon, CountLiveIsNat, PoolAssumption DEF TypeOK
  <2>2. dials' \in Nat /\ CountLive(pooled) + dials' <= MaxConnsPerHost
    BY <1>1, <2>1 DEF WithinHostLimit
  <2>3. pooled' \in SUBSET pooled /\ \A c \in pooled' : IsAlive(c)' => IsAlive(c)
    BY Zenon, <1>1
  <2> QED  BY Zenon, <2>1, <2>2, <2>3, LimitKept
<1> QED  BY Zenon, <1>2, <1>4, <1>5, <1>6

\* Steps that only move a dial result or a connection identity.
LEMMA DrainDialStep ==
  ASSUME IInv, DrainDial
  PROVE  IInv'
<1> USE DEF IInv
<1>1. /\ drain > 0 /\ drain' = drain - 1
      /\ UNCHANGED <<pooled, active, streamCap, waiters, dials, backoff, status, dialing>>
      /\ UNCHANGED <<peer, peerCap, losses, pc, expired, reply, grant>>
  BY Zenon DEF DrainDial, actorVars
<1>2. status = "closed" /\ drain \in Nat \ {0}
  BY <1>1 DEF DrainAfterClose, TypeOK
<1>3. drain - 1 \in Nat
  BY <1>2, PredIsNat, ZenonT(30)
<1>4. Cardinality(dialed) \in Nat /\ IsFiniteSet(dialed) /\ dialErrs \in Nat /\ dialing \in Nat
  BY Zenon, DialedFinite DEF TypeOK
<1>5. /\ dialed' \in SUBSET dialed /\ closed' \in SUBSET Conns /\ dialErrs' \in Nat
      /\ closed \in SUBSET closed' /\ dialed \in SUBSET (dialed' \cup closed')
      /\ Cardinality(dialed') + dialErrs' = Cardinality(dialed) + dialErrs - 1
      /\ Cardinality(dialed') \in Nat
  <2>1. CASE \E c \in dialed : /\ dialed' = dialed \ {c}
                               /\ closed' = closed \cup {c}
                               /\ UNCHANGED dialErrs
    <3>1. PICK c \in dialed : /\ dialed' = dialed \ {c}
                              /\ closed' = closed \cup {c}
                              /\ UNCHANGED dialErrs
      BY Zenon, <2>1
    <3>2. /\ IsFiniteSet(dialed \ {c})
          /\ Cardinality(dialed \ {c}) = Cardinality(dialed) - 1
      BY Zenon, <1>4, FS_RemoveElement
    <3>3. Cardinality(dialed') = Cardinality(dialed) - 1 /\ Cardinality(dialed') \in Nat
      BY <3>1, <3>2, FS_CardinalityType, Zenon
    <3>4. Cardinality(dialed') + dialErrs' = Cardinality(dialed) + dialErrs - 1
      BY SMTT(30), <1>4, <3>1, <3>3
    <3>5. c \in Conns /\ closed' \in SUBSET Conns
      BY Zenon, <3>1 DEF TypeOK
    <3> QED  BY Zenon, <1>4, <3>1, <3>3, <3>4, <3>5
  <2>2. CASE /\ dialErrs > 0 /\ dialErrs' = dialErrs - 1 /\ UNCHANGED <<dialed, closed>>
    <3>1. dialErrs' \in Nat
      BY <1>4, <2>2
    <3>2. Cardinality(dialed') = Cardinality(dialed)
      BY <2>2, ZenonT(30)
    <3> QED  BY Zenon, <1>4, <2>2, <3>1, <3>2 DEF TypeOK
  <2> QED  BY Zenon, <2>1, <2>2 DEF DrainDial
<1>6. TypeOK'
  BY Zenon, <1>1, <1>3, <1>5 DEF TypeOK
<1>7. OneReply' /\ GrantShape' /\ SlotsMatchGrants' /\ GrantedStaysOpen' /\ DialedApart'
      /\ DrainAfterClose' /\ NoOrphan'
  BY SMTT(30), <1>1, <1>2, <1>5 DEF OneReply, InQueue, GrantShape, SlotsMatchGrants,
     GrantedStaysOpen, DialedApart, DrainAfterClose, NoOrphan
<1>8. DialsAccounted'
  <2>1. dialing + Cardinality(dialed) + dialErrs = drain
    BY Zenon, <1>2 DEF DialsAccounted
  <2>2. dialing + Cardinality(dialed') + dialErrs' = drain'
    BY SMTT(30), <1>1, <1>2, <1>4, <1>5, <2>1
  <2> QED  BY Zenon, <1>1, <1>2, <2>2 DEF DialsAccounted
<1>9. pooled' \in SUBSET pooled /\ \A c \in pooled' : IsAlive(c)' => IsAlive(c)
  BY Zenon, <1>1, <1>5 DEF IsAlive
<1>10. NoBarging'
  BY ZenonT(30), <1>1, <1>9 DEF NoBarging, NoneFree, HasRoom
<1>11. WithinHostLimit'
  <2>1. pooled \in SUBSET Conns /\ dials' \in Nat /\ dials' = dials
    BY Zenon, <1>1 DEF TypeOK
  <2> QED  BY Zenon, <1>9, <2>1, LimitKept DEF WithinHostLimit
<1> QED  BY Zenon, <1>6, <1>7, <1>8, <1>10, <1>11

LEMMA DialOneErrStep ==
  ASSUME IInv, DialOneErr
  PROVE  IInv'
<1> USE DEF IInv
<1>1. /\ dialing > 0 /\ dialing' = dialing - 1 /\ dialErrs' = dialErrs + 1
      /\ UNCHANGED <<pooled, active, streamCap, waiters, dials, backoff, status, drain>>
      /\ UNCHANGED <<dialed, peer, closed, peerCap, losses, pc, expired, reply, grant>>
  BY Zenon DEF DialOneErr, actorVars, connVars
<1>2. dialing' \in Nat /\ dialErrs' \in Nat
  BY <1>1 DEF TypeOK
<1>3. TypeOK'
  BY Zenon, <1>1, <1>2 DEF TypeOK
<1>4. OneReply' /\ GrantShape' /\ SlotsMatchGrants' /\ GrantedStaysOpen' /\ NoBarging'
      /\ DialedApart' /\ DrainAfterClose' /\ NoOrphan' /\ WithinHostLimit'
  BY <1>1 DEF OneReply, InQueue, GrantShape, SlotsMatchGrants, Holders, GrantedStaysOpen,
              NoBarging, NoneFree, HasRoom, IsAlive, DialedApart, DrainAfterClose, NoOrphan,
              WithinHostLimit, CountLive, Live
<1>5. DialsAccounted'
  <2>1. Cardinality(dialed) \in Nat /\ dialErrs \in Nat /\ dialing \in Nat
    BY Zenon, DialedFinite DEF TypeOK
  <2>2. dialing' + Cardinality(dialed) + dialErrs' = dialing + Cardinality(dialed) + dialErrs
    BY <1>1, <2>1
  <2> QED  BY Zenon, <1>1, <2>2 DEF DialsAccounted
<1> QED  BY Zenon, <1>3, <1>4, <1>5

LEMMA DialOneOkStep ==
  ASSUME IInv, NEW c \in Conns, NEW v \in PeerCaps, DialOneOk(c, v)
  PROVE  IInv'
<1> USE DEF IInv
<1>1. /\ dialing > 0 /\ Available(c) /\ dialing' = dialing - 1
      /\ dialed' = dialed \cup {c} /\ peer' = [peer EXCEPT ![c] = "alive"]
      /\ closed' = closed \ {c} /\ peerCap' = [peerCap EXCEPT ![c] = v]
      /\ active' = [active EXCEPT ![c] = 0]
      /\ UNCHANGED <<pooled, streamCap, waiters, dials, backoff, status, drain>>
      /\ UNCHANGED <<dialErrs, losses, pc, expired, reply, grant>>
  BY Zenon DEF DialOneOk
<1>2. c \notin pooled /\ c \notin dialed /\ \A k \in Callers : grant[k] # c
  BY Zenon, <1>1 DEF Available
<1>3. \A e \in Conns \ {c} : /\ peer'[e] = peer[e] /\ active'[e] = active[e]
                             /\ e \in closed' <=> e \in closed
  BY Zenon, <1>1 DEF TypeOK
<1>4. TypeOK'
  BY SMTT(30), <1>1 DEF TypeOK, PeerStates
<1>5. OneReply' /\ GrantShape' /\ DrainAfterClose' /\ DialedApart' /\ GrantedStaysOpen'
  BY SMTT(30), <1>1, <1>2 DEF OneReply, InQueue, GrantShape, DrainAfterClose, DialedApart,
                    GrantedStaysOpen
<1>6. SlotsMatchGrants'
  <2>1. Holders(c) = {} /\ \A e \in Conns : Holders(e)' = Holders(e)
    BY Zenon, <1>1, <1>2 DEF Holders
  <2>2. Cardinality(Holders(c)) = 0
    BY <2>1, FS_EmptySet, ZenonT(30)
  <2>3. active'[c] = 0
    BY Zenon, <1>1 DEF TypeOK
  <2> QED  BY Zenon, <1>1, <1>3, <2>1, <2>2, <2>3 DEF SlotsMatchGrants
<1>7. \A e \in pooled : e # c /\ e \in Conns /\ (IsAlive(e)' <=> IsAlive(e))
  BY ZenonT(30), <1>2, <1>3 DEF IsAlive, TypeOK
<1>8. NoBarging'
  BY Zenon, <1>1, <1>3, <1>7 DEF NoBarging, NoneFree, HasRoom
<1>9. NoOrphan'
  BY Zenon, <1>1, <1>3 DEF NoOrphan
<1>10. DialsAccounted'
  <2>1. /\ Cardinality(dialed) \in Nat /\ IsFiniteSet(dialed)
        /\ dialErrs \in Nat /\ dialing \in Nat
    BY Zenon, DialedFinite DEF TypeOK
  <2>2. Cardinality(dialed \cup {c}) = Cardinality(dialed) + 1
    BY Zenon, <1>2, <2>1, FS_AddElement
  <2>3. Cardinality(dialed') = Cardinality(dialed) + 1
    BY <1>1, <2>2, ZenonT(30)
  <2>4. dialing' + Cardinality(dialed') + dialErrs' = dialing + Cardinality(dialed) + dialErrs
    BY SMTT(30), <1>1, <2>1, <2>3
  <2> QED  BY Zenon, <1>1, <2>4 DEF DialsAccounted
<1>11. WithinHostLimit'
  <2>1. pooled' \in SUBSET pooled /\ \A e \in pooled' : IsAlive(e)' => IsAlive(e)
    BY Zenon, <1>1, <1>7
  <2>2. pooled \in SUBSET Conns /\ dials' \in Nat /\ dials' = dials
    BY Zenon, <1>1 DEF TypeOK
  <2> QED  BY Zenon, <2>1, <2>2, LimitKept DEF WithinHostLimit
<1> QED  BY Zenon, <1>4, <1>5, <1>6, <1>8, <1>9, <1>10, <1>11

LEMMA StutterStep ==
  ASSUME IInv, UNCHANGED vars
  PROVE  IInv'
BY DEF IInv, vars, TypeOK, OneReply, InQueue, GrantShape, SlotsMatchGrants, Holders,
       GrantedStaysOpen, NoBarging, NoneFree, HasRoom, IsAlive, DialsAccounted,
       WithinHostLimit, CountLive, Live, DialedApart, DrainAfterClose, NoOrphan

LEMMA NextStep ==
  ASSUME IInv, [Next]_vars
  PROVE  IInv'
<1>1. CASE Actor
  BY Zenon, <1>1, HandleAcquireStep, HandleReleaseStep, HandleDialOkStep, HandleDialErrStep,
     HandleStatsStep, HandleTickStep, HandleCloseStep, HandleWarmupStep DEF Actor
<1>2. CASE Close \/ DrainDial \/ DialOneErr
  BY Zenon, <1>2, CloseStep, DrainDialStep, DialOneErrStep
<1>3. CASE \E c \in Conns, v \in PeerCaps : DialOneOk(c, v)
  BY Zenon, <1>3, DialOneOkStep
<1>4. CASE \/ \E c \in Conns, how \in {"goaway", "dead"} : ConnLost(c, how)
           \/ \E c \in Conns, v \in PeerCaps : PeerSettings(c, v)
           \/ BackoffEnds
  BY Zenon, <1>4, EnvironmentSteps
<1>5. CASE \E k \in Callers : \/ TakeReply(k) \/ Expire(k) \/ Abandon(k)
                              \/ Reclaim(k) \/ Release(k)
  BY Zenon, <1>5, CallerSteps
<1>6. CASE \E k \in Callers : ReleaseClosed(k)
  BY Zenon, <1>6, ReleaseClosedStep
<1>7. CASE UNCHANGED vars
  BY Zenon, <1>7, StutterStep
<1> QED  BY Zenon, <1>1, <1>2, <1>3, <1>4, <1>5, <1>6, <1>7 DEF Next
-----------------------------------------------------------------------------
(* The theorems.                                                           *)

\* IInv holds in every reachable state of the pool.
THEOREM Invariance == Spec => []IInv
<1>1. IInv /\ [Next]_vars => IInv'
  BY Zenon, NextStep
<1> QED  BY <1>1, InitIInv, PTL DEF Spec

\* The actor's state, the channels and the goroutines keep their types.
THEOREM TypeCorrect == Spec => []TypeOK
<1>1. IInv => TypeOK
  BY Zenon DEF IInv
<1> QED  BY <1>1, Invariance, PTL

\* No stream slot is leaked or freed twice: ManagedConn.Active always equals the
\* number of acquires that hold a slot, abandoned and reclaimed ones included
\* (handleAcquire, serveWaiters, reclaim, HandleRelease).
THEOREM SlotAccounting == Spec => []SlotsMatchGrants
<1>1. IInv => SlotsMatchGrants
  BY Zenon DEF IInv
<1> QED  BY <1>1, Invariance, PTL

\* No eviction (evictDead, evictDeadSilent, EvictIdle, HandleRelease) removes or
\* closes a connection on which some caller still has a slot.
THEOREM GrantsStayOpen == Spec => []GrantedStaysOpen
<1>1. IInv => GrantedStaysOpen
  BY Zenon DEF IInv
<1> QED  BY <1>1, Invariance, PTL

\* Each acquire the actor accepted is queued or has its single answer, so the
\* reply channel of capacity 1 never blocks the actor (replyAcquire).
THEOREM ExactlyOneReply == Spec => []OneReply
<1>1. IInv => OneReply
  BY Zenon DEF IInv
<1> QED  BY <1>1, Invariance, PTL

\* handleAcquire needs no look at the queue: no fresh request overtakes a waiter.
THEOREM NoOvertaking == Spec => []NoBarging
<1>1. IInv => NoBarging
  BY Zenon DEF IInv
<1> QED  BY <1>1, Invariance, PTL

\* The three places that dial share one budget of MaxConnsPerHost, and every
\* dial is accounted for until its result is consumed.
THEOREM DialBudget == Spec => [](WithinHostLimit /\ DialsAccounted)
<1>1. IInv => WithinHostLimit /\ DialsAccounted
  BY Zenon DEF IInv
<1> QED  BY <1>1, Invariance, PTL

\* No dialled connection is lost track of, also when Close races its dial.
THEOREM NoConnectionOrphaned == Spec => []NoOrphan
<1>1. IInv => NoOrphan
  BY Zenon DEF IInv
<1> QED  BY <1>1, Invariance, PTL
=============================================================================
