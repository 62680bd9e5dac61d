---------------------------- MODULE H1PoolProofs ----------------------------
(***************************************************************************)
(* The HTTP/1.1 pool keeps its limit, strands nobody and gives every       *)
(* connection to one user at a time, for any number of callers and         *)
(* connections and any limit; and it implements Lease: whatever the actor, *)
(* the sweep and the callers do in one step moves each connection the way  *)
(* the contract allows.                                                    *)
(***************************************************************************)
EXTENDS H1PoolActor

-----------------------------------------------------------------------------
(* Handlers and steps that leave the queue's order alone.                  *)

LEMMA HandleAcquireKeeps ==
  ASSUME IInv, NEW k \in Callers, HandleAcquire(k)
  PROVE  IInv'
<1> DEFINE idle == Idle(pooled, active, probing)
<1>1. /\ status # "closed" /\ pc[k] \in {"idle", "retry"}
      /\ pc' = [pc EXCEPT ![k] = "waiting"]
      /\ UNCHANGED <<pooled, probing, sweep, unprobed, failed, backoff, status, drain, dialed,
                     dialErrs, returned, socket, closed, spoils, tries, expired>>
  BY Zenon DEF HandleAcquire, sweepVars, socketVars
<1>2. OpenShape
  BY Zenon, <1>1, OpenFacts
<1>3. /\ drain = 0 /\ dials \in Nat /\ dialing \in Nat /\ dialErrs \in Nat
      /\ Cardinality(dialed) \in Nat
      /\ dials = dialing + Cardinality(dialed) + dialErrs
      /\ CountLive(pooled) \in Nat /\ CountLive(pooled) + dials <= MaxConnsPerHost
  BY Zenon, <1>1, OpenDials
<1>4. ~InQueue(k, waiters) /\ reply[k] = "none" /\ grant[k] = NoConn
  <2>1. pc[k] \notin {"waiting", "reclaiming"} /\ pc[k] \notin {"checking", "holding"}
    BY Zenon, <1>1
  <2>2. ~InQueue(k, waiters) /\ reply[k] = "none"
    BY Zenon, <2>1 DEF IInv, QueueShape
  <2>3. grant[k] # NoConn => pc[k] \in {"checking", "holding"} \/ reply[k] = "conn"
    BY Zenon DEF IInv, GrantShape
  <2> QED  BY Zenon, <2>1, <2>2, <2>3
<1>5. /\ waiters \in Seq(Callers) /\ reply \in [Callers -> Replies]
      /\ grant \in [Callers -> Conns \cup {NoConn}]
      /\ pc \in [Callers -> {"idle", "waiting", "reclaiming", "checking", "retry", "holding"}]
  BY Zenon DEF IInv, TypeOK
<1>6. pc' \in [Callers -> {"idle", "waiting", "reclaiming", "checking", "retry", "holding"}]
      /\ pc'[k] = "waiting" /\ \A j \in Callers : j # k => pc'[j] = pc[j]
  BY Zenon, <1>1, <1>5
<1>7. CountLive(pooled)' = CountLive(pooled)
  BY Zenon, <1>1, CountSame
\* Three ways to end: a connection, a refusal, a place in the queue.
<1> DEFINE Given(c)  == /\ c \in idle
                        /\ active' = [active EXCEPT ![c] = @ + 1]
                        /\ reply' = [reply EXCEPT ![k] = "conn"]
                        /\ grant' = [grant EXCEPT ![k] = c]
                        /\ UNCHANGED <<waiters, dials, dialing>>
           Refusal   == /\ reply' = [reply EXCEPT ![k] = "dialBackoff"]
                        /\ UNCHANGED <<active, grant, waiters, dials, dialing>>
           Enqueued  == /\ waiters' = Append(waiters, k)
                        /\ UNCHANGED <<active, reply, grant>>
                        /\ dials' \in Nat /\ dialing' - dialing = dials' - dials /\ dialing' \in Nat
                        /\ CountLive(pooled) + dials' <= MaxConnsPerHost
                        /\ CountLive(pooled) + dials' > 0
<1>8. (\E c \in Conns : Given(c)) \/ Refusal \/ Enqueued
  <2> DEFINE reserved == CountReservedIdle(pooled, active, probing)
             live     == CountLive(pooled)
             atCap    == live + dials >= MaxConnsPerHost
             awaits   == Len(waiters) < reserved
             refuse   == backoff /\ live = 0 /\ dials = 0
  <2>1. \/ \E c \in idle : Given(c)
        \/ /\ ~atCap /\ dials' = dials + 1 /\ dialing' = dialing + 1
           /\ waiters' = Append(waiters, k) /\ UNCHANGED <<active, reply, grant>>
        \/ Refusal
        \/ /\ awaits \/ ((atCap \/ backoff) /\ ~refuse)
           /\ waiters' = Append(waiters, k)
           /\ UNCHANGED <<active, reply, grant, dials, dialing>>
    BY Zenon DEF HandleAcquire
  <2>2. idle \subseteq Conns
    BY Zenon, <1>2 DEF Idle, OpenShape
  <2>3. live \in Nat /\ reserved \in Nat /\ reserved <= live /\ MaxConnsPerHost \in Nat \ {0}
    BY Zenon, <1>2, <1>3, ReservedAreLive, H1PoolAssumption DEF OpenShape
  <2>4. Len(waiters) \in Nat
    BY <1>5
  <2> HIDE DEF idle, live, reserved
  <2>5. CASE /\ ~atCap /\ dials' = dials + 1 /\ dialing' = dialing + 1
             /\ waiters' = Append(waiters, k) /\ UNCHANGED <<active, reply, grant>>
    <3>1. /\ dials' \in Nat /\ dialing' - dialing = dials' - dials /\ dialing' \in Nat
          /\ live + dials' <= MaxConnsPerHost /\ live + dials' > 0
      <4>1. ~(live + dials >= MaxConnsPerHost) /\ dials' = dials + 1 /\ dialing' = dialing + 1
        BY Zenon, <2>5
      <4>2. dials \in Nat /\ dialing \in Nat
        BY Zenon, <1>3
      <4> QED  BY <2>3, <4>1, <4>2
    <3> QED  BY Zenon, <2>5, <3>1 DEF live
  <2>6. CASE /\ awaits \/ ((atCap \/ backoff) /\ ~refuse)
             /\ waiters' = Append(waiters, k)
             /\ UNCHANGED <<active, reply, grant, dials, dialing>>
    <3>1. awaits \/ atCap \/ ~(live = 0 /\ dials = 0)
      BY Zenon, <2>6
    <3>2. live + dials > 0
      <4>1. dials \in Nat
        BY Zenon, <1>3
      <4> QED  BY <2>3, <2>4, <3>1, <4>1
    <3>3. dials' = dials /\ dialing' = dialing
      BY Zenon, <2>6
    <3>4. /\ dials' \in Nat /\ dialing' - dialing = dials' - dials /\ dialing' \in Nat
          /\ live + dials' > 0
      BY <1>3, <3>2, <3>3
    <3>5. CountLive(pooled) + dials' <= MaxConnsPerHost
      BY Zenon, <1>3, <3>3
    <3> QED  BY Zenon, <2>6, <3>4, <3>5 DEF live
  <2> QED  BY Zenon, <2>1, <2>2, <2>5, <2>6
<1> HIDE DEF idle
<1>9. /\ \A j \in Callers : j # k =>
           /\ InQueue(j, waiters) => pc[j] \in {"waiting", "reclaiming"} /\ reply[j] = "none"
           /\ reply[j] # "none" => pc[j] \in {"waiting", "reclaiming"}
           /\ grant[j] # NoConn <=> pc[j] \in {"checking", "holding"} \/ reply[j] = "conn"
      /\ \A i, j \in Callers : grant[i] = grant[j] /\ grant[j] # NoConn => i = j
      /\ \A c \in dialed : c \notin pooled \cup closed /\ returned[c] = "none"
                           /\ \A j \in Callers : grant[j] # c
      /\ backoff /\ waiters # <<>> => CountLive(pooled) + dials > 0
  BY Zenon, <1>1 DEF IInv, QueueShape, GrantShape, OneHolder, DialedFresh, NobodyStranded
<1>10. ASSUME NEW c \in Conns, Given(c) PROVE IInv'
  <2>1. /\ c \in pooled /\ IsAlive(c) /\ c \notin probing /\ active[c] = 0 /\ c # NoConn
        /\ c \notin dialed
    BY <1>2, <1>10, H1PoolAssumption DEF idle, Idle, OpenShape
  <2>2. returned[c] = "none" /\ \A j \in Callers : grant[j] # c
    BY <1>2, <2>1 DEF OpenShape
  <2>3. /\ active' \in [Conns -> Nat] /\ active'[c] = 1
        /\ \A e \in Conns : e # c => active'[e] = active[e]
    BY <1>2, <1>10, <2>1 DEF OpenShape
  <2>4. /\ reply' \in [Callers -> Replies] /\ reply'[k] = "conn"
        /\ \A j \in Callers : j # k => reply'[j] = reply[j]
    BY Zenon, <1>5, <1>10 DEF Replies
  <2>5. /\ grant' \in [Callers -> Conns \cup {NoConn}] /\ grant'[k] = c
        /\ \A j \in Callers : j # k => grant'[j] = grant[j]
    BY Zenon, <1>5, <1>10
  <2>6. waiters' = waiters /\ dials' = dials /\ dialing' = dialing
    BY Zenon, <1>10
  <2>7. TypeOK' /\ QueueDistinct'
    <3>1. TypeOK'
      BY Zenon, <1>1, <1>6, <2>3, <2>4, <2>5, <2>6 DEF IInv, TypeOK
    <3>2. QueueDistinct'
      BY Zenon, <2>6 DEF IInv, QueueDistinct
    <3> QED  BY Zenon, <3>1, <3>2
  <2>8. QueueShape'
    <3>1. \A j \in Callers : InQueue(j, waiters)' <=> InQueue(j, waiters)
      BY Zenon, <2>6 DEF InQueue
    <3> QED  BY ZenonT(60), <1>4, <1>6, <1>9, <2>4, <3>1 DEF QueueShape
  <2>9. GrantShape' /\ OneHolder'
    <3>1. ASSUME NEW j \in Callers
          PROVE  grant'[j] # NoConn <=> pc'[j] \in {"checking", "holding"} \/ reply'[j] = "conn"
      <4>1. CASE j = k
        <5>1. grant'[k] # NoConn /\ reply'[k] = "conn"
          BY Zenon, <2>1, <2>4, <2>5
        <5> QED  BY Zenon, <4>1, <5>1
      <4>2. CASE j # k
        <5>1. pc'[j] = pc[j] /\ reply'[j] = reply[j] /\ grant'[j] = grant[j]
          BY Zenon, <1>6, <2>4, <2>5, <4>2
        <5>2. grant[j] # NoConn <=> pc[j] \in {"checking", "holding"} \/ reply[j] = "conn"
          BY Zenon, <1>9, <4>2
        <5> QED  BY Zenon, <5>1, <5>2
      <4> QED  BY Zenon, <4>1, <4>2
    <3>2. ASSUME NEW i \in Callers, NEW j \in Callers, grant'[i] = grant'[j], grant'[j] # NoConn
          PROVE  i = j
      <4>1. CASE i = k \/ j = k
        <5>1. grant'[i] = c /\ grant'[j] = c
          BY Zenon, <2>5, <3>2, <4>1
        <5>2. \A l \in Callers : l # k => grant'[l] # c
          BY Zenon, <2>2, <2>5
        <5> QED  BY Zenon, <5>1, <5>2
      <4>2. CASE i # k /\ j # k
        <5>1. grant[i] = grant[j] /\ grant[j] # NoConn
          BY Zenon, <2>5, <3>2, <4>2
        <5> QED  BY Zenon, <1>9, <5>1
      <4> QED  BY Zenon, <4>1, <4>2
    <3> QED  BY Zenon, <3>1, <3>2 DEF GrantShape, OneHolder
  <2>10. HandedBack' /\ Committed'
    <3>1. returned' = returned /\ pooled' = pooled
      BY Zenon, <1>1
    <3>2. HandedBack'
      <4> SUFFICES ASSUME NEW e \in Conns, returned[e] # "none", NEW j \in Callers
                   PROVE  grant'[j] # e
        BY Zenon, <3>1 DEF HandedBack
      <4>1. grant[j] # e /\ e # c
        BY Zenon, <1>2, <2>2 DEF OpenShape
      <4> QED  BY Zenon, <2>5, <4>1
    <3>3. ASSUME NEW e \in Conns, e # c, (\E j \in Callers : grant'[j] = e) \/ returned[e] # "none"
          PROVE  e \in pooled /\ active'[e] = 1
      <4>1. (\E j \in Callers : grant[j] = e /\ grant[j] # NoConn) \/ returned[e] # "none"
        BY Zenon, H1PoolAssumption, <2>5, <3>3
      <4>2. e \in pooled /\ active[e] = 1
        <5>1. CASE returned[e] # "none"
          BY Zenon, <1>2, <5>1 DEF OpenShape
        <5>2. CASE \E j \in Callers : grant[j] = e /\ grant[j] # NoConn
          <6>1. PICK j \in Callers : grant[j] = e /\ grant[j] # NoConn
            BY Zenon, <5>2
          <6>2. grant[j] \in pooled /\ active[grant[j]] = 1
            BY Zenon, <1>2, <6>1 DEF OpenShape
          <6> QED  BY Zenon, <6>1, <6>2
        <5> QED  BY Zenon, <4>1, <5>1, <5>2
      <4> QED  BY Zenon, <2>3, <3>3, <4>2
    <3> QED  BY Zenon, <2>1, <2>3, <3>1, <3>2, <3>3 DEF Committed
  <2>11. PooledOpen' /\ DialedFresh'
    <3>1. UNCHANGED <<pooled, dialed, socket, status, closed, returned>>
      BY Zenon, <1>1
    <3>2. PooledOpen'
      BY Zenon, <1>1, <1>2, <3>1 DEF PooledOpen, OpenShape
    <3>3. DialedFresh'
      <4>1. ASSUME NEW e \in dialed, NEW j \in Callers PROVE grant'[j] # e
        <5>1. grant[j] # e /\ e # c
          BY Zenon, <1>9, <2>1
        <5> QED  BY Zenon, <2>5, <5>1
      <4> QED  BY Zenon, <1>9, <3>1, <4>1 DEF DialedFresh
    <3> QED  BY Zenon, <3>2, <3>3
  <2>12. SweepShape'
    <3>1. UNCHANGED <<pooled, probing, unprobed, failed, sweep>>
      BY Zenon, <1>1
    <3>2. \A e \in probing : active'[e] = 0
      BY <1>2, <2>1, <2>3 DEF OpenShape
    <3> QED  BY Zenon, <1>2, <3>1, <3>2 DEF SweepShape, OpenShape
  <2>13. DialsAccounted' /\ WithinLimit'
    <3>1. UNCHANGED <<status, drain, dialing, dialed, dialErrs, dials>>
      BY Zenon, <1>1, <2>6
    <3> QED  BY Zenon, <1>1, <1>3, <1>7, <3>1 DEF DialsAccounted, WithinLimit
  <2>14. NobodyStranded'
    <3>1. CountLive(pooled) > 0
      BY Zenon, <1>2, <2>1, SomeLive DEF OpenShape
    <3>2. CountLive(pooled)' + dials' > 0
      BY <1>3, <1>7, <2>6, <3>1
    <3> QED  BY Zenon, <3>2 DEF NobodyStranded
  <2> QED  BY Zenon, <2>7, <2>8, <2>9, <2>10, <2>11, <2>12, <2>13, <2>14 DEF IInv
\* The other two leave the commitments alone.
<1>11. ASSUME UNCHANGED <<active, grant>> PROVE
         OneHolder' /\ HandedBack' /\ Committed' /\ PooledOpen' /\ DialedFresh' /\ SweepShape'
  <2>1. UNCHANGED <<pooled, active, grant, returned, status, closed, socket, dialed, probing,
                    unprobed, failed, sweep>> /\ status # "closed"
    BY Zenon, <1>1, <1>11
  <2>2. OneHolder' /\ HandedBack' /\ Committed'
    BY Zenon, <2>1 DEF IInv, OneHolder, HandedBack, Committed
  <2>3. DialedFresh' /\ SweepShape'
    BY Zenon, <2>1 DEF IInv, DialedFresh, SweepShape
  <2>4. PooledOpen'
    BY Zenon, <1>2, <2>1 DEF PooledOpen, OpenShape
  <2> QED  BY Zenon, <2>2, <2>3, <2>4
<1>12. ASSUME Refusal PROVE IInv'
  <2>1. /\ reply' \in [Callers -> Replies] /\ reply'[k] = "dialBackoff"
        /\ \A j \in Callers : j # k => reply'[j] = reply[j]
    BY Zenon, <1>5, <1>12 DEF Replies
  <2>2. UNCHANGED <<active, grant, waiters, dials, dialing>>
    BY Zenon, <1>12
  <2>3. OneHolder' /\ HandedBack' /\ Committed' /\ PooledOpen' /\ DialedFresh' /\ SweepShape'
    BY Zenon, <1>11, <2>2
  <2>4. TypeOK' /\ QueueDistinct'
    <3>1. TypeOK'
      BY Zenon, <1>1, <1>6, <2>1, <2>2 DEF IInv, TypeOK
    <3>2. QueueDistinct'
      BY Zenon, <2>2 DEF IInv, QueueDistinct
    <3> QED  BY Zenon, <3>1, <3>2
  <2>5. QueueShape'
    <3>1. \A j \in Callers : InQueue(j, waiters)' <=> InQueue(j, waiters)
      BY Zenon, <2>2 DEF InQueue
    <3> QED  BY ZenonT(60), <1>4, <1>6, <1>9, <2>1, <3>1 DEF QueueShape
  <2>6. GrantShape'
    <3>1. ~(pc'[k] \in {"checking", "holding"} \/ reply'[k] = "conn")
      BY Zenon, <1>6, <2>1
    <3>2. ASSUME NEW j \in Callers
          PROVE  grant'[j] # NoConn <=> pc'[j] \in {"checking", "holding"} \/ reply'[j] = "conn"
      <4>1. grant' = grant
        BY Zenon, <2>2
      <4>2. CASE j = k
        BY Zenon, <1>4, <3>1, <4>1, <4>2
      <4>3. CASE j # k
        <5>1. pc'[j] = pc[j] /\ reply'[j] = reply[j] /\ grant'[j] = grant[j]
          BY Zenon, <1>6, <2>1, <4>1, <4>3
        <5>2. grant[j] # NoConn <=> pc[j] \in {"checking", "holding"} \/ reply[j] = "conn"
          BY Zenon, <1>9, <4>3
        <5> QED  BY Zenon, <5>1, <5>2
      <4> QED  BY Zenon, <4>2, <4>3
    <3> QED  BY Zenon, <3>2 DEF GrantShape
  <2>7. DialsAccounted' /\ WithinLimit' /\ NobodyStranded'
    <3>1. UNCHANGED <<status, drain, dialing, dialed, dialErrs, dials, backoff, waiters>>
      BY Zenon, <1>1, <2>2
    <3>2. DialsAccounted' /\ WithinLimit'
      BY Zenon, <1>1, <1>3, <1>7, <3>1 DEF DialsAccounted, WithinLimit
    <3>3. NobodyStranded'
      BY Zenon, <1>7, <1>9, <3>1 DEF NobodyStranded
    <3> QED  BY Zenon, <3>2, <3>3
  <2> QED  BY Zenon, <2>3, <2>4, <2>5, <2>6, <2>7 DEF IInv
<1>13. ASSUME Enqueued PROVE IInv'
  <2>1. /\ waiters' = Append(waiters, k) /\ UNCHANGED <<active, reply, grant>>
        /\ dials' \in Nat /\ dialing' - dialing = dials' - dials /\ dialing' \in Nat
        /\ CountLive(pooled) + dials' <= MaxConnsPerHost
        /\ CountLive(pooled) + dials' > 0
    BY Zenon, <1>13
  <2>2. OneHolder' /\ HandedBack' /\ Committed' /\ PooledOpen' /\ DialedFresh' /\ SweepShape'
    BY Zenon, <1>11, <2>1
  <2>3. /\ waiters' \in Seq(Callers) /\ Len(waiters') = Len(waiters) + 1 /\ Len(waiters) \in Nat
        /\ \A i \in 1..Len(waiters) : waiters'[i] = waiters[i] /\ waiters[i] # k
        /\ waiters'[Len(waiters) + 1] = k
    BY <1>4, <1>5, <2>1 DEF InQueue
  <2>4. TypeOK'
    BY Zenon, <1>1, <1>6, <2>1, <2>3 DEF IInv, TypeOK
  <2>5. QueueDistinct'
    <3> SUFFICES ASSUME NEW i \in 1..Len(waiters'), NEW j \in 1..Len(waiters'),
                        waiters'[i] = waiters'[j]
                 PROVE  i = j
      BY Zenon DEF QueueDistinct
    <3>1. CASE i \in 1..Len(waiters) /\ j \in 1..Len(waiters)
      BY Zenon, <2>3, <3>1 DEF IInv, QueueDistinct
    <3>2. CASE ~(i \in 1..Len(waiters) /\ j \in 1..Len(waiters))
      BY <2>3, <3>2
    <3> QED  BY Zenon, <3>1, <3>2
  <2>6. \A j \in Callers : j # k => (InQueue(j, waiters)' => InQueue(j, waiters))
    <3> SUFFICES ASSUME NEW j \in Callers, j # k, NEW i \in 1..Len(waiters'), waiters'[i] = j
                 PROVE  \E m \in 1..Len(waiters) : waiters[m] = j
      BY Zenon DEF InQueue
    <3> QED  BY <2>3
  <2>7. QueueShape'
    BY Zenon, <1>4, <1>6, <1>9, <2>1, <2>6 DEF QueueShape
  <2>8. GrantShape'
    <3>1. ~(pc'[k] \in {"checking", "holding"} \/ reply'[k] = "conn")
      BY Zenon, <1>4, <1>6, <2>1
    <3> QED  BY Zenon, <1>4, <1>6, <1>9, <2>1, <3>1 DEF GrantShape
  <2>9. dials' = dialing' + Cardinality(dialed) + dialErrs
    <3>1. dialing' - dialing = dials' - dials /\ dials' \in Nat /\ dialing' \in Nat
      BY Zenon, <2>1
    <3> QED  BY <1>3, <3>1
  <2>10. DialsAccounted'
    <3>1. UNCHANGED <<status, drain, dialed, dialErrs>>
      BY Zenon, <1>1
    <3> QED  BY Zenon, <1>1, <1>3, <2>9, <3>1 DEF DialsAccounted
  <2>11. WithinLimit' /\ NobodyStranded'
    BY Zenon, <1>7, <2>1 DEF WithinLimit, NobodyStranded
  <2> QED  BY Zenon, <2>2, <2>4, <2>5, <2>7, <2>8, <2>10, <2>11 DEF IInv
<1> HIDE DEF Given, Refusal, Enqueued
<1> QED  BY Zenon, <1>8, <1>10, <1>12, <1>13
-----------------------------------------------------------------------------
(* Callers.                                                                *)

\* What a step of caller k leaves alone, and what it makes of k itself.
CallerStep(k) ==
  /\ UNCHANGED <<actorVars, sweepVars, status, drain, dialVars, socket, spoils, closed>>
  /\ pc' \in [Callers -> {"idle", "waiting", "reclaiming", "checking", "retry", "holding"}]
  /\ reply' \in [Callers -> Replies] /\ tries' \in [Callers -> Nat]
  /\ expired' \in SUBSET Callers
  /\ \A j \in Callers : j # k => pc'[j] = pc[j] /\ reply'[j] = reply[j]
  /\ InQueue(k, waiters) => pc'[k] \in {"waiting", "reclaiming"} /\ reply'[k] = "none"
  /\ reply'[k] # "none" => pc'[k] \in {"waiting", "reclaiming"}
  /\ grant'[k] # NoConn <=> pc'[k] \in {"checking", "holding"} \/ reply'[k] = "conn"

\* k hands back what was committed to it.
Returns(k) ==
  /\ grant[k] \in Conns
  /\ grant' \in [Callers -> Conns \cup {NoConn}] /\ grant'[k] = NoConn
  /\ \A j \in Callers : j # k => grant'[j] = grant[j]
  /\ returned' \in [Conns -> {"none", "keep", "drop"}]
  /\ \A c \in Conns : c # grant[k] => returned'[c] = returned[c]

LEMMA SendReleaseReturns ==
  ASSUME IInv, NEW k \in Callers, NEW v \in {"keep", "drop"}, grant[k] # NoConn,
         SendRelease(k, v)
  PROVE  Returns(k) /\ closed' = closed
<1>1. /\ grant \in [Callers -> Conns \cup {NoConn}] /\ grant[k] \in Conns
      /\ returned \in [Conns -> {"none", "keep", "drop"}]
  BY Zenon DEF IInv, TypeOK
<1>2. /\ grant' = [grant EXCEPT ![k] = NoConn]
      /\ \/ returned' = [returned EXCEPT ![grant[k]] = v] /\ closed' = closed
         \/ status = "closed" /\ closed' = closed \cup {grant[k]} /\ returned' = returned
  BY Zenon DEF SendRelease
<1>3. closed' = closed
  <2>1. status = "closed" => grant[k] \in closed
    BY Zenon DEF IInv, PooledOpen
  <2> QED  BY Zenon, <1>2, <2>1
<1>4. /\ grant' \in [Callers -> Conns \cup {NoConn}] /\ grant'[k] = NoConn
      /\ \A j \in Callers : j # k => grant'[j] = grant[j]
  BY Zenon, <1>1, <1>2
<1>5. /\ returned' \in [Conns -> {"none", "keep", "drop"}]
      /\ \A c \in Conns : c # grant[k] => returned'[c] = returned[c]
  BY Zenon, <1>1, <1>2
<1> QED  BY Zenon, <1>1, <1>3, <1>4, <1>5 DEF Returns

LEMMA CallerStepIInv ==
  ASSUME IInv, NEW k \in Callers, CallerStep(k),
         UNCHANGED <<grant, returned>> \/ Returns(k)
  PROVE  IInv'
<1>1. /\ pooled' = pooled /\ active' = active /\ probing' = probing /\ sweep' = sweep
      /\ waiters' = waiters /\ dials' = dials /\ backoff' = backoff
      /\ unprobed' = unprobed /\ failed' = failed /\ status' = status /\ drain' = drain
      /\ dialing' = dialing /\ dialed' = dialed /\ dialErrs' = dialErrs
      /\ socket' = socket /\ spoils' = spoils /\ closed' = closed
  BY Zenon DEF CallerStep, actorVars, sweepVars, dialVars
<1>2. /\ grant \in [Callers -> Conns \cup {NoConn}]
      /\ returned \in [Conns -> {"none", "keep", "drop"}]
  BY Zenon DEF IInv, TypeOK
<1>3. /\ grant' \in [Callers -> Conns \cup {NoConn}]
      /\ returned' \in [Conns -> {"none", "keep", "drop"}]
      /\ \A j \in Callers : j # k => grant'[j] = grant[j]
      /\ grant'[k] \in {grant[k], NoConn}
  BY Zenon, <1>2 DEF Returns
<1>4. \A j \in Callers : grant'[j] # NoConn => grant'[j] = grant[j]
  BY Zenon, <1>3
<1>5. \A c \in Conns : returned'[c] # "none" =>
        /\ returned[c] # "none" \/ c = grant[k]
        /\ c = grant[k] => UNCHANGED <<grant, returned>> \/ grant'[k] = NoConn
  BY Zenon DEF Returns
<1>6. TypeOK'
  BY Zenon, <1>1, <1>3 DEF IInv, TypeOK, CallerStep
<1>7. QueueDistinct' /\ QueueShape'
  <2>1. \A j \in Callers : InQueue(j, waiters)' <=> InQueue(j, waiters)
    BY Zenon, <1>1 DEF InQueue
  <2>2. ASSUME NEW j \in Callers
        PROVE  /\ InQueue(j, waiters) => pc'[j] \in {"waiting", "reclaiming"} /\ reply'[j] = "none"
               /\ reply'[j] # "none" => pc'[j] \in {"waiting", "reclaiming"}
    <3>1. CASE j = k
      BY Zenon, <3>1 DEF CallerStep
    <3>2. CASE j # k
      <4>1. pc'[j] = pc[j] /\ reply'[j] = reply[j]
        BY Zenon, <3>2 DEF CallerStep
      <4>2. /\ InQueue(j, waiters) => pc[j] \in {"waiting", "reclaiming"} /\ reply[j] = "none"
            /\ reply[j] # "none" => pc[j] \in {"waiting", "reclaiming"}
        BY Zenon DEF IInv, QueueShape
      <4> QED  BY Zenon, <4>1, <4>2
    <3> QED  BY Zenon, <3>1, <3>2
  <2>3. QueueShape'
    BY Zenon, <2>1, <2>2 DEF QueueShape
  <2> QED  BY Zenon, <1>1, <2>3 DEF IInv, QueueDistinct
<1>8. GrantShape'
  <2>1. ASSUME NEW j \in Callers
        PROVE  grant'[j] # NoConn <=> pc'[j] \in {"checking", "holding"} \/ reply'[j] = "conn"
    <3>1. CASE j = k
      BY Zenon, <3>1 DEF CallerStep
    <3>2. CASE j # k
      <4>1. pc'[j] = pc[j] /\ reply'[j] = reply[j] /\ grant'[j] = grant[j]
        BY Zenon, <1>3, <3>2 DEF CallerStep
      <4>2. grant[j] # NoConn <=> pc[j] \in {"checking", "holding"} \/ reply[j] = "conn"
        BY Zenon DEF IInv, GrantShape
      <4> QED  BY Zenon, <4>1, <4>2
    <3> QED  BY Zenon, <3>1, <3>2
  <2> QED  BY Zenon, <2>1 DEF GrantShape
<1>9. OneHolder'
  <2>1. \A i, j \in Callers : grant[i] = grant[j] /\ grant[j] # NoConn => i = j
    BY Zenon DEF IInv, OneHolder
  <2>2. \A i, j \in Callers : grant'[i] = grant'[j] /\ grant'[j] # NoConn => i = j
    BY Zenon, <1>4, <2>1
  <2> QED  BY Zenon, <2>2 DEF OneHolder
<1>10. HandedBack'
  <2> SUFFICES ASSUME NEW c \in Conns, returned'[c] # "none", NEW j \in Callers, grant'[j] = c
               PROVE  FALSE
    BY Zenon DEF HandedBack
  <2>1. c # NoConn /\ grant[j] = c
    BY Zenon, <1>4, H1PoolAssumption
  <2>2. returned[c] = "none"
    BY Zenon, <2>1 DEF IInv, HandedBack
  <2>3. c = grant[k] /\ ~UNCHANGED <<grant, returned>>
    BY Zenon, <1>5, <2>2
  <2>4. j = k
    BY Zenon, <2>1, <2>3 DEF IInv, OneHolder
  <2> QED  BY Zenon, <1>5, <2>1, <2>3, <2>4
<1>11. Committed'
  <2> SUFFICES ASSUME status # "closed", NEW c \in Conns,
                      (\E j \in Callers : grant'[j] = c) \/ returned'[c] # "none"
               PROVE  c \in pooled /\ active[c] = 1
    BY Zenon, <1>1 DEF Committed
  <2>1. (\E j \in Callers : grant[j] = c) \/ returned[c] # "none"
    <3>1. CASE \E j \in Callers : grant'[j] = c
      BY Zenon, <1>4, <3>1, H1PoolAssumption
    <3>2. CASE returned'[c] # "none"
      BY Zenon, <1>5, <3>2
    <3> QED  BY Zenon, <3>1, <3>2
  <2> QED  BY Zenon, <2>1 DEF IInv, Committed
<1>12. PooledOpen'
  <2>1. \A j \in Callers : grant'[j] # NoConn => grant[j] # NoConn /\ grant'[j] = grant[j]
    BY Zenon, <1>4
  <2>2. status = "closed" => \A j \in Callers : grant'[j] # NoConn => grant'[j] \in closed
    <3> SUFFICES ASSUME status = "closed", NEW j \in Callers, grant'[j] # NoConn
                 PROVE  grant'[j] \in closed
      BY Zenon
    <3>1. grant[j] \in closed
      BY Zenon, <2>1 DEF IInv, PooledOpen
    <3> QED  BY Zenon, <2>1, <3>1
  <2> QED  BY Zenon, <1>1, <2>2 DEF IInv, PooledOpen
<1>13. DialedFresh'
  <2> SUFFICES ASSUME NEW c \in dialed
               PROVE  /\ c \notin pooled \cup closed /\ returned'[c] = "none"
                      /\ \A j \in Callers : grant'[j] # c
    BY Zenon, <1>1 DEF DialedFresh
  <2>1. /\ c \notin pooled \cup closed /\ returned[c] = "none"
        /\ \A j \in Callers : grant[j] # c
    BY Zenon DEF IInv, DialedFresh
  <2>2. c \in Conns
    BY Zenon DEF IInv, TypeOK
  <2>3. returned'[c] = "none"
    BY Zenon, <1>5, <2>1, <2>2
  <2>4. \A j \in Callers : grant'[j] # c
    BY Zenon, <1>4, <2>1, <2>2, H1PoolAssumption
  <2> QED  BY Zenon, <2>1, <2>3, <2>4
<1>14. SweepShape' /\ DialsAccounted'
  BY Zenon, <1>1 DEF IInv, SweepShape, DialsAccounted
<1>15. WithinLimit' /\ NobodyStranded'
  <2>1. CountLive(pooled)' = CountLive(pooled)
    BY Zenon, <1>1, CountSame
  <2> QED  BY Zenon, <1>1, <2>1 DEF IInv, WithinLimit, NobodyStranded
<1> QED
  BY Zenon, <1>6, <1>7, <1>8, <1>9, <1>10, <1>11, <1>12, <1>13, <1>14, <1>15 DEF IInv

Places == {"idle", "waiting", "reclaiming", "checking", "retry", "holding"}

\* What the invariant says of caller k.
CallerShape(k) ==
  /\ pc \in [Callers -> Places] /\ reply \in [Callers -> Replies]
  /\ tries \in [Callers -> Nat] /\ expired \in SUBSET Callers
  /\ grant \in [Callers -> Conns \cup {NoConn}]
  /\ InQueue(k, waiters) => pc[k] \in {"waiting", "reclaiming"} /\ reply[k] = "none"
  /\ reply[k] # "none" => pc[k] \in {"waiting", "reclaiming"}
  /\ grant[k] # NoConn <=> pc[k] \in {"checking", "holding"} \/ reply[k] = "conn"

LEMMA CallerFacts ==
  ASSUME IInv, NEW k \in Callers
  PROVE  CallerShape(k)
<1>1. /\ pc \in [Callers -> Places] /\ reply \in [Callers -> Replies]
      /\ tries \in [Callers -> Nat] /\ expired \in SUBSET Callers
      /\ grant \in [Callers -> Conns \cup {NoConn}]
  BY Zenon DEF IInv, TypeOK, Places
<1>2. /\ InQueue(k, waiters) => pc[k] \in {"waiting", "reclaiming"} /\ reply[k] = "none"
      /\ reply[k] # "none" => pc[k] \in {"waiting", "reclaiming"}
  BY Zenon DEF IInv, QueueShape
<1>3. grant[k] # NoConn <=> pc[k] \in {"checking", "holding"} \/ reply[k] = "conn"
  BY Zenon DEF IInv, GrantShape
<1> QED  BY Zenon, <1>1, <1>2, <1>3 DEF CallerShape

LEMMA TakeReplyKeeps ==
  ASSUME IInv, NEW k \in Callers, TakeReply(k)
  PROVE  IInv'
<1>1. CallerShape(k)
  BY Zenon, CallerFacts
<1>2. /\ UNCHANGED <<actorVars, sweepVars, status, drain, dialVars, returned, socketVars, grant>>
      /\ pc[k] = "waiting" /\ reply[k] # "none"
      /\ reply' = [reply EXCEPT ![k] = "none"]
      /\ \/ /\ reply[k] = "conn" /\ pc' = [pc EXCEPT ![k] = "checking"]
            /\ tries' = tries /\ expired' = expired
         \/ /\ reply[k] # "conn" /\ pc' = [pc EXCEPT ![k] = "idle"]
            /\ tries' = [tries EXCEPT ![k] = 0] /\ expired' = expired \ {k}
  BY Zenon DEF TakeReply
<1>3. UNCHANGED <<actorVars, sweepVars, status, drain, dialVars, socket, spoils, closed>>
      /\ UNCHANGED <<grant, returned>>
  BY Zenon, <1>2 DEF socketVars
<1>4. /\ pc' \in [Callers -> Places] /\ reply' \in [Callers -> Replies]
      /\ tries' \in [Callers -> Nat] /\ expired' \in SUBSET Callers
      /\ \A j \in Callers : j # k => pc'[j] = pc[j] /\ reply'[j] = reply[j]
      /\ reply'[k] = "none" /\ pc'[k] = IF reply[k] = "conn" THEN "checking" ELSE "idle"
  BY <1>1, <1>2 DEF CallerShape, Places, Replies
<1>5. /\ InQueue(k, waiters) => pc'[k] \in {"waiting", "reclaiming"} /\ reply'[k] = "none"
      /\ grant'[k] # NoConn <=> pc'[k] \in {"checking", "holding"} \/ reply'[k] = "conn"
  <2>1. ~InQueue(k, waiters) /\ (grant[k] # NoConn <=> reply[k] = "conn")
    BY Zenon, <1>1, <1>2 DEF CallerShape
  <2> QED  BY Zenon, <1>3, <1>4, <2>1
<1>6. CallerStep(k)
  BY Zenon, <1>3, <1>4, <1>5 DEF CallerStep, Places
<1> QED  BY Zenon, <1>3, <1>6, CallerStepIInv

LEMMA ExpireKeeps ==
  ASSUME IInv, NEW k \in Callers, Expire(k)
  PROVE  IInv'
<1>1. CallerShape(k)
  BY Zenon, CallerFacts
<1>2. /\ UNCHANGED <<actorVars, sweepVars, status, drain, dialVars, returned, socketVars, pc,
                     tries, reply, grant>>
      /\ expired' = expired \cup {k}
  BY Zenon DEF Expire
<1>3. UNCHANGED <<actorVars, sweepVars, status, drain, dialVars, socket, spoils, closed>>
      /\ UNCHANGED <<grant, returned, pc, tries, reply>>
  BY Zenon, <1>2 DEF socketVars
<1>4. expired' \in SUBSET Callers
  BY Zenon, <1>1, <1>2 DEF CallerShape
<1>5. CallerStep(k)
  BY Zenon, <1>1, <1>3, <1>4 DEF CallerStep, CallerShape, Places
<1> QED  BY Zenon, <1>3, <1>5, CallerStepIInv

LEMMA AbandonKeeps ==
  ASSUME IInv, NEW k \in Callers, Abandon(k)
  PROVE  IInv'
<1>1. CallerShape(k)
  BY Zenon, CallerFacts
<1>2. /\ UNCHANGED <<actorVars, sweepVars, status, drain, dialVars, returned, socketVars,
                     reply, grant>>
      /\ pc[k] \in {"waiting", "retry"}
      /\ pc' = [pc EXCEPT ![k] = IF @ = "waiting" THEN "reclaiming" ELSE "idle"]
      /\ tries' = [tries EXCEPT ![k] = 0]
      /\ expired' = IF pc[k] = "retry" THEN expired \ {k} ELSE expired
  BY Zenon DEF Abandon
<1>3. UNCHANGED <<actorVars, sweepVars, status, drain, dialVars, socket, spoils, closed>>
      /\ UNCHANGED <<grant, returned, reply>>
  BY Zenon, <1>2 DEF socketVars
<1>4. /\ pc' \in [Callers -> Places] /\ reply' \in [Callers -> Replies]
      /\ tries' \in [Callers -> Nat] /\ expired' \in SUBSET Callers
      /\ \A j \in Callers : j # k => pc'[j] = pc[j] /\ reply'[j] = reply[j]
      /\ pc'[k] = IF pc[k] = "waiting" THEN "reclaiming" ELSE "idle"
  BY Zenon, <1>1, <1>2, <1>3 DEF CallerShape, Places
<1>5. /\ InQueue(k, waiters) => pc'[k] \in {"waiting", "reclaiming"} /\ reply'[k] = "none"
      /\ reply'[k] # "none" => pc'[k] \in {"waiting", "reclaiming"}
      /\ grant'[k] # NoConn <=> pc'[k] \in {"checking", "holding"} \/ reply'[k] = "conn"
  BY Zenon, <1>1, <1>2, <1>3, <1>4 DEF CallerShape
<1>6. CallerStep(k)
  BY Zenon, <1>3, <1>4, <1>5 DEF CallerStep, Places
<1> QED  BY Zenon, <1>3, <1>6, CallerStepIInv

LEMMA ReclaimKeeps ==
  ASSUME IInv, NEW k \in Callers, Reclaim(k)
  PROVE  IInv'
<1>1. CallerShape(k)
  BY Zenon, CallerFacts
<1>2. /\ UNCHANGED <<actorVars, sweepVars, status, drain, dialVars, socket, spoils, tries>>
      /\ pc[k] = "reclaiming" /\ reply[k] # "none"
      /\ pc' = [pc EXCEPT ![k] = "idle"] /\ reply' = [reply EXCEPT ![k] = "none"]
      /\ expired' = expired \ {k}
      /\ \/ reply[k] = "conn" /\ SendRelease(k, "keep")
         \/ reply[k] # "conn" /\ UNCHANGED <<grant, returned, closed>>
  BY Zenon DEF Reclaim
<1>3. ~InQueue(k, waiters) /\ (grant[k] # NoConn <=> reply[k] = "conn")
  BY Zenon, <1>1, <1>2 DEF CallerShape
<1>4. /\ closed' = closed /\ grant'[k] = NoConn
      /\ UNCHANGED <<grant, returned>> \/ Returns(k)
  <2>1. CASE reply[k] = "conn" /\ SendRelease(k, "keep")
    <3>1. Returns(k) /\ closed' = closed
      BY Zenon, <1>3, <2>1, SendReleaseReturns
    <3> QED  BY Zenon, <3>1 DEF Returns
  <2>2. CASE reply[k] # "conn" /\ UNCHANGED <<grant, returned, closed>>
    BY Zenon, <1>3, <2>2
  <2> QED  BY Zenon, <1>2, <2>1, <2>2
<1>5. UNCHANGED <<actorVars, sweepVars, status, drain, dialVars, socket, spoils, closed>>
  BY Zenon, <1>2, <1>4
<1>6. /\ pc' \in [Callers -> Places] /\ reply' \in [Callers -> Replies]
      /\ tries' \in [Callers -> Nat] /\ expired' \in SUBSET Callers
      /\ \A j \in Callers : j # k => pc'[j] = pc[j] /\ reply'[j] = reply[j]
      /\ pc'[k] = "idle" /\ reply'[k] = "none"
  BY Zenon, <1>1, <1>2 DEF CallerShape, Places, Replies
<1>7. ~(pc'[k] \in {"checking", "holding"} \/ reply'[k] = "conn")
  BY Zenon, <1>6
<1>8. CallerStep(k)
  BY Zenon, <1>3, <1>4, <1>5, <1>6, <1>7 DEF CallerStep, Places
<1> QED  BY Zenon, <1>4, <1>8, CallerStepIInv

LEMMA InspectKeeps ==
  ASSUME IInv, NEW k \in Callers, Inspect(k)
  PROVE  IInv'
<1>1. CallerShape(k)
  BY Zenon, CallerFacts
<1>2. /\ UNCHANGED <<actorVars, sweepVars, status, drain, dialVars, socket, spoils, reply>>
      /\ pc[k] = "checking"
      /\ expired' = IF pc'[k] = "retry" THEN expired ELSE expired \ {k}
      /\ \/ /\ pc' = [pc EXCEPT ![k] = "holding"] /\ tries' = [tries EXCEPT ![k] = 0]
            /\ UNCHANGED <<grant, returned, closed>>
         \/ /\ SendRelease(k, "drop")
            /\ pc' = [pc EXCEPT ![k] = IF tries[k] <= MaxConnsPerHost THEN "retry" ELSE "idle"]
            /\ tries' = [tries EXCEPT ![k] = IF @ <= MaxConnsPerHost THEN @ + 1 ELSE 0]
  BY Zenon DEF Inspect
<1>3. ~InQueue(k, waiters) /\ grant[k] # NoConn /\ reply[k] = "none"
  BY Zenon, <1>1, <1>2 DEF CallerShape
<1>4. /\ closed' = closed
      /\ \/ UNCHANGED <<grant, returned>> /\ pc' = [pc EXCEPT ![k] = "holding"]
         \/ /\ Returns(k) /\ grant'[k] = NoConn
            /\ pc' = [pc EXCEPT ![k] = IF tries[k] <= MaxConnsPerHost THEN "retry" ELSE "idle"]
  <2>1. CASE SendRelease(k, "drop")
    <3>1. Returns(k) /\ closed' = closed
      BY Zenon, <1>3, <2>1, SendReleaseReturns
    <3>2. grant'[k] = NoConn
      BY Zenon, <3>1 DEF Returns
    <3>3. grant' # grant
      BY Zenon, <1>3, <3>2
    <3> QED  BY Zenon, <1>2, <3>1, <3>2, <3>3
  <2>2. CASE ~SendRelease(k, "drop")
    BY Zenon, <1>2, <2>2
  <2> QED  BY Zenon, <2>1, <2>2
<1>5. UNCHANGED <<actorVars, sweepVars, status, drain, dialVars, socket, spoils, closed>>
  BY Zenon, <1>2, <1>4
<1>6. /\ pc' \in [Callers -> Places] /\ reply' \in [Callers -> Replies]
      /\ expired' \in SUBSET Callers
      /\ \A j \in Callers : j # k => pc'[j] = pc[j] /\ reply'[j] = reply[j]
  BY Zenon, <1>1, <1>2, <1>4 DEF CallerShape, Places
<1>7. tries' \in [Callers -> Nat]
  <2>1. tries \in [Callers -> Nat] /\ MaxConnsPerHost \in Nat
    BY Zenon, <1>1, H1PoolAssumption DEF CallerShape
  <2>2. \E n \in Nat : tries' = [tries EXCEPT ![k] = n]
    BY <1>2, <2>1
  <2> QED  BY Zenon, <2>1, <2>2
<1>8. reply'[k] = "none" /\ (grant'[k] # NoConn <=> pc'[k] \in {"checking", "holding"})
  <2>1. reply'[k] = "none" /\ pc \in [Callers -> Places]
    BY Zenon, <1>1, <1>2, <1>3 DEF CallerShape
  <2>2. CASE UNCHANGED <<grant, returned>> /\ pc' = [pc EXCEPT ![k] = "holding"]
    BY Zenon, <1>3, <2>1, <2>2
  <2>3. CASE /\ Returns(k) /\ grant'[k] = NoConn
             /\ pc' = [pc EXCEPT ![k] = IF tries[k] <= MaxConnsPerHost THEN "retry" ELSE "idle"]
    BY Zenon, <2>1, <2>3
  <2> QED  BY Zenon, <1>4, <2>1, <2>2, <2>3
<1>9. CallerStep(k)
  <2>1. ~(reply'[k] = "conn")
    BY Zenon, <1>8
  <2> QED  BY Zenon, <1>3, <1>5, <1>6, <1>7, <1>8, <2>1 DEF CallerStep, Places
<1>10. UNCHANGED <<grant, returned>> \/ Returns(k)
  BY Zenon, <1>4
<1> QED  BY Zenon, <1>9, <1>10, CallerStepIInv

LEMMA ReleaseKeeps ==
  ASSUME IInv, NEW k \in Callers, NEW v \in {"keep", "drop"}, Release(k, v)
  PROVE  IInv'
<1>1. CallerShape(k)
  BY Zenon, CallerFacts
<1>2. /\ UNCHANGED <<actorVars, sweepVars, status, drain, dialVars, socket, spoils, tries,
                     expired, reply>>
      /\ pc[k] = "holding" /\ pc' = [pc EXCEPT ![k] = "idle"] /\ SendRelease(k, v)
  BY Zenon DEF Release
<1>3. ~InQueue(k, waiters) /\ grant[k] # NoConn /\ reply[k] = "none"
  BY Zenon, <1>1, <1>2 DEF CallerShape
<1>4. Returns(k) /\ closed' = closed
  BY Zenon, <1>2, <1>3, SendReleaseReturns
<1>5. grant'[k] = NoConn
  BY Zenon, <1>4 DEF Returns
<1>6. UNCHANGED <<actorVars, sweepVars, status, drain, dialVars, socket, spoils, closed>>
  BY Zenon, <1>2, <1>4
<1>7. /\ pc' \in [Callers -> Places] /\ reply' \in [Callers -> Replies]
      /\ tries' \in [Callers -> Nat] /\ expired' \in SUBSET Callers
      /\ \A j \in Callers : j # k => pc'[j] = pc[j] /\ reply'[j] = reply[j]
      /\ pc'[k] = "idle" /\ reply'[k] = "none"
  BY Zenon, <1>1, <1>2, <1>3 DEF CallerShape, Places
<1>8. ~(pc'[k] \in {"checking", "holding"} \/ reply'[k] = "conn")
  BY Zenon, <1>7
<1>9. CallerStep(k)
  BY Zenon, <1>3, <1>5, <1>6, <1>7, <1>8 DEF CallerStep, Places
<1> QED  BY Zenon, <1>4, <1>9, CallerStepIInv

-----------------------------------------------------------------------------
(* The goroutines beside the actor, the environment, and closing.          *)

\* Steps that touch neither the callers nor what the actor counts.
QuietStep ==
  /\ UNCHANGED <<pooled, active, probing, sweep, waiters, dials, drain, dialVars, returned,
                 closed, callerVars>>
  /\ status' \in {"open", "closing", "closed"} /\ (status' = "closed" <=> status = "closed")
  /\ unprobed' \subseteq probing /\ failed' \subseteq probing
  /\ socket' \in [Conns -> {"unused", "clean", "fin", "residue"}]
  /\ \A c \in Conns : socket'[c] = "unused" => socket[c] = "unused"
  /\ spoils' \in Nat
  /\ backoff' \in BOOLEAN /\ (backoff' => backoff)

LEMMA QuietIInv ==
  ASSUME IInv, QuietStep
  PROVE  IInv'
<1>1. /\ pooled' = pooled /\ active' = active /\ probing' = probing /\ sweep' = sweep
      /\ waiters' = waiters /\ dials' = dials /\ drain' = drain /\ dialing' = dialing
      /\ dialed' = dialed /\ dialErrs' = dialErrs /\ returned' = returned
      /\ closed' = closed /\ pc' = pc /\ tries' = tries /\ expired' = expired
      /\ reply' = reply /\ grant' = grant
  BY Zenon DEF QuietStep, dialVars, callerVars
<1>2. /\ status' \in {"open", "closing", "closed"} /\ (status' = "closed" <=> status = "closed")
      /\ socket' \in [Conns -> {"unused", "clean", "fin", "residue"}]
      /\ \A c \in Conns : socket'[c] = "unused" => socket[c] = "unused"
      /\ spoils' \in Nat /\ backoff' \in BOOLEAN /\ (backoff' => backoff)
      /\ unprobed' \subseteq probing /\ failed' \subseteq probing
  BY Zenon DEF QuietStep
<1>3. TypeOK'
  <2>1. pooled \subseteq Conns /\ probing \subseteq pooled
    BY Zenon DEF IInv, TypeOK, SweepShape
  <2>2. unprobed' \subseteq Conns /\ failed' \subseteq Conns
    BY Zenon, <1>2, <2>1
  <2> QED  BY Zenon, <1>1, <1>2, <2>2 DEF IInv, TypeOK
<1>4. QueueDistinct' /\ GrantShape' /\ OneHolder' /\ HandedBack'
  BY Zenon, <1>1 DEF IInv, QueueDistinct, GrantShape, OneHolder, HandedBack
<1>5. QueueShape'
  BY Zenon, <1>1 DEF IInv, QueueShape, InQueue
<1>6. Committed' /\ DialedFresh'
  BY Zenon, <1>1, <1>2 DEF IInv, Committed, DialedFresh
<1>7. PooledOpen'
  <2>1. \A c \in pooled \cup dialed : c \in Conns /\ socket[c] # "unused"
    BY Zenon DEF IInv, TypeOK, PooledOpen
  <2>2. \A c \in pooled \cup dialed : socket'[c] # "unused"
    BY Zenon, <1>2, <2>1
  <2> QED  BY Zenon, <1>1, <1>2, <2>2 DEF IInv, PooledOpen
<1>8. SweepShape' /\ DialsAccounted'
  BY Zenon, <1>1, <1>2 DEF IInv, SweepShape, DialsAccounted
<1>9. WithinLimit' /\ NobodyStranded'
  <2>1. CountLive(pooled)' = CountLive(pooled)
    BY Zenon, <1>1, CountSame
  <2> QED  BY Zenon, <1>1, <1>2, <2>1 DEF IInv, WithinLimit, NobodyStranded
<1> QED
  BY Zenon, <1>3, <1>4, <1>5, <1>6, <1>7, <1>8, <1>9 DEF IInv

\* What the quiet steps find.
LEMMA QuietTypes ==
  ASSUME IInv
  PROVE  /\ status \in {"open", "closing", "closed"} /\ spoils \in Nat /\ backoff \in BOOLEAN
         /\ unprobed \subseteq probing /\ failed \subseteq probing
         /\ socket \in [Conns -> {"unused", "clean", "fin", "residue"}]
BY Zenon DEF IInv, TypeOK, SweepShape

LEMMA StutterKeeps ==
  ASSUME IInv, UNCHANGED vars
  PROVE  IInv'
<1>1. UNCHANGED <<actorVars, sweepVars, status, drain, dialVars, returned, socketVars, callerVars>>
  BY Zenon DEF vars
<1>2. QuietStep
  BY Zenon, <1>1, QuietTypes DEF QuietStep, actorVars, sweepVars, socketVars
<1> QED  BY Zenon, <1>2, QuietIInv

LEMMA HandleStatsKeeps ==
  ASSUME IInv, HandleStats
  PROVE  IInv'
<1>1. /\ status # "closed" /\ pooled' = pooled \ Dead /\ closed' = closed \cup Dead
      /\ UNCHANGED <<active, probing, sweep, sweepVars, waiters, dials, backoff, status,
                     drain, dialVars, returned, socket, spoils, callerVars>>
  BY Zenon DEF HandleStats
<1>2. Dead = {}
  BY Zenon, <1>1, OpenFacts DEF OpenShape, Dead, IsAlive
<1>3. pooled' = pooled /\ closed' = closed
  BY Zenon, <1>1, <1>2
<1>4. QuietStep
  BY Zenon, <1>1, <1>3, QuietTypes DEF QuietStep, sweepVars
<1> QED  BY Zenon, <1>4, QuietIInv

LEMMA CloseKeeps ==
  ASSUME IInv, Close
  PROVE  IInv'
<1>1. /\ status = "open" /\ status' = "closing"
      /\ UNCHANGED <<actorVars, sweepVars, drain, dialVars, returned, socketVars, callerVars>>
  BY Zenon DEF Close
<1>2. status' \in {"open", "closing", "closed"} /\ (status' = "closed" <=> status = "closed")
  BY Zenon, <1>1
<1>3. QuietStep
  BY Zenon, <1>1, <1>2, QuietTypes DEF QuietStep, actorVars, sweepVars, socketVars
<1> QED  BY Zenon, <1>3, QuietIInv

LEMMA ProbeKeeps ==
  ASSUME IInv, NEW c \in Conns, Probe(c)
  PROVE  IInv'
<1>1. /\ c \in unprobed /\ unprobed' = unprobed \ {c}
      /\ failed' = failed \/ failed' = failed \cup {c}
      /\ UNCHANGED <<actorVars, status, drain, dialVars, returned, socketVars, callerVars>>
  BY Zenon DEF Probe
<1>2. unprobed' \subseteq probing /\ failed' \subseteq probing
  BY Zenon, <1>1, QuietTypes
<1>3. QuietStep
  BY Zenon, <1>1, <1>2, QuietTypes DEF QuietStep, actorVars, socketVars
<1> QED  BY Zenon, <1>3, QuietIInv

LEMMA SpoilKeeps ==
  ASSUME IInv, NEW c \in Conns, NEW how \in {"fin", "residue"}, Spoil(c, how)
  PROVE  IInv'
<1>1. /\ socket[c] = "clean" /\ socket' = [socket EXCEPT ![c] = how] /\ spoils' = spoils + 1
      /\ UNCHANGED <<actorVars, sweepVars, status, drain, dialVars, returned, closed,
                     callerVars>>
  BY Zenon DEF Spoil
<1>2. /\ socket' \in [Conns -> {"unused", "clean", "fin", "residue"}]
      /\ \A e \in Conns : socket'[e] = "unused" => socket[e] = "unused"
      /\ spoils' \in Nat
  BY <1>1, QuietTypes
<1>3. QuietStep
  BY Zenon, <1>1, <1>2, QuietTypes DEF QuietStep, actorVars, sweepVars
<1> QED  BY Zenon, <1>3, QuietIInv

LEMMA BackoffEndsKeeps ==
  ASSUME IInv, BackoffEnds
  PROVE  IInv'
<1>1. /\ backoff' = FALSE
      /\ UNCHANGED <<pooled, active, probing, sweep, waiters, dials, sweepVars, status, drain,
                     dialVars, returned, socketVars, callerVars>>
  BY Zenon DEF BackoffEnds
<1>2. QuietStep
  BY Zenon, <1>1, QuietTypes DEF QuietStep, sweepVars, socketVars
<1> QED  BY Zenon, <1>2, QuietIInv

\* Steps that move a dial or its result, and no connection anybody refers to.
DialStep ==
  /\ UNCHANGED <<pooled, probing, sweep, sweepVars, waiters, dials, backoff, status,
                 returned, spoils, callerVars>>
  /\ dialing' \in Nat /\ dialErrs' \in Nat /\ drain' \in Nat /\ dialed' \subseteq Conns
  /\ closed' \subseteq Conns /\ active' \in [Conns -> Nat]
  /\ socket' \in [Conns -> {"unused", "clean", "fin", "residue"}]
  /\ \A c \in Conns : c \in pooled \/ returned[c] # "none" \/ (\E k \in Callers : grant[k] = c) =>
       active'[c] = active[c] /\ (c \in closed' <=> c \in closed)
  /\ \A c \in pooled \cup dialed' : socket'[c] # "unused"
  /\ \A c \in dialed' : c \notin pooled \cup closed' /\ returned[c] = "none"
                        /\ \A k \in Callers : grant[k] # c
  /\ DialsAccounted'

LEMMA DialStepIInv ==
  ASSUME IInv, DialStep
  PROVE  IInv'
<1>1. /\ pooled' = pooled /\ probing' = probing /\ sweep' = sweep /\ unprobed' = unprobed
      /\ failed' = failed /\ waiters' = waiters /\ dials' = dials /\ backoff' = backoff
      /\ status' = status /\ returned' = returned /\ spoils' = spoils /\ pc' = pc
      /\ tries' = tries /\ expired' = expired /\ reply' = reply /\ grant' = grant
  BY Zenon DEF DialStep, sweepVars, callerVars
<1>2. /\ dialing' \in Nat /\ dialErrs' \in Nat /\ drain' \in Nat /\ dialed' \subseteq Conns
      /\ closed' \subseteq Conns /\ active' \in [Conns -> Nat]
      /\ socket' \in [Conns -> {"unused", "clean", "fin", "residue"}]
  BY Zenon DEF DialStep
<1>3. \A c \in Conns : c \in pooled \/ returned[c] # "none" \/ (\E k \in Callers : grant[k] = c) =>
        active'[c] = active[c] /\ (c \in closed' <=> c \in closed)
  BY Zenon DEF DialStep
<1>4. pooled \subseteq Conns /\ probing \subseteq pooled
      /\ \A k \in Callers : grant[k] \in Conns \cup {NoConn}
  BY Zenon DEF IInv, TypeOK, SweepShape
<1>5. TypeOK'
  BY Zenon, <1>1, <1>2 DEF IInv, TypeOK
<1>6. QueueDistinct' /\ GrantShape' /\ OneHolder' /\ HandedBack'
  BY Zenon, <1>1 DEF IInv, QueueDistinct, GrantShape, OneHolder, HandedBack
<1>7. QueueShape'
  BY Zenon, <1>1 DEF IInv, QueueShape, InQueue
<1>8. Committed'
  <2> SUFFICES ASSUME status # "closed", NEW c \in Conns,
                      (\E k \in Callers : grant[k] = c) \/ returned[c] # "none"
               PROVE  c \in pooled /\ active'[c] = 1
    BY Zenon, <1>1 DEF Committed
  <2>1. c \in pooled /\ active[c] = 1
    BY Zenon DEF IInv, Committed
  <2>2. active'[c] = active[c]
    BY Zenon, <1>3, <2>1
  <2> QED  BY Zenon, <2>1, <2>2
<1>9. PooledOpen'
  <2>1. \A c \in pooled : c \in closed' <=> c \in closed
    BY Zenon, <1>3, <1>4
  <2>2. \A k \in Callers : grant[k] # NoConn => (grant[k] \in closed' <=> grant[k] \in closed)
    BY Zenon, <1>3, <1>4
  <2>3. /\ \A c \in pooled \cup dialed' : socket'[c] # "unused"
        /\ status # "closed" => pooled \cap closed' = {}
        /\ status = "closed" => pooled \subseteq closed' /\ dials = 0
        /\ status = "closed" => \A k \in Callers : grant[k] # NoConn => grant[k] \in closed'
    <3>1. \A c \in pooled \cup dialed' : socket'[c] # "unused"
      BY Zenon DEF DialStep
    <3>2. /\ status # "closed" => pooled \cap closed = {}
          /\ status = "closed" => pooled \subseteq closed /\ dials = 0
          /\ status = "closed" => \A k \in Callers : grant[k] # NoConn => grant[k] \in closed
      BY Zenon DEF IInv, PooledOpen
    <3> QED  BY Zenon, <2>1, <2>2, <3>1, <3>2
  <2> QED  BY Zenon, <1>1, <2>3 DEF PooledOpen
<1>10. DialedFresh' /\ DialsAccounted'
  <2>1. DialsAccounted'
    BY Zenon DEF DialStep
  <2>2. \A c \in dialed' : c \notin pooled \cup closed' /\ returned[c] = "none"
                           /\ \A k \in Callers : grant[k] # c
    BY Zenon DEF DialStep
  <2> QED  BY Zenon, <1>1, <2>1, <2>2 DEF DialedFresh
<1>11. SweepShape'
  <2>1. \A c \in probing : active'[c] = active[c]
    BY Zenon, <1>3, <1>4
  <2>2. status # "closed" => \A c \in probing : active'[c] = 0
    BY Zenon, <2>1 DEF IInv, SweepShape
  <2> QED  BY Zenon, <1>1, <2>2 DEF IInv, SweepShape
<1>12. WithinLimit' /\ NobodyStranded'
  <2>1. closed' \cap pooled = closed \cap pooled
    BY Zenon, <1>3, <1>4
  <2>2. CountLive(pooled)' = CountLive(pooled)
    BY Zenon, <1>1, <2>1, CountSame
  <2> QED  BY Zenon, <1>1, <2>2 DEF IInv, WithinLimit, NobodyStranded
<1> QED
  BY Zenon, <1>5, <1>6, <1>7, <1>8, <1>9, <1>10, <1>11, <1>12 DEF IInv

\* What the invariant says of the dials, whether the pool is open or closed.
LEMMA DialShape ==
  ASSUME IInv
  PROVE  /\ dialing \in Nat /\ dialErrs \in Nat /\ drain \in Nat /\ dials \in Nat
         /\ dialed \in SUBSET Conns /\ closed \in SUBSET Conns /\ pooled \in SUBSET Conns
         /\ active \in [Conns -> Nat]
         /\ socket \in [Conns -> {"unused", "clean", "fin", "residue"}]
         /\ IsFiniteSet(dialed) /\ Cardinality(dialed) \in Nat
         /\ \A c \in pooled \cup dialed : socket[c] # "unused"
         /\ \A c \in dialed : c \notin pooled \cup closed /\ returned[c] = "none"
                              /\ \A k \in Callers : grant[k] # c
<1>1. /\ dialing \in Nat /\ dialErrs \in Nat /\ drain \in Nat /\ dials \in Nat
      /\ dialed \in SUBSET Conns /\ closed \in SUBSET Conns /\ pooled \in SUBSET Conns
      /\ active \in [Conns -> Nat]
      /\ socket \in [Conns -> {"unused", "clean", "fin", "residue"}]
  BY Zenon DEF IInv, TypeOK
<1>2. IsFiniteSet(dialed)
  BY Zenon, <1>1, H1PoolAssumption, FS_Subset
<1>3. Cardinality(dialed) \in Nat
  BY Zenon, <1>2, FS_CardinalityType
<1>4. /\ \A c \in pooled \cup dialed : socket[c] # "unused"
      /\ \A c \in dialed : c \notin pooled \cup closed /\ returned[c] = "none"
                           /\ \A k \in Callers : grant[k] # c
  BY Zenon DEF IInv, PooledOpen, DialedFresh
<1> QED  BY Zenon, <1>1, <1>2, <1>3, <1>4

LEMMA DialOneErrKeeps ==
  ASSUME IInv, DialOneErr
  PROVE  IInv'
<1>1. /\ dialing > 0 /\ dialing' = dialing - 1 /\ dialErrs' = dialErrs + 1
      /\ UNCHANGED <<actorVars, sweepVars, status, drain, dialed, returned, socketVars,
                     callerVars>>
  BY Zenon DEF DialOneErr
<1>2. UNCHANGED <<pooled, active, probing, sweep, waiters, dials, backoff, socket, closed, spoils>>
      /\ UNCHANGED <<sweepVars, status, drain, dialed, returned, callerVars>>
  BY Zenon, <1>1 DEF actorVars, socketVars
<1>3. /\ dialing' \in Nat /\ dialErrs' \in Nat
      /\ dialing' + Cardinality(dialed) + dialErrs' = dialing + Cardinality(dialed) + dialErrs
  <2>1. dialing \in Nat /\ dialErrs \in Nat /\ Cardinality(dialed) \in Nat
    BY Zenon, DialShape
  <2> QED  BY <1>1, <2>1
<1>4. DialsAccounted'
  BY Zenon, <1>2, <1>3 DEF IInv, DialsAccounted
<1>5. DialStep
  BY Zenon, <1>2, <1>3, <1>4, DialShape DEF DialStep
<1> QED  BY Zenon, <1>5, DialStepIInv

LEMMA DialOneOkKeeps ==
  ASSUME IInv, NEW c \in Conns, DialOneOk(c)
  PROVE  IInv'
<1>1. /\ dialing > 0 /\ Available(c)
      /\ dialing' = dialing - 1 /\ dialed' = dialed \cup {c}
      /\ socket' = [socket EXCEPT ![c] = "clean"] /\ closed' = closed \ {c}
      /\ active' = [active EXCEPT ![c] = 0]
      /\ UNCHANGED <<pooled, probing, sweep, waiters, dials, backoff, sweepVars, status,
                     drain, dialErrs, returned, spoils, callerVars>>
  BY Zenon DEF DialOneOk
<1>2. /\ c \notin pooled \cup dialed \cup probing
      /\ returned[c] = "none" /\ \A k \in Callers : grant[k] # c
  BY Zenon, <1>1 DEF Available
<1>3. /\ dialing' \in Nat
      /\ dialing' + Cardinality(dialed') + dialErrs = dialing + Cardinality(dialed) + dialErrs
  <2>1. /\ dialing \in Nat /\ dialErrs \in Nat
        /\ IsFiniteSet(dialed) /\ Cardinality(dialed) \in Nat
    BY Zenon, DialShape
  <2>2. Cardinality(dialed') = Cardinality(dialed) + 1
    BY Zenon, <1>1, <1>2, <2>1, FS_AddElement
  <2> QED  BY <1>1, <2>1, <2>2
<1>4. DialsAccounted'
  BY Zenon, <1>1, <1>3 DEF IInv, DialsAccounted
<1>5. /\ dialed' \subseteq Conns /\ closed' \subseteq Conns /\ active' \in [Conns -> Nat]
      /\ socket' \in [Conns -> {"unused", "clean", "fin", "residue"}]
      /\ \A e \in Conns : e # c => active'[e] = active[e] /\ (e \in closed' <=> e \in closed)
      /\ \A e \in pooled \cup dialed' : socket'[e] # "unused"
  BY <1>1, DialShape
<1>6. \A e \in Conns : e \in pooled \/ returned[e] # "none" \/ (\E k \in Callers : grant[k] = e) =>
        active'[e] = active[e] /\ (e \in closed' <=> e \in closed)
  <2>1. \A e \in Conns : e \in pooled \/ returned[e] # "none" \/ (\E k \in Callers : grant[k] = e) =>
          e # c
    BY Zenon, <1>2
  <2> QED  BY Zenon, <1>5, <2>1
<1>7. \A e \in dialed' : e \notin pooled \cup closed' /\ returned[e] = "none"
                         /\ \A k \in Callers : grant[k] # e
  BY Zenon, <1>1, <1>2, DialShape
<1>8. dialErrs \in Nat /\ drain \in Nat
  BY Zenon, DialShape
<1>9. DialStep
  BY ZenonT(60), <1>1, <1>3, <1>4, <1>5, <1>6, <1>7, <1>8 DEF DialStep
<1> QED  BY Zenon, <1>9, DialStepIInv

LEMMA DrainDialKeeps ==
  ASSUME IInv, DrainDial
  PROVE  IInv'
<1>1. /\ drain > 0 /\ drain' = drain - 1
      /\ UNCHANGED <<actorVars, sweepVars, status, dialing, returned, socket, spoils, callerVars>>
      /\ \/ \E c \in dialed : /\ dialed' = dialed \ {c} /\ closed' = closed \cup {c}
                              /\ dialErrs' = dialErrs
         \/ dialErrs > 0 /\ dialErrs' = dialErrs - 1 /\ dialed' = dialed /\ closed' = closed
  BY Zenon DEF DrainDial
<1>2. UNCHANGED <<pooled, active, probing, sweep, waiters, dials, backoff>>
      /\ UNCHANGED <<sweepVars, status, dialing, returned, socket, spoils, callerVars>>
  BY Zenon, <1>1 DEF actorVars
<1>3. status = "closed" /\ drain = dialing + Cardinality(dialed) + dialErrs
  <2>1. drain # 0
    BY <1>1
  <2> QED  BY Zenon, <2>1 DEF IInv, DialsAccounted
<1>4. /\ dialErrs' \in Nat /\ dialed' \in SUBSET dialed
      /\ drain' = dialing + Cardinality(dialed') + dialErrs'
  <2>1. /\ dialing \in Nat /\ dialErrs \in Nat /\ drain \in Nat
        /\ IsFiniteSet(dialed) /\ Cardinality(dialed) \in Nat
    BY Zenon, DialShape
  <2>2. CASE \E c \in dialed : /\ dialed' = dialed \ {c} /\ closed' = closed \cup {c}
                               /\ dialErrs' = dialErrs
    <3>1. Cardinality(dialed') = Cardinality(dialed) - 1
      BY Zenon, <2>1, <2>2, FS_RemoveElement
    <3> QED  BY <1>1, <1>3, <2>1, <2>2, <3>1
  <2>3. CASE dialErrs > 0 /\ dialErrs' = dialErrs - 1 /\ dialed' = dialed
    BY <1>1, <1>3, <2>1, <2>3
  <2> QED  BY Zenon, <1>1, <2>2, <2>3
<1>5. DialsAccounted'
  BY Zenon, <1>2, <1>3, <1>4 DEF DialsAccounted
<1>6. /\ closed' \subseteq Conns /\ drain' \in Nat
      /\ \A c \in Conns : c \notin dialed => (c \in closed' <=> c \in closed)
      /\ \A c \in dialed' : c \notin closed'
  BY <1>1, DialShape
<1>7. \A c \in Conns : c \in pooled \/ returned[c] # "none" \/ (\E k \in Callers : grant[k] = c) =>
        active'[c] = active[c] /\ (c \in closed' <=> c \in closed)
  <2>1. \A c \in Conns : c \in pooled \/ returned[c] # "none" \/ (\E k \in Callers : grant[k] = c) =>
          c \notin dialed
    BY Zenon, DialShape
  <2> QED  BY Zenon, <1>2, <1>6, <2>1
<1>8. /\ dialed' \subseteq Conns
      /\ \A c \in pooled \cup dialed' : socket'[c] # "unused"
      /\ \A c \in dialed' : c \notin pooled \cup closed' /\ returned[c] = "none"
                            /\ \A k \in Callers : grant[k] # c
  BY Zenon, <1>2, <1>4, <1>6, DialShape
<1>9. DialStep
  BY ZenonT(60), <1>2, <1>4, <1>5, <1>6, <1>7, <1>8, DialShape DEF DialStep
<1> QED  BY Zenon, <1>9, DialStepIInv

LEMMA HandleCloseKeeps ==
  ASSUME IInv, HandleClose
  PROVE  IInv'
<1>1. /\ status = "closing" /\ status' = "closed"
      /\ reply' = [k \in Callers |-> IF InQueue(k, waiters) THEN "poolClosed" ELSE reply[k]]
      /\ waiters' = <<>> /\ drain' = dials /\ dials' = 0 /\ closed' = closed \cup pooled
      /\ pooled' = pooled /\ active' = active /\ probing' = probing /\ sweep' = sweep
      /\ unprobed' = unprobed /\ failed' = failed /\ backoff' = backoff
      /\ dialing' = dialing /\ dialed' = dialed /\ dialErrs' = dialErrs
      /\ returned' = returned /\ socket' = socket /\ spoils' = spoils /\ pc' = pc
      /\ tries' = tries /\ expired' = expired /\ grant' = grant
  BY Zenon DEF HandleClose, sweepVars, dialVars
<1>2. OpenShape
  BY Zenon, <1>1, OpenFacts
<1>3. dials = dialing + Cardinality(dialed) + dialErrs /\ dials \in Nat
  BY Zenon, <1>1, OpenDials
<1>4. /\ status' \in {"open", "closing", "closed"} /\ waiters' \in Seq(Callers)
      /\ dials' \in Nat /\ drain' \in Nat /\ closed' \subseteq Conns
      /\ reply' \in [Callers -> Replies]
  <2>1. reply \in [Callers -> Replies]
    BY Zenon DEF IInv, TypeOK
  <2>2. reply' \in [Callers -> Replies]
    BY Zenon, <1>1, <2>1 DEF Replies
  <2> QED  BY <1>1, <1>2, <1>3, <2>2 DEF OpenShape
<1>5. TypeOK'
  BY Zenon, <1>1, <1>4 DEF IInv, TypeOK
<1>6. QueueDistinct'
  BY <1>1 DEF QueueDistinct
<1>7. QueueShape' /\ GrantShape'
  <2>1. \A k \in Callers : ~InQueue(k, waiters)'
    BY <1>1 DEF InQueue
  <2>2. ASSUME NEW k \in Callers
        PROVE  /\ reply'[k] # "none" => pc[k] \in {"waiting", "reclaiming"}
               /\ grant[k] # NoConn <=> pc[k] \in {"checking", "holding"} \/ reply'[k] = "conn"
    <3>1. CallerShape(k)
      BY Zenon, CallerFacts
    <3>2. CASE InQueue(k, waiters)
      <4>1. reply'[k] = "poolClosed" /\ pc[k] \in {"waiting", "reclaiming"} /\ reply[k] = "none"
        BY Zenon, <1>1, <3>1, <3>2 DEF CallerShape
      <4>2. grant[k] # NoConn <=> pc[k] \in {"checking", "holding"} \/ reply[k] = "conn"
        BY Zenon, <3>1 DEF CallerShape
      <4> QED  BY Zenon, <4>1, <4>2
    <3>3. CASE ~InQueue(k, waiters)
      <4>1. reply'[k] = reply[k]
        BY Zenon, <1>1, <3>3
      <4> QED  BY Zenon, <3>1, <4>1 DEF CallerShape
    <3> QED  BY Zenon, <3>2, <3>3
  <2> QED  BY Zenon, <1>1, <2>1, <2>2 DEF QueueShape, GrantShape
<1>8. OneHolder' /\ HandedBack'
  BY Zenon, <1>1 DEF IInv, OneHolder, HandedBack
<1>9. Committed'
  BY Zenon, <1>1 DEF Committed
<1>10. PooledOpen'
  <2>1. \A c \in pooled \cup dialed : socket[c] # "unused"
    BY Zenon, <1>2 DEF OpenShape
  <2>2. pooled \subseteq closed'
    BY Zenon, <1>1
  <2>3. \A k \in Callers : grant[k] # NoConn => grant[k] \in closed'
    BY Zenon, <1>2, <2>2 DEF OpenShape
  <2> QED  BY Zenon, <1>1, <2>1, <2>2, <2>3 DEF PooledOpen
<1>11. DialedFresh'
  <2>1. \A c \in dialed : c \notin pooled \cup closed' /\ returned[c] = "none"
                          /\ \A k \in Callers : grant[k] # c
    BY Zenon, <1>1 DEF IInv, DialedFresh
  <2> QED  BY Zenon, <1>1, <2>1 DEF DialedFresh
<1>12. SweepShape'
  BY Zenon, <1>1 DEF IInv, SweepShape
<1>13. DialsAccounted'
  BY Zenon, <1>1, <1>3 DEF DialsAccounted
<1>14. WithinLimit' /\ NobodyStranded'
  <2>1. {c \in pooled : IsAlive(c)}' = {}
    BY Zenon, <1>1 DEF IsAlive
  <2>2. CountLive(pooled)' = 0
    BY Zenon, <2>1, FS_EmptySet DEF CountLive
  <2>3. MaxConnsPerHost \in Nat
    BY Zenon, H1PoolAssumption
  <2>4. WithinLimit'
    BY <1>1, <2>2, <2>3 DEF WithinLimit
  <2> QED  BY Zenon, <1>1, <2>4 DEF NobodyStranded
<1> QED
  BY Zenon, <1>5, <1>6, <1>7, <1>8, <1>9, <1>10, <1>11, <1>12, <1>13, <1>14 DEF IInv

-----------------------------------------------------------------------------
(* The theorems.                                                           *)

LEMMA NextIInv ==
  ASSUME IInv, [Next]_vars
  PROVE  IInv'
<1>1. ASSUME NEW k \in Callers,
             \/ HandleAcquire(k) \/ TakeReply(k) \/ Expire(k) \/ Abandon(k) \/ Reclaim(k)
             \/ Inspect(k) \/ \E v \in {"keep", "drop"} : Release(k, v)
      PROVE  IInv'
  BY ZenonT(60), <1>1, HandleAcquireKeeps, TakeReplyKeeps, ExpireKeeps, AbandonKeeps, ReclaimKeeps,
     InspectKeeps, ReleaseKeeps
<1>2. ASSUME NEW c \in Conns,
             \/ HandleRelease(c) \/ HandleDialOk(c) \/ DialOneOk(c) \/ Probe(c)
             \/ \E how \in {"fin", "residue"} : Spoil(c, how)
      PROVE  IInv'
  BY Zenon, <1>2, HandleReleaseKeeps, HandleDialOkKeeps, DialOneOkKeeps, ProbeKeeps, SpoilKeeps
<1>3. CASE \/ HandleDialErr \/ HandleStats \/ HandleTick \/ HandleSweepDone
           \/ Close \/ HandleClose \/ DrainDial \/ DialOneErr \/ BackoffEnds
  BY ZenonT(60), <1>3, HandleDialErrKeeps, HandleStatsKeeps, HandleTickKeeps, HandleSweepDoneKeeps,
     CloseKeeps, HandleCloseKeeps, DrainDialKeeps, DialOneErrKeeps, BackoffEndsKeeps
<1>4. CASE UNCHANGED vars
  BY Zenon, <1>4, StutterKeeps
<1> QED  BY Zenon, <1>1, <1>2, <1>3, <1>4 DEF Next

LEMMA SpecIInv == Spec => []IInv
<1>1. Init => IInv
  BY Zenon, InitIInv
<1>2. IInv /\ [Next]_vars => IInv'
  BY Zenon, NextIInv
<1> QED  BY <1>1, <1>2, PTL DEF Spec

\* The connections in the pool and the dials under way never exceed
\* MaxConnsPerHost, whatever a release, a dial, a sweep or a tick starts
\* (ensureDialForWaiters and handleAcquire of client/h1_pool.go).
THEOREM LimitKept == Spec => []WithinLimit
<1>1. IInv => WithinLimit
  BY Zenon DEF IInv
<1> QED  BY <1>1, SpecIInv, PTL

\* While the dial backoff lasts, nobody is queued in an open pool that has neither
\* a connection nor a dial: flushStrandedWaiters has answered them.
THEOREM BackoffStrandsNobody == Spec => []NobodyStranded
<1>1. IInv => NobodyStranded
  BY Zenon DEF IInv
<1> QED  BY <1>1, SpecIInv, PTL

\* The counter of dials that the limit is checked against is exact: it is the
\* dialOne goroutines and their results not yet handled, and after Close the
\* drainer of handleClose awaits exactly those.
THEOREM DialsAreCounted == Spec => []DialsAccounted
<1>1. IInv => DialsAccounted
  BY Zenon DEF IInv
<1> QED  BY <1>1, SpecIInv, PTL

-----------------------------------------------------------------------------

\* What every step of an open pool does to the commitments: what comes back was
\* out, nothing is taken from its user, what came back as not reusable stays so
\* until it is closed, and only what was dialled is admitted.
OpenMove ==
  /\ \A c \in Conns : returned'[c] # "none" =>
       returned'[c] = returned[c] \/ \E k \in Callers : grant[k] = c
  /\ \A k \in Callers : grant[k] # NoConn =>
       grant'[k] = grant[k] \/ returned'[grant[k]] # "none"
  /\ \A c \in Conns : returned[c] = "drop" => returned'[c] = "drop" \/ c \in closed'
  /\ pooled' \subseteq pooled \cup dialed

\* A pool stays closed, and once closed gives nothing away.
LeaseMove ==
  /\ status = "closed" => status' = "closed"
  /\ status' # "closed" => OpenMove
  /\ status' = "closed" => \A k \in Callers : grant'[k] # NoConn => grant'[k] = grant[k]

-----------------------------------------------------------------------------
(* The users and the life of one connection.                               *)

\* In an open pool: a caller, the sweep or nobody uses c, and only what nobody
\* uses is closed, unused or on its way back.
UserShape(c) ==
  /\ \A k \in Callers : grant[k] = c =>
       UsersOf(c) = {k} /\ LifeOf(c) = "open" /\ returned[c] = "none"
  /\ (\A k \in Callers : grant[k] # c) =>
       UsersOf(c) = IF c \in probing THEN {"sweep"} ELSE {}
  /\ c \in probing => LifeOf(c) = "open" /\ returned[c] = "none" /\ c \in pooled
  /\ returned[c] # "none" =>
       c \in pooled /\ UsersOf(c) = {} /\ LifeOf(c) = IF returned[c] = "keep" THEN "back" ELSE "spent"
  /\ returned[c] = "none" => LifeOf(c) \in {"open", "gone"}
  /\ LifeOf(c) = "gone" <=> socket[c] = "unused" \/ c \in closed
  /\ c \notin pooled => UsersOf(c) = {} /\ returned[c] = "none"
  /\ c \in pooled => c \notin closed
  /\ LifeOf(c) = "gone" => c \notin pooled \cup dialed

LEMMA OpenUsers ==
  ASSUME IInv, status # "closed", NEW c \in Conns
  PROVE  UserShape(c)
<1>1. OpenShape
  BY Zenon, OpenFacts
<1>2. \A j, k \in Callers : grant[j] = grant[k] /\ grant[k] # NoConn => j = k
  BY Zenon DEF IInv, OneHolder
<1>3. \A e \in pooled : e \notin closed /\ socket[e] # "unused"
  BY Zenon, <1>1 DEF OpenShape
<1>4. c # NoConn
  BY Zenon, H1PoolAssumption
<1>5. ASSUME NEW k \in Callers, grant[k] = c
      PROVE  UsersOf(c) = {k} /\ LifeOf(c) = "open" /\ returned[c] = "none"
  <2>1. c \in pooled /\ c \notin probing /\ returned[c] = "none"
    BY <1>1, <1>4, <1>5 DEF OpenShape
  <2>2. LifeOf(c) = "open"
    BY Zenon, <1>3, <2>1 DEF LifeOf, IsAlive
  <2>3. UsersOf(c) = {j \in Callers : grant[j] = c}
    BY Zenon, <2>1 DEF UsersOf
  <2>4. {j \in Callers : grant[j] = c} = {k}
    BY Zenon, <1>2, <1>4, <1>5
  <2> QED  BY Zenon, <2>1, <2>2, <2>3, <2>4
<1>6. ASSUME \A k \in Callers : grant[k] # c
      PROVE  UsersOf(c) = IF c \in probing THEN {"sweep"} ELSE {}
  <2>1. {k \in Callers : grant[k] = c} = {}
    BY Zenon, <1>6
  <2>2. c \in probing => IsAlive(c)
    BY Zenon, <1>1, <1>3 DEF OpenShape, IsAlive
  <2> QED  BY Zenon, <2>1, <2>2 DEF UsersOf
<1>7. c \in probing => LifeOf(c) = "open" /\ returned[c] = "none" /\ c \in pooled
  <2>1. c \in probing => c \in pooled /\ returned[c] = "none"
    BY <1>1 DEF OpenShape
  <2> QED  BY Zenon, <1>3, <2>1 DEF LifeOf, IsAlive
<1>8. returned[c] # "none" => c \in pooled /\ \A k \in Callers : grant[k] # c
  BY Zenon, <1>1 DEF OpenShape
<1>9. c \notin pooled => \A k \in Callers : grant[k] # c
  BY <1>1, <1>4 DEF OpenShape
<1>10. returned[c] \in {"none", "keep", "drop"}
  BY Zenon, <1>1 DEF OpenShape
<1>11. /\ returned[c] # "none" => LifeOf(c) = IF returned[c] = "keep" THEN "back" ELSE "spent"
       /\ returned[c] = "none" => LifeOf(c) \in {"open", "gone"}
       /\ LifeOf(c) = "gone" <=> socket[c] = "unused" \/ c \in closed
  BY Zenon, <1>3, <1>8, <1>10 DEF LifeOf, IsAlive
<1>12. socket[c] = "unused" \/ c \in closed => c \notin pooled \cup dialed
  BY Zenon, <1>1 DEF OpenShape
<1>13. c \in probing => returned[c] = "none"
  BY Zenon, <1>7
<1> QED  BY ZenonT(60), <1>3, <1>5, <1>6, <1>7, <1>8, <1>9, <1>11, <1>12, <1>13 DEF UserShape

\* The same of the next state.
LEMMA OpenUsersNext ==
  IInv' /\ (status # "closed")' => (\A c \in Conns : UserShape(c))'
<1>1. IInv /\ status # "closed" => \A c \in Conns : UserShape(c)
  BY Zenon, OpenUsers
<1> QED  BY <1>1, PTL

-----------------------------------------------------------------------------
(* One connection, one step.                                               *)

\* Contract!LeaseStep of a connection with users us and life l.
Moves(us, l, us2, l2) ==
  \/ us2 = us /\ l2 = l
  \/ us = {} /\ l = "gone" /\ us2 = {} /\ l2 = "open"
  \/ us = {} /\ l \in {"open", "back"} /\ l2 = "open" /\ \E u \in Callers \cup {"sweep"} : us2 = {u}
  \/ us = {} /\ l = "back" /\ us2 = {} /\ l2 = "open"
  \/ us = {} /\ l # "gone" /\ us2 = {} /\ l2 = "gone"
  \/ us # {} /\ us # {"sweep"} /\ l = "open" /\ us2 = {} /\ l2 \in {"back", "spent"}
  \/ /\ us = {"sweep"} /\ l = "open"
     /\ \/ us2 = {} /\ l2 \in {"open", "gone"}
        \/ l2 = "open" /\ \E u \in Callers \cup {"sweep"} : us2 = {u}

LEMMA OpenMoves ==
  ASSUME IInv, IInv', status # "closed", status' # "closed", OpenMove, NEW c \in Conns
  PROVE  Moves(UsersOf(c), LifeOf(c), UsersOf(c)', LifeOf(c)')
<1> DEFINE us  == UsersOf(c)
           l   == LifeOf(c)
           us2 == UsersOf(c)'
           l2  == LifeOf(c)'
<1>1. UserShape(c)
  BY Zenon, OpenUsers
<1>2. UserShape(c)'
  BY Zenon, OpenUsersNext
<1>3. /\ returned'[c] # "none" => returned'[c] = returned[c] \/ \E k \in Callers : grant[k] = c
      /\ \A k \in Callers : grant[k] = c => grant'[k] = c \/ returned'[c] # "none"
      /\ returned[c] = "drop" => returned'[c] = "drop" \/ c \in closed'
      /\ c \in pooled' => c \in pooled \cup dialed
  <2>1. c # NoConn
    BY Zenon, H1PoolAssumption
  <2> QED  BY Zenon, <2>1 DEF OpenMove
<1>4. returned[c] \in {"none", "keep", "drop"} /\ returned'[c] \in {"none", "keep", "drop"}
  <2>1. returned \in [Conns -> {"none", "keep", "drop"}]
    BY Zenon DEF IInv, TypeOK
  <2>2. returned' \in [Conns -> {"none", "keep", "drop"}]
    BY Zenon DEF IInv, TypeOK
  <2> QED  BY Zenon, <2>1, <2>2
\* Where a connection may be that is not on its way back.
<1>5. returned'[c] = "none" =>
        \/ us2 = {} /\ l2 \in {"open", "gone"}
        \/ l2 = "open" /\ \E u \in Callers \cup {"sweep"} : us2 = {u}
  <2>1. CASE \E k \in Callers : grant'[k] = c
    BY Zenon, <1>2, <2>1 DEF UserShape
  <2>2. CASE \A k \in Callers : grant'[k] # c
    BY Zenon, <1>2, <2>2 DEF UserShape
  <2> QED  BY Zenon, <2>1, <2>2
<1>6. /\ returned'[c] # "none" => us2 = {} /\ l2 = IF returned'[c] = "keep" THEN "back" ELSE "spent"
      /\ c \notin pooled' => us2 = {} /\ returned'[c] = "none"
      /\ c \in closed' => c \notin pooled' /\ l2 = "gone"
  BY Zenon, <1>2 DEF UserShape
<1>7. CASE \E k \in Callers : grant[k] = c
  <2>1. PICK k \in Callers : grant[k] = c
    BY Zenon, <1>7
  <2>2. us = {k} /\ l = "open"
    BY Zenon, <1>1, <2>1 DEF UserShape
  <2>3. {k} # {} /\ {k} # {"sweep"}
    BY Zenon, H1PoolAssumption
  <2>4. CASE grant'[k] = c
    <3>1. us2 = {k} /\ l2 = "open"
      BY Zenon, <1>2, <2>4 DEF UserShape
    <3> QED  BY Zenon, <2>2, <3>1 DEF Moves
  <2>5. CASE returned'[c] # "none"
    <3>1. us2 = {} /\ l2 \in {"back", "spent"}
      BY Zenon, <1>6, <2>5
    <3> QED  BY Zenon, <2>2, <2>3, <3>1 DEF Moves
  <2> QED  BY Zenon, <1>3, <2>1, <2>4, <2>5
<1>8. ASSUME \A k \in Callers : grant[k] # c
      PROVE  Moves(us, l, us2, l2)
  <2>1. us = (IF c \in probing THEN {"sweep"} ELSE {})
        /\ (returned'[c] # "none" => returned'[c] = returned[c])
    BY Zenon, <1>1, <1>3, <1>8 DEF UserShape
  <2>2. CASE c \in probing
    <3>1. us = {"sweep"} /\ l = "open" /\ returned'[c] = "none"
      BY Zenon, <1>1, <2>1, <2>2 DEF UserShape
    <3>2. \/ us2 = {} /\ l2 \in {"open", "gone"}
          \/ l2 = "open" /\ \E u \in Callers \cup {"sweep"} : us2 = {u}
      BY Zenon, <1>5, <3>1
    <3> QED  BY Zenon, <3>1, <3>2 DEF Moves
  <2>3. CASE c \notin probing /\ returned[c] = "none"
    <3>1. us = {} /\ l \in {"open", "gone"} /\ returned'[c] = "none"
      BY Zenon, <1>1, <2>1, <2>3 DEF UserShape
    <3>2. l = "gone" => us2 = {} /\ l2 \in {"open", "gone"}
      <4>1. l = "gone" => c \notin pooled'
        BY Zenon, <1>1, <1>3 DEF UserShape
      <4> QED  BY Zenon, <1>5, <1>6, <3>1, <4>1
    <3>3. \/ us2 = {} /\ l2 \in {"open", "gone"}
          \/ l2 = "open" /\ \E u \in Callers \cup {"sweep"} : us2 = {u}
      BY Zenon, <1>5, <3>1
    <3> HIDE DEF us, l, us2, l2
    <3> QED  BY Zenon, <3>1, <3>2, <3>3 DEF Moves
  <2>4. CASE returned[c] = "keep"
    <3>1. us = {} /\ l = "back"
      BY Zenon, <1>1, <2>4 DEF UserShape
    <3>2. CASE returned'[c] = "none"
      <4>1. \/ us2 = {} /\ l2 \in {"open", "gone"}
            \/ l2 = "open" /\ \E u \in Callers \cup {"sweep"} : us2 = {u}
        BY Zenon, <1>5, <3>2
      <4> HIDE DEF us, l, us2, l2
      <4> QED  BY Zenon, <3>1, <4>1 DEF Moves
    <3>3. CASE returned'[c] # "none"
      <4>1. us2 = {} /\ l2 = "back"
        BY Zenon, <1>6, <2>1, <2>4, <3>3
      <4> QED  BY Zenon, <3>1, <4>1 DEF Moves
    <3> QED  BY Zenon, <3>2, <3>3
  <2>5. CASE returned[c] = "drop"
    <3>1. us = {} /\ l = "spent"
      BY Zenon, <1>1, <2>5 DEF UserShape
    <3>2. us2 = {} /\ l2 \in {"spent", "gone"}
      BY Zenon, <1>3, <1>6, <2>5
    <3> QED  BY Zenon, <3>1, <3>2 DEF Moves
  <2> QED  BY Zenon, <1>4, <2>2, <2>3, <2>4, <2>5
<1> QED  BY Zenon, <1>7, <1>8

\* In a closed pool only callers still hold connections, and those are closed.
ClosedShape ==
  /\ \A k \in Callers : grant[k] # NoConn => grant[k] \in closed
  /\ probing \subseteq closed

LEMMA ClosedNext ==
  IInv' /\ (status = "closed")' => ClosedShape'
<1>1. IInv /\ status = "closed" => ClosedShape
  <2> SUFFICES ASSUME IInv, status = "closed" PROVE ClosedShape
    BY Zenon
  <2>1. pooled \subseteq closed /\ probing \subseteq pooled
    BY Zenon DEF IInv, PooledOpen, SweepShape
  <2>2. \A k \in Callers : grant[k] # NoConn => grant[k] \in closed
    BY Zenon DEF IInv, PooledOpen
  <2> QED  BY Zenon, <2>1, <2>2 DEF ClosedShape
<1> QED  BY <1>1, PTL

LEMMA MapNext ==
  ASSUME IInv, IInv', LeaseMove
  PROVE  Contract!LeaseNext
<1>1. CASE status' # "closed"
  <2>1. status # "closed" /\ OpenMove
    BY Zenon, <1>1 DEF LeaseMove
  <2>2. ASSUME NEW c \in Conns PROVE Contract!LeaseStep(c)
    <3>1. Moves(UsersOf(c), LifeOf(c), UsersOf(c)', LifeOf(c)')
      BY Zenon, <1>1, <2>1, OpenMoves
    <3> DEFINE users == [e \in Conns |-> UsersOf(e)]
               life  == [e \in Conns |-> LifeOf(e)]
    <3>2. users[c] = UsersOf(c) /\ life[c] = LifeOf(c)
          /\ users'[c] = UsersOf(c)' /\ life'[c] = LifeOf(c)'
      BY Zenon
    <3>3. Moves(users[c], life[c], users'[c], life'[c])
      BY Zenon, <3>1, <3>2
    <3> HIDE DEF users, life
    <3>4. \/ users'[c] = users[c] /\ life'[c] = life[c]
          \/ users[c] = {} /\ life[c] = "gone" /\ users'[c] = {} /\ life'[c] = "open"
          \/ users[c] = {} /\ life[c] \in {"open", "back"}
             /\ \E u \in Callers \cup {"sweep"} : users'[c] = {u} /\ life'[c] = "open"
          \/ users[c] = {} /\ life[c] = "back" /\ users'[c] = {} /\ life'[c] = "open"
          \/ users[c] = {} /\ life[c] # "gone" /\ users'[c] = {} /\ life'[c] = "gone"
          \/ users[c] # {} /\ users[c] # {"sweep"} /\ life[c] = "open"
             /\ \E m \in {"back", "spent"} : users'[c] = {} /\ life'[c] = m
          \/ users[c] = {"sweep"} /\ life[c] = "open"
             /\ (\/ users'[c] = {} /\ life'[c] = "open"
                 \/ users'[c] = {} /\ life'[c] = "gone"
                 \/ \E u \in Callers \cup {"sweep"} : users'[c] = {u} /\ life'[c] = "open")
      BY Zenon, <3>3 DEF Moves
    <3> QED
      BY Zenon, <3>4 DEF users, life, Contract!LeaseStep, Contract!Becomes, Contract!Dial,
         Contract!Take, Contract!Rest, Contract!Retire, Contract!Return, Contract!Inspect
  <2>3. /\ (IF status = "closed" THEN "closed" ELSE "open") = "open"
        /\ (IF status' = "closed" THEN "closed" ELSE "open") = "open"
    BY Zenon, <1>1, <2>1
  <2> QED  BY Zenon, <2>2, <2>3 DEF Contract!LeaseNext
<1>2. CASE status' = "closed"
  <2>1. /\ \A k \in Callers : grant'[k] # NoConn => grant'[k] = grant[k] /\ grant'[k] \in closed'
        /\ probing' \subseteq closed'
    BY Zenon, <1>2, ClosedNext DEF LeaseMove, ClosedShape
  <2>2. ASSUME NEW c \in Conns PROVE Contract!Closed(c)
    <3>1. c # NoConn
      BY Zenon, H1PoolAssumption
    <3>2. UsersOf(c)' = {k \in Callers : grant'[k] = c}
      BY Zenon, <2>1 DEF UsersOf, IsAlive
    <3>3. UsersOf(c)' \subseteq UsersOf(c)
      BY <2>1, <3>1, <3>2 DEF UsersOf
    <3>4. UsersOf(c)' # {} => LifeOf(c)' = "gone"
      BY Zenon, <2>1, <3>1, <3>2 DEF LifeOf, IsAlive
    <3> QED  BY Zenon, <3>3, <3>4 DEF Contract!Closed
  <2>3. (IF status' = "closed" THEN "closed" ELSE "open") = "closed"
    BY Zenon, <1>2
  <2> QED  BY Zenon, <2>2, <2>3 DEF Contract!LeaseNext
<1> QED  BY Zenon, <1>1, <1>2

-----------------------------------------------------------------------------
(* Every step is a LeaseMove.                                              *)

\* Steps that commit nothing and take nothing back.
LEMMA SameMove ==
  ASSUME status = "closed" => status' = "closed", grant' = grant, returned' = returned,
         pooled' \subseteq pooled \cup dialed
  PROVE  LeaseMove
BY Zenon DEF LeaseMove, OpenMove

\* Handlers of an open pool: what is committed stays so.
LEMMA ServeMove ==
  ASSUME IInv, NEW cs \in SUBSET Conns, NEW act \in [Conns -> Nat], NEW probed,
         NEW d \in Nat, NEW why \in {"none", "dialBackoff", "dialError"},
         ServeDialFlush(cs, act, probed, d, why), status # "closed", status' = status,
         cs \subseteq pooled \cup dialed,
         \A c \in Conns : returned'[c] # "none" => returned'[c] = returned[c],
         \A c \in Conns : returned[c] = "drop" => returned'[c] = "drop" \/ c \in closed'
  PROVE  LeaseMove
<1>1. \A k \in Callers : InQueue(k, waiters) => grant[k] = NoConn
  <2> TAKE k \in Callers
  <2>1. CallerShape(k)
    BY Zenon, CallerFacts
  <2> QED  BY Zenon, <2>1 DEF CallerShape
<1>2. TypeOK /\ QueueDistinct
  BY Zenon DEF IInv
<1>3. ServeResult(cs, act, probed, d, why)
  BY Zenon, <1>1, <1>2, ServeFacts
<1>4. pooled' = cs /\ \A k \in Callers : ~InQueue(k, waiters) => grant'[k] = grant[k]
  BY Zenon, <1>3 DEF ServeResult, Untouched
<1>5. \A k \in Callers : grant[k] # NoConn => grant'[k] = grant[k]
  BY Zenon, <1>1, <1>4
<1> QED  BY Zenon, <1>4, <1>5 DEF LeaseMove, OpenMove

LEMMA HandleReleaseMove ==
  ASSUME IInv, NEW c \in Conns, HandleRelease(c)
  PROVE  LeaseMove
<1> DEFINE evict == returned[c] = "drop" \/ ~IsAlive(c)
           cs    == IF evict THEN pooled \ {c} ELSE pooled
           act   == [active EXCEPT ![c] = @ - 1]
<1>1. /\ status # "closed" /\ returned[c] # "none" /\ status' = status
      /\ returned' = [returned EXCEPT ![c] = "none"]
      /\ closed' = IF evict /\ c \in pooled THEN closed \cup {c} ELSE closed
      /\ ServeDialFlush(cs, act, probing, dials, "dialBackoff")
  BY Zenon DEF HandleRelease
<1>2. OpenShape
  BY Zenon, <1>1, OpenFacts
<1>3. dials \in Nat
  BY Zenon, <1>1, OpenDials
<1>4. c \in pooled /\ active[c] = 1
  BY Zenon, <1>1, <1>2 DEF OpenShape
<1>5. act \in [Conns -> Nat] /\ cs \in SUBSET Conns /\ cs \subseteq pooled \cup dialed
  BY <1>2, <1>4 DEF OpenShape
<1>6. \A e \in Conns : returned'[e] # "none" => returned'[e] = returned[e]
  BY Zenon, <1>1, <1>2 DEF OpenShape
<1>7. \A e \in Conns : returned[e] = "drop" => returned'[e] = "drop" \/ e \in closed'
  BY Zenon, <1>1, <1>2, <1>4 DEF OpenShape
<1> HIDE DEF cs, act, evict
<1> QED  BY Zenon, <1>1, <1>3, <1>5, <1>6, <1>7, ServeMove

LEMMA HandleDialOkMove ==
  ASSUME IInv, NEW c \in Conns, HandleDialOk(c)
  PROVE  LeaseMove
<1> DEFINE cs == pooled \cup {c}
           d  == dials - 1
<1>1. /\ status # "closed" /\ c \in dialed /\ status' = status /\ returned' = returned
      /\ ServeDialFlush(cs, active, probing, d, "none")
  BY Zenon DEF HandleDialOk
<1>2. OpenShape
  BY Zenon, <1>1, OpenFacts
<1>3. d \in Nat
  <2>1. /\ dialing \in Nat /\ dialErrs \in Nat /\ dials = dialing + Cardinality(dialed) + dialErrs
        /\ IsFiniteSet(dialed) /\ Cardinality(dialed) \in Nat
    BY Zenon, <1>1, OpenDials
  <2>2. Cardinality(dialed) # 0
    BY Zenon, <1>1, <2>1, FS_EmptySet
  <2> QED  BY <2>1, <2>2
<1>4. active \in [Conns -> Nat] /\ cs \in SUBSET Conns /\ cs \subseteq pooled \cup dialed
  BY Zenon, <1>1, <1>2 DEF OpenShape
<1> HIDE DEF cs, d
<1> QED  BY Zenon, <1>1, <1>3, <1>4, ServeMove

LEMMA HandleSweepDoneMove ==
  ASSUME IInv, HandleSweepDone
  PROVE  LeaseMove
<1> DEFINE cs == pooled \ failed
<1>1. /\ status # "closed" /\ status' = status /\ returned' = returned
      /\ ServeDialFlush(cs, active, {}, dials, "dialBackoff")
  BY Zenon DEF HandleSweepDone
<1>2. OpenShape /\ dials \in Nat
  BY Zenon, <1>1, OpenFacts, OpenDials
<1>3. active \in [Conns -> Nat] /\ cs \in SUBSET Conns /\ cs \subseteq pooled \cup dialed
  BY Zenon, <1>2 DEF OpenShape
<1> HIDE DEF cs
<1> QED  BY Zenon, <1>1, <1>2, <1>3, ServeMove

LEMMA HandleAcquireMove ==
  ASSUME IInv, NEW k \in Callers, HandleAcquire(k)
  PROVE  LeaseMove
<1>1. /\ status # "closed" /\ pc[k] \in {"idle", "retry"} /\ status' = status
      /\ pooled' = pooled /\ returned' = returned
      /\ grant' = grant \/ \E c : grant' = [grant EXCEPT ![k] = c]
  BY Zenon DEF HandleAcquire
<1>2. grant \in [Callers -> Conns \cup {NoConn}] /\ grant[k] = NoConn
  <2>1. CallerShape(k)
    BY Zenon, CallerFacts
  <2> QED  BY Zenon, <1>1, <2>1 DEF CallerShape
<1>3. \A j \in Callers : grant[j] # NoConn => grant'[j] = grant[j]
  BY Zenon, <1>1, <1>2
<1> QED  BY Zenon, <1>1, <1>3 DEF LeaseMove, OpenMove

LEMMA ReturnMove ==
  ASSUME IInv, NEW k \in Callers, NEW v \in {"keep", "drop"}, grant[k] # NoConn,
         SendRelease(k, v), status' = status, pooled' = pooled
  PROVE  LeaseMove
<1>1. Returns(k)
  BY Zenon, SendReleaseReturns
<1>2. /\ \A j \in Callers : j # k => grant'[j] = grant[j]
      /\ grant'[k] = NoConn
      /\ \A c \in Conns : c # grant[k] => returned'[c] = returned[c]
  BY Zenon, <1>1 DEF Returns
<1>3. status # "closed" => returned' = [returned EXCEPT ![grant[k]] = v]
  BY Zenon DEF SendRelease
<1>4. /\ returned \in [Conns -> {"none", "keep", "drop"}] /\ grant[k] \in Conns
      /\ returned[grant[k]] = "none"
  BY Zenon DEF IInv, TypeOK, HandedBack
<1>5. status # "closed" => OpenMove
  <2> SUFFICES ASSUME status # "closed" PROVE OpenMove
    BY Zenon
  <2>1. returned'[grant[k]] = v /\ v # "none"
    BY Zenon, <1>3, <1>4
  <2>2. \A j \in Callers : grant[j] # NoConn => grant'[j] = grant[j] \/ returned'[grant[j]] # "none"
    BY Zenon, <1>2, <2>1
  <2>3. \A c \in Conns : returned'[c] # "none" =>
          returned'[c] = returned[c] \/ \E j \in Callers : grant[j] = c
    BY Zenon, <1>2
  <2>4. \A c \in Conns : returned[c] = "drop" => returned'[c] = "drop"
    BY Zenon, <1>2, <1>4
  <2> QED  BY Zenon, <2>2, <2>3, <2>4 DEF OpenMove
<1>6. \A j \in Callers : grant'[j] # NoConn => grant'[j] = grant[j]
  BY Zenon, <1>2
<1> QED  BY Zenon, <1>5, <1>6 DEF LeaseMove

LEMMA CallerMove ==
  ASSUME IInv, NEW k \in Callers,
         \/ TakeReply(k) \/ Expire(k) \/ Abandon(k) \/ Reclaim(k) \/ Inspect(k)
         \/ \E v \in {"keep", "drop"} : Release(k, v)
  PROVE  LeaseMove
<1>1. status' = status /\ pooled' = pooled
  BY Zenon DEF TakeReply, Expire, Abandon, Reclaim, Inspect, Release, actorVars
<1>2. CallerShape(k)
  BY Zenon, CallerFacts
<1>3. \/ UNCHANGED <<grant, returned>>
      \/ grant[k] # NoConn /\ \E v \in {"keep", "drop"} : SendRelease(k, v)
  <2>1. CASE TakeReply(k) \/ Expire(k) \/ Abandon(k)
    BY Zenon, <2>1 DEF TakeReply, Expire, Abandon
  <2>2. CASE Reclaim(k)
    <3>1. UNCHANGED <<grant, returned>> \/ (reply[k] = "conn" /\ SendRelease(k, "keep"))
      BY Zenon, <2>2 DEF Reclaim
    <3>2. reply[k] = "conn" => grant[k] # NoConn
      BY Zenon, <1>2 DEF CallerShape
    <3> QED  BY Zenon, <3>1, <3>2
  <2>3. CASE Inspect(k)
    <3>1. pc[k] = "checking" /\ (UNCHANGED <<grant, returned>> \/ SendRelease(k, "drop"))
      BY Zenon, <2>3 DEF Inspect
    <3>2. pc[k] \in {"checking", "holding"} => grant[k] # NoConn
      BY Zenon, <1>2 DEF CallerShape
    <3> QED  BY Zenon, <3>1, <3>2
  <2>4. CASE \E v \in {"keep", "drop"} : Release(k, v)
    <3>1. pc[k] = "holding" /\ \E v \in {"keep", "drop"} : SendRelease(k, v)
      BY Zenon, <2>4 DEF Release
    <3>2. pc[k] \in {"checking", "holding"} => grant[k] # NoConn
      BY Zenon, <1>2 DEF CallerShape
    <3> QED  BY Zenon, <3>1, <3>2
  <2> QED  BY Zenon, <2>1, <2>2, <2>3, <2>4
<1>4. CASE UNCHANGED <<grant, returned>>
  BY Zenon, <1>1, <1>4, SameMove
<1>5. CASE grant[k] # NoConn /\ \E v \in {"keep", "drop"} : SendRelease(k, v)
  BY Zenon, <1>1, <1>5, ReturnMove
<1> QED  BY Zenon, <1>3, <1>4, <1>5

LEMMA QuietMove ==
  ASSUME \/ \E c \in Conns :
              DialOneOk(c) \/ Probe(c) \/ \E how \in {"fin", "residue"} : Spoil(c, how)
         \/ HandleDialErr \/ HandleStats \/ HandleTick
         \/ Close \/ HandleClose \/ DrainDial \/ DialOneErr \/ BackoffEnds
         \/ UNCHANGED vars
  PROVE  LeaseMove
<1>1. grant' = grant /\ returned' = returned
  BY Zenon DEF DialOneOk, Probe, Spoil, HandleDialErr, HandleStats, HandleTick, Close,
     HandleClose, DrainDial, DialOneErr, BackoffEnds, vars, callerVars
<1>2. status = "closed" => status' = "closed"
  BY Zenon DEF DialOneOk, Probe, Spoil, HandleDialErr, HandleStats, HandleTick, Close,
     HandleClose, DrainDial, DialOneErr, BackoffEnds, vars
<1>3. pooled' \subseteq pooled
  BY Zenon DEF DialOneOk, Probe, Spoil, HandleDialErr, HandleStats, HandleTick, Close,
     HandleClose, DrainDial, DialOneErr, BackoffEnds, vars, actorVars
<1> QED  BY Zenon, <1>1, <1>2, <1>3, SameMove

LEMMA NextMove ==
  ASSUME IInv, [Next]_vars
  PROVE  LeaseMove
<1>1. ASSUME NEW k \in Callers,
             \/ HandleAcquire(k) \/ TakeReply(k) \/ Expire(k) \/ Abandon(k) \/ Reclaim(k)
             \/ Inspect(k) \/ \E v \in {"keep", "drop"} : Release(k, v)
      PROVE  LeaseMove
  BY Zenon, <1>1, HandleAcquireMove, CallerMove
<1>2. ASSUME NEW c \in Conns,
             \/ HandleRelease(c) \/ HandleDialOk(c) \/ DialOneOk(c) \/ Probe(c)
             \/ \E how \in {"fin", "residue"} : Spoil(c, how)
      PROVE  LeaseMove
  BY Zenon, <1>2, HandleReleaseMove, HandleDialOkMove, QuietMove
<1>3. CASE \/ HandleDialErr \/ HandleStats \/ HandleTick \/ HandleSweepDone
           \/ Close \/ HandleClose \/ DrainDial \/ DialOneErr \/ BackoffEnds
  BY Zenon, <1>3, HandleSweepDoneMove, QuietMove
<1>4. CASE UNCHANGED vars
  BY Zenon, <1>4, QuietMove
<1> QED  BY Zenon, <1>1, <1>2, <1>3, <1>4 DEF Next

LEMMA InitLease == Init => Contract!LeaseInit
<1> SUFFICES ASSUME Init PROVE Contract!LeaseInit
  BY Zenon
<1>1. status = "open" /\ probing = {} /\ (\A k \in Callers : grant[k] = NoConn)
      /\ \A c \in Conns : socket[c] = "unused"
  BY Zenon DEF Init
<1>2. \A c \in Conns : UsersOf(c) = {} /\ LifeOf(c) = "gone"
  BY Zenon, <1>1, H1PoolAssumption DEF UsersOf, LifeOf
<1>3. [c \in Conns |-> UsersOf(c)] = [c \in Conns |-> {}]
      /\ [c \in Conns |-> LifeOf(c)] = [c \in Conns |-> "gone"]
  BY Zenon, <1>2
<1>4. (IF status = "closed" THEN "closed" ELSE "open") = "open"
  BY Zenon, <1>1
<1> QED  BY Zenon, <1>3, <1>4 DEF Contract!LeaseInit

\* The pool implements its contract, for any callers, connections and limit: a
\* connection has one user at a time, a caller of Acquire or the health sweep, who
\* keeps it until handing it back; what was handed back with keepAlive=false is
\* never used again; a closed pool gives nothing away (client/h1_pool.go).
THEOREM CheckoutIsExclusive == Spec => ExclusiveCheckout
<1>1. Init => Contract!LeaseInit
  BY Zenon, InitLease
<1>2. IInv /\ IInv' /\ [Next]_vars => [Contract!LeaseNext]_(Contract!leaseVars)
  BY Zenon, NextMove, MapNext
<1>3. Spec => []IInv
  BY Zenon, SpecIInv
<1> QED
  BY <1>1, <1>2, <1>3, PTL DEF Spec, ExclusiveCheckout, Contract!LeaseSpec
=============================================================================
