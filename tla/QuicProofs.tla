----------------------------- MODULE QuicProofs -----------------------------
(* Proofs about the parts of one QUIC connection and of the server's listener:
   the key generations of QuicKeys, the stream credit of QuicLife, the handshakes
   of QuicListener, and the connection ids of QuicConnIDs. Each part has its
   inductive invariant, one lemma per kind of step, and its theorem. *)
EXTENDS QuicKeys, QuicLife, QuicListener, QuicConnIDs, FiniteSetTheorems, TLAPS

USE SMTT(30)

-----------------------------------------------------------------------------
(* QuicKeys. *)
KeyTypes ==
  /\ peerGen \in Nat /\ peerPN \in Nat /\ gen \in Nat /\ sendCount \in Nat
  /\ prev \in Nat \cup {None} /\ boundary \in Nat \cup {None}
  /\ transit \subseteq [pn : Nat, gen : Nat]
  /\ current \in BOOLEAN

\* Packet numbers follow generations, and the boundary parts them.
KeyOrder ==
  /\ \A p \in transit : p.pn < peerPN /\ p.gen <= peerGen
  /\ \A p, q \in transit : p.gen < q.gen => p.pn < q.pn
  /\ prev # None => prev = gen - 1 /\ boundary # None
  /\ boundary # None =>
       /\ boundary < peerPN
       /\ \A p \in transit : /\ p.gen < gen => p.pn < boundary
                             /\ p.gen > gen => p.pn > boundary

KeyIInv ==
  /\ KeyTypes /\ KeyOrder
  /\ gen <= peerGen /\ peerGen <= gen + 1 /\ (current => gen = peerGen)
  /\ sendCount <= SealLimit

LEMMA KeyInitHolds == KeyInit => KeyIInv
<1> SUFFICES ASSUME KeyInit PROVE KeyIInv
  BY Zenon
<1>1. KeyTypes
  <2>1. current \in BOOLEAN
    BY Zenon DEF KeyInit
  <2> QED BY Zenon, <2>1 DEF KeyInit, KeyTypes
<1>2. KeyOrder
  BY Zenon DEF KeyInit, KeyOrder
<1>3. gen <= peerGen /\ peerGen <= gen + 1 /\ gen = peerGen /\ sendCount <= SealLimit
  BY KeyAssumption DEF KeyInit
<1> QED BY Zenon, <1>1, <1>2, <1>3 DEF KeyIInv

\* The key tried is the previous, the current or the next one.
LEMMA OpenerChoice ==
  ASSUME KeyTypes, KeyOrder, NEW p \in transit
  PROVE  /\ OpenerFor(p) = p.gen /\ OpenerFor(p) # gen + 1 => p.gen <= gen
         /\ p.gen \in {gen, gen + 1, prev} => OpenerFor(p) = p.gen
<1>1. p.gen \in Nat /\ p.pn \in Nat /\ gen \in Nat
  BY Zenon DEF KeyTypes
<1>2. prev # None => prev = gen - 1 /\ boundary \in Nat /\ gen \in Nat \ {0}
  BY DEF KeyTypes, KeyOrder, None
<1>3. boundary # None => (p.gen < gen => p.pn < boundary) /\ (p.gen > gen => p.pn > boundary)
  BY Zenon DEF KeyOrder
<1>4. OpenerFor(p) = p.gen /\ OpenerFor(p) # gen + 1 => p.gen <= gen
  <2>1. OpenerFor(p) = gen \/ OpenerFor(p) = gen + 1 \/ (prev # None /\ OpenerFor(p) = prev)
    BY Zenon DEF OpenerFor
  <2> QED BY <1>1, <1>2, <2>1
<1>5. p.gen = gen => OpenerFor(p) = p.gen
  BY Zenon DEF OpenerFor
<1>6. p.gen = gen + 1 => OpenerFor(p) = p.gen
  <2> SUFFICES ASSUME p.gen = gen + 1 PROVE OpenerFor(p) = gen + 1
    BY Zenon
  <2>1. Phase(p.gen) # Phase(gen)
    BY <1>1 DEF Phase
  <2>2. ~(prev # None /\ boundary # None /\ p.pn < boundary)
    BY <1>1, <1>2, <1>3
  <2> QED BY Zenon, <2>1, <2>2 DEF OpenerFor
<1>7. p.gen = prev => OpenerFor(p) = p.gen
  <2> SUFFICES ASSUME p.gen = prev PROVE OpenerFor(p) = prev
    BY Zenon
  <2>1. prev # None /\ boundary # None
    BY <1>1, <1>2 DEF None
  <2>2. Phase(p.gen) # Phase(gen)
    BY <1>1, <1>2, <2>1 DEF Phase
  <2>3. p.pn < boundary
    BY <1>1, <1>2, <1>3, <2>1
  <2> QED BY Zenon, <2>1, <2>2, <2>3 DEF OpenerFor
<1> QED BY Zenon, <1>4, <1>5, <1>6, <1>7

\* What a packet that left the network leaves behind.
LEMMA FewerPackets ==
  ASSUME KeyTypes, KeyOrder, NEW p \in transit, transit' = transit \ {p},
         peerPN' = peerPN, peerGen' = peerGen, gen' = gen, prev' = prev, boundary' = boundary
  PROVE  KeyOrder'
BY Zenon DEF KeyOrder

LEMMA PeerSealsKeeps ==
  ASSUME KeyIInv, NEW update \in BOOLEAN, PeerSeals(update) PROVE KeyIInv'
<1> DEFINE new == [pn |-> peerPN, gen |-> peerGen']
<1> USE DEF PeerSeals
<1>1. peerGen' \in Nat /\ peerPN' \in Nat /\ peerGen <= peerGen' /\ peerPN' = peerPN + 1
  BY DEF KeyIInv, KeyTypes
<1>2. new \in [pn : Nat, gen : Nat] /\ new.pn = peerPN /\ new.gen = peerGen'
  BY Zenon, <1>1 DEF KeyIInv, KeyTypes
<1>3. KeyTypes'
  BY Zenon, <1>1, <1>2 DEF KeyIInv, KeyTypes
<1>4. gen' = gen /\ peerGen' <= gen + 1 /\ gen <= peerGen' /\ (current' => gen = peerGen')
  <2>1. gen' = gen /\ gen \in Nat /\ peerGen \in Nat /\ gen <= peerGen /\ peerGen <= gen + 1
    BY Zenon DEF KeyIInv, KeyTypes
  <2>2. CASE update
    <3>1. ~current' /\ current
      BY <2>2, Zenon
    <3>2. gen = peerGen /\ peerGen' = peerGen + 1
      BY Zenon, <2>2, <3>1 DEF KeyIInv
    <3> QED BY <2>1, <3>1, <3>2
  <2>3. CASE ~update
    <3>1. current' => current
      BY Zenon
    <3>2. peerGen' = peerGen
      BY Zenon, <2>3
    <3> QED BY Zenon, <2>1, <3>1, <3>2 DEF KeyIInv
  <2> QED BY Zenon, <2>2, <2>3
<1>5. \A q \in transit : q.pn \in Nat /\ q.gen \in Nat /\ q.pn < peerPN /\ q.gen <= peerGen
  BY Zenon DEF KeyIInv, KeyTypes, KeyOrder
<1> HIDE DEF new
<1>6. transit' = transit \cup {new}
  BY Zenon DEF new
<1>7. \A q \in transit' : q.pn < peerPN' /\ q.gen <= peerGen'
  BY <1>1, <1>2, <1>5, <1>6 DEF KeyIInv, KeyTypes
<1>8. \A q, r \in transit' : q.gen < r.gen => q.pn < r.pn
  <2> SUFFICES ASSUME NEW q \in transit', NEW r \in transit', q.gen < r.gen PROVE q.pn < r.pn
    BY Zenon
  <2>1. CASE q \in transit /\ r \in transit
    BY Zenon, <2>1 DEF KeyIInv, KeyOrder
  <2>2. CASE q \in transit /\ r = new
    BY Zenon, <2>2, <1>2, <1>5
  <2>3. CASE q = new
    BY <2>3, <1>1, <1>2, <1>5, <1>6 DEF KeyIInv, KeyTypes
  <2> QED BY Zenon, <1>6, <2>1, <2>2, <2>3
<1>9. prev' # None => prev' = gen' - 1 /\ boundary' # None
  BY Zenon DEF KeyIInv, KeyOrder
<1>10. boundary' # None =>
         /\ boundary' < peerPN'
         /\ \A q \in transit' : (q.gen < gen' => q.pn < boundary') /\ (q.gen > gen' => q.pn > boundary')
  <2> SUFFICES ASSUME boundary # None
               PROVE /\ boundary < peerPN'
                     /\ \A q \in transit' : /\ q.gen < gen => q.pn < boundary
                                            /\ q.gen > gen => q.pn > boundary
    BY Zenon
  <2>1. boundary \in Nat /\ boundary < peerPN /\ peerPN \in Nat /\ gen \in Nat
    BY Zenon DEF KeyIInv, KeyTypes, KeyOrder
  <2>2. \A q \in transit : (q.gen < gen => q.pn < boundary) /\ (q.gen > gen => q.pn > boundary)
    BY Zenon DEF KeyIInv, KeyOrder
  <2>3. (new.gen < gen => new.pn < boundary) /\ (new.gen > gen => new.pn > boundary)
    BY <2>1, <1>1, <1>2, <1>4
  <2> QED BY <1>1, <1>6, <2>1, <2>2, <2>3
<1>11. KeyOrder'
  BY Zenon, <1>7, <1>8, <1>9, <1>10 DEF KeyOrder
<1> QED BY Zenon, <1>3, <1>4, <1>11 DEF KeyIInv

LEMMA OpenAppKeeps ==
  ASSUME KeyIInv, NEW p \in transit, OpenApp(p) PROVE KeyIInv'
<1>1. /\ transit' = transit \ {p} /\ peerGen' = peerGen /\ peerPN' = peerPN
      /\ transit' \subseteq transit
  BY Zenon DEF OpenApp
<1>2. p.gen \in Nat /\ p.pn \in Nat /\ p.gen <= peerGen /\ p.pn < peerPN
  BY Zenon DEF KeyIInv, KeyTypes, KeyOrder
<1>3. OpenerFor(p) = p.gen /\ OpenerFor(p) # gen + 1 => p.gen <= gen
  BY Zenon, OpenerChoice DEF KeyIInv
<1>4. CASE /\ gen' = gen /\ prev' = prev /\ boundary' = boundary /\ sendCount' = sendCount
           /\ current' = current
  <2>1. KeyOrder'
    BY Zenon, <1>1, <1>4, FewerPackets DEF KeyIInv
  <2> QED BY Zenon, <1>1, <1>4, <2>1 DEF KeyIInv, KeyTypes
<1>5. CASE /\ gen' = gen /\ prev' = prev /\ boundary' = boundary /\ sendCount' = sendCount
           /\ OpenerFor(p) = p.gen /\ OpenerFor(p) # gen + 1
           /\ current' = (current \/ p.gen = peerGen)
  <2>1. KeyOrder'
    BY Zenon, <1>1, <1>5, FewerPackets DEF KeyIInv
  <2>2. current' => gen = peerGen
    BY <1>2, <1>3, <1>5 DEF KeyIInv, KeyTypes
  <2>3. current' \in BOOLEAN
    BY Zenon, <1>5
  <2> QED BY Zenon, <1>1, <1>5, <2>1, <2>2, <2>3 DEF KeyIInv, KeyTypes
<1>6. CASE /\ OpenerFor(p) = p.gen /\ OpenerFor(p) = gen + 1
           /\ CommitKeyUpdate(p) /\ current' = (current \/ p.gen = peerGen)
  <2>1. p.gen = gen + 1 /\ peerGen = gen + 1 /\ gen \in Nat /\ peerPN \in Nat
    BY <1>2, <1>6 DEF KeyIInv, KeyTypes
  <2>2. prev' = gen /\ gen' = gen + 1 /\ boundary' = p.pn /\ sendCount' = 0
    BY Zenon, <1>6 DEF CommitKeyUpdate
  <2>3. current' \in BOOLEAN
    BY Zenon, <1>6
  <2>4. KeyTypes'
    BY Zenon, <1>1, <1>2, <2>1, <2>2, <2>3 DEF KeyIInv, KeyTypes
  <2>5. \A q \in transit : q.pn \in Nat /\ q.gen \in Nat /\ q.gen <= gen + 1 /\ (q.gen < p.gen => q.pn < p.pn)
    BY Zenon, <2>1 DEF KeyIInv, KeyTypes, KeyOrder
  <2>6. \A q \in transit' : (q.gen < gen' => q.pn < boundary') /\ (q.gen > gen' => q.pn > boundary')
    BY <1>1, <2>1, <2>2, <2>5
  <2>7. boundary' < peerPN' /\ prev' = gen' - 1 /\ boundary' # None
    BY <1>1, <1>2, <2>1, <2>2 DEF None
  <2>8. /\ \A q \in transit' : q.pn < peerPN' /\ q.gen <= peerGen'
        /\ \A q, r \in transit' : q.gen < r.gen => q.pn < r.pn
    BY Zenon, <1>1 DEF KeyIInv, KeyOrder
  <2>9. KeyOrder'
    BY Zenon, <2>6, <2>7, <2>8 DEF KeyOrder
  <2>10. gen' <= peerGen' /\ peerGen' <= gen' + 1 /\ gen' = peerGen' /\ sendCount' <= SealLimit
    BY <1>1, <2>1, <2>2, KeyAssumption
  <2> QED BY Zenon, <2>4, <2>9, <2>10 DEF KeyIInv
<1> QED BY Zenon, <1>4, <1>5, <1>6 DEF OpenApp

LEMMA KeyStepHolds == KeyIInv /\ [KeyNext]_keyVars => KeyIInv'
<1> SUFFICES ASSUME KeyIInv, [KeyNext]_keyVars PROVE KeyIInv'
  BY Zenon
<1>1. ASSUME NEW update \in BOOLEAN, PeerSeals(update) PROVE KeyIInv'
  BY Zenon, <1>1, PeerSealsKeeps
<1>2. ASSUME NEW p \in transit, OpenApp(p) PROVE KeyIInv'
  BY Zenon, <1>2, OpenAppKeeps
<1>3. ASSUME NEW p \in transit, PacketLost(p) PROVE KeyIInv'
  <2>1. KeyOrder'
    BY Zenon, <1>3, FewerPackets DEF PacketLost, KeyIInv
  <2> QED BY Zenon, <1>3, <2>1 DEF PacketLost, KeyIInv, KeyTypes
<1>4. CASE DiscardStaleKeys
  BY Zenon, <1>4 DEF DiscardStaleKeys, KeyIInv, KeyTypes, KeyOrder
<1>5. CASE Seal
  <2>1. sendCount' \in Nat /\ sendCount' <= SealLimit
    BY <1>5, KeyAssumption DEF Seal, KeyIInv, KeyTypes
  <2> QED BY Zenon, <1>5, <2>1 DEF Seal, KeyIInv, KeyTypes, KeyOrder
<1>6. CASE Confirm
  BY Zenon, <1>6 DEF Confirm, KeyIInv, KeyTypes, KeyOrder
<1>7. CASE UNCHANGED keyVars
  BY Zenon, <1>7 DEF keyVars, KeyIInv, KeyTypes, KeyOrder
<1> QED BY Zenon, <1>1, <1>2, <1>3, <1>4, <1>5, <1>6, <1>7 DEF KeyNext

(***************************************************************************)
(* KeysFollow holds in every behaviour, for any number of packets and any  *)
(* limit of the cipher: openApp tries a packet with the key that sealed it *)
(* while it has that key, and the generation committed to is never ahead   *)
(* of the peer's nor two behind it (src/quic/conn_crypto.go:91).           *)
(***************************************************************************)
THEOREM KeysAlwaysFollow == KeySpec => []KeysFollow
<1>1. KeyIInv => KeysFollow
  <2> SUFFICES ASSUME KeyIInv PROVE KeysFollow
    BY Zenon
  <2>1. \A p \in transit : p.gen \in {gen, gen + 1, prev} => OpenerFor(p) = p.gen
    BY Zenon, OpenerChoice DEF KeyIInv
  <2> QED BY Zenon, <2>1 DEF KeyIInv, KeysFollow
<1> QED BY <1>1, KeyInitHolds, KeyStepHolds, PTL DEF KeySpec

-----------------------------------------------------------------------------
(* QuicLife. *)
OpenerPlaces == {"try", "parked", "refused", "open", "cancelled", "failed"}

CloseErrors ==
  {NoError, "ErrConnClosed", "poll error", "peer closed", "ErrIdleTimeout", "ErrStatelessReset"}

OpenerType == [at : OpenerPlaces, seen : Int, err : CloseErrors]

LifeTypes ==
  /\ limit \in Nat /\ opened \in Nat /\ token \in BOOLEAN /\ blockedAt \in Int
  /\ opener \in [Openers -> OpenerType]
  /\ notices \subseteq [limit : Nat, arrived : BOOLEAN]
  /\ requeued \subseteq Nat /\ told \subseteq Nat
  /\ terminated \in BOOLEAN /\ closed \in BOOLEAN /\ closeErr \in CloseErrors

\* Nobody saw a limit that was not granted yet, and what arrived was told.
LifeShape ==
  /\ closed => terminated
  /\ blockedAt <= limit /\ \A o \in Openers : opener[o].seen <= limit
  /\ \A n \in notices : n.arrived => n.limit \in told
  /\ \A o \in Openers : opener[o].at = "failed" => terminated /\ opener[o].err = closeErr

\* Somebody was refused at the limit still in force.
RefusedNow == blockedAt = limit \/ \E o \in Parked : opener[o].seen = limit

LifeIInv ==
  /\ LifeTypes /\ LifeShape
  /\ ~terminated /\ RefusedNow => StreamsBlockedNow /\ PeerIsTold
  /\ ~terminated /\ Parked # {} => Stirring \/ StreamsBlockedNow


LEMMA LifeInitHolds == LifeInit => LifeIInv
<1> SUFFICES ASSUME LifeInit PROVE LifeIInv
  BY Zenon
<1> USE DEF LifeInit
<1>1. token \in BOOLEAN /\ terminated \in BOOLEAN /\ closed \in BOOLEAN /\ ~closed
  BY Zenon
<1>2. opener \in [Openers -> OpenerType]
  <2>1. [at |-> "try", seen |-> NoLimit, err |-> NoError] \in OpenerType
    BY DEF OpenerType, OpenerPlaces, CloseErrors, NoLimit
  <2> QED BY Zenon, <2>1
<1>3. \A o \in Openers : opener[o].at = "try" /\ opener[o].seen = -1
  BY Zenon DEF NoLimit
<1>4. LifeTypes
  BY <1>1, <1>2 DEF LifeTypes, NoLimit, CloseErrors
<1>5. LifeShape
  BY <1>1, <1>3 DEF LifeShape, NoLimit
<1>6. ~RefusedNow /\ Parked = {}
  BY <1>3 DEF RefusedNow, Parked, NoLimit
<1> QED BY Zenon, <1>4, <1>5, <1>6 DEF LifeIInv

\* An opener that moves: everybody else stays where they are.
LEMMA OpenerMoves ==
  ASSUME LifeTypes, LifeShape, NEW o \in Openers, NEW at \in OpenerPlaces \ {"failed"}, Goes(o, at)
  PROVE  /\ opener' \in [Openers -> OpenerType]
         /\ \A x \in Openers \ {o} : opener'[x] = opener[x]
         /\ opener'[o].at = at /\ opener'[o].seen = IF at = "parked" THEN limit ELSE NoLimit
         /\ \A x \in Openers : opener'[x].seen <= limit
<1> DEFINE s == IF at = "parked" THEN limit ELSE NoLimit
<1>1. s \in Int /\ s <= limit
  <2>1. limit \in Nat /\ NoLimit \in Int /\ NoLimit <= limit
    BY DEF NoLimit, LifeTypes
  <2>2. s = limit \/ s = NoLimit
    BY Zenon
  <2> HIDE DEF s
  <2> QED BY <2>1, <2>2
<1> DEFINE r == [at |-> at, seen |-> s, err |-> opener[o].err]
<1> HIDE DEF s
<1>2. /\ opener[o] \in OpenerType
      /\ opener[o] = [at |-> opener[o].at, seen |-> opener[o].seen, err |-> opener[o].err]
  BY Zenon DEF LifeTypes, OpenerType
<1>3. r \in OpenerType /\ r.at = at /\ r.seen = s /\ r.err = opener[o].err
  BY Zenon, <1>1, <1>2 DEF OpenerType
<1>4. opener' = [opener EXCEPT ![o] = r]
  <2>1. opener' = [opener EXCEPT ![o] = [opener[o] EXCEPT !.at = at, !.seen = s]]
    BY Zenon DEF Goes, s
  <2>2. [opener[o] EXCEPT !.at = at] = [at |-> at, seen |-> opener[o].seen, err |-> opener[o].err]
    BY <1>2
  <2>3. [[opener[o] EXCEPT !.at = at] EXCEPT !.seen = s] = r
    <3>1. [[at |-> at, seen |-> opener[o].seen, err |-> opener[o].err] EXCEPT !.seen = s] = r
      OBVIOUS
    <3> QED BY <2>2, <3>1, Zenon
  <2>4. [opener[o] EXCEPT !.at = at, !.seen = s] = r
    BY Zenon, <1>2, <2>3
  <2> QED BY <2>1, <2>4, Zenon
<1> HIDE DEF r
<1>5. opener' \in [Openers -> OpenerType] /\ \A x \in Openers \ {o} : opener'[x] = opener[x]
  BY Zenon, <1>3, <1>4 DEF LifeTypes
<1>6. opener'[o].at = at /\ opener'[o].seen = s
  BY Zenon, <1>3, <1>4 DEF LifeTypes
<1>7. \A x \in Openers : opener'[x].seen <= limit
  BY Zenon, <1>1, <1>5, <1>6 DEF LifeShape
<1> QED BY Zenon, <1>5, <1>6, <1>7 DEF s

\* Nothing about the openers, the limit or the end changes.
LEMMA NoticeStep ==
  ASSUME LifeIInv, notices' \subseteq [limit : Nat, arrived : BOOLEAN],
         requeued' \subseteq Nat, told' \subseteq Nat,
         \A n \in notices' : n.arrived => n.limit \in told',
         ~terminated /\ RefusedNow => PeerIsTold',
         UNCHANGED <<limit, opened, opener, token, blockedAt, endVars>>
  PROVE  LifeIInv'
<1>1. LifeTypes' /\ LifeShape'
  <2>1. LifeTypes'
    BY Zenon DEF LifeIInv, LifeTypes, endVars
  <2>2. LifeShape'
    BY Zenon DEF LifeIInv, LifeShape, endVars
  <2> QED BY Zenon, <2>1, <2>2
<1>2. /\ RefusedNow' = RefusedNow /\ Parked' = Parked /\ Stirring' = Stirring
      /\ StreamsBlockedNow' = StreamsBlockedNow
  BY Zenon DEF RefusedNow, Parked, Stirring, StreamsBlockedNow
<1>3. terminated' = terminated
  BY Zenon DEF endVars
<1> QED BY <1>1, <1>2, <1>3, Zenon DEF LifeIInv

\* emitStreamsBlocked leaves the peer told, or about to be, of the limit in force.
LEMMA EmitTells ==
  ASSUME LifeIInv, EmitStreamsBlocked, StreamsBlockedNow, UNCHANGED <<limit, requeued>>
  PROVE  /\ notices' \subseteq [limit : Nat, arrived : BOOLEAN] /\ told' = told
         /\ blockedAt' \in Int /\ blockedAt' <= limit
         /\ \A n \in notices' : n.arrived => n.limit \in told
         /\ ~terminated => PeerIsTold'
<1>1. CASE closed \/ blockedAt = limit
  <2>1. UNCHANGED <<blockedAt, notices, told>>
    BY <1>1, Zenon DEF EmitStreamsBlocked
  <2>2. ~terminated => PeerIsTold
    BY <1>1, Zenon DEF LifeIInv, LifeShape, RefusedNow
  <2>3. PeerIsTold' = PeerIsTold
    BY <2>1, Zenon DEF PeerIsTold
  <2>4. ~terminated => PeerIsTold'
    BY Zenon, <2>2, <2>3
  <2> QED BY Zenon, <2>1, <2>4 DEF LifeIInv, LifeTypes, LifeShape
<1>2. CASE ~(closed \/ blockedAt = limit)
  <2> DEFINE new == [limit |-> limit, arrived |-> FALSE]
  <2>1. /\ notices' = notices \cup {new} /\ (blockedAt' = limit \/ blockedAt' = blockedAt)
        /\ told' = told
    BY <1>2, Zenon DEF EmitStreamsBlocked
  <2>2. new \in [limit : Nat, arrived : BOOLEAN] /\ new.limit = limit /\ ~new.arrived
    BY Zenon DEF LifeIInv, LifeTypes
  <2> HIDE DEF new
  <2>3. blockedAt' \in Int /\ blockedAt' <= limit
    BY <2>1 DEF LifeIInv, LifeTypes, LifeShape
  <2>4. notices' \subseteq [limit : Nat, arrived : BOOLEAN]
    BY <2>1, <2>2, Zenon DEF LifeIInv, LifeTypes
  <2>5. \A n \in notices' : n.arrived => n.limit \in told
    BY <2>1, <2>2, Zenon DEF LifeIInv, LifeShape
  <2>6. PeerIsTold'
    <3>1. \E n \in notices' : n.limit = limit'
      BY <2>1, <2>2, Zenon
    <3> QED BY <3>1, Zenon DEF PeerIsTold
  <2> QED BY Zenon, <2>1, <2>3, <2>4, <2>5, <2>6
<1> QED BY Zenon, <1>1, <1>2

LEMMA TryOpenKeeps ==
  ASSUME LifeIInv, NEW o \in Openers, TryOpen(o) PROVE LifeIInv'
<1>1. opener[o].at = "try" /\ limit' = limit /\ requeued' = requeued /\ UNCHANGED endVars
  BY Zenon DEF TryOpen
<1>2. terminated' = terminated /\ closed' = closed /\ closeErr' = closeErr
  BY <1>1, Zenon DEF endVars
<1>3. CASE StreamsBlockedNow
  <2>1. /\ Goes(o, "parked") \/ Goes(o, "refused")
        /\ EmitStreamsBlocked /\ opened' = opened /\ token' = token
    BY <1>3, Zenon DEF TryOpen
  <2>2. PICK at \in {"parked", "refused"} : Goes(o, at)
    BY <2>1, Zenon
  <2>3. at \in OpenerPlaces \ {"failed"} /\ at # "try"
    BY Zenon DEF OpenerPlaces
  <2>4. /\ opener' \in [Openers -> OpenerType]
        /\ \A x \in Openers \ {o} : opener'[x] = opener[x]
        /\ opener'[o].at = at
        /\ \A x \in Openers : opener'[x].seen <= limit
    BY Zenon, <2>2, <2>3, OpenerMoves DEF LifeIInv
  <2>5. /\ notices' \subseteq [limit : Nat, arrived : BOOLEAN] /\ told' = told
        /\ blockedAt' \in Int /\ blockedAt' <= limit
        /\ \A n \in notices' : n.arrived => n.limit \in told
        /\ ~terminated => PeerIsTold'
    BY Zenon, <1>1, <1>3, <2>1, EmitTells
  <2>6. LifeTypes'
    BY Zenon, <1>1, <1>2, <2>1, <2>4, <2>5 DEF LifeIInv, LifeTypes
  <2>7. \A x \in Openers : opener'[x].at = "failed" => terminated /\ opener'[x].err = closeErr
    <3> SUFFICES ASSUME NEW x \in Openers, opener'[x].at = "failed"
                 PROVE terminated /\ opener'[x].err = closeErr
      BY Zenon
    <3>1. x # o
      BY Zenon, <2>4
    <3> QED BY Zenon, <2>4, <3>1 DEF LifeIInv, LifeShape
  <2>8. LifeShape'
    BY Zenon, <1>1, <1>2, <2>4, <2>5, <2>7 DEF LifeIInv, LifeShape
  <2>9. StreamsBlockedNow'
    BY Zenon, <1>1, <1>3, <2>1 DEF StreamsBlockedNow
  <2> QED BY <1>2, <2>5, <2>6, <2>8, <2>9, Zenon DEF LifeIInv
<1>4. CASE ~StreamsBlockedNow
  <2>1. /\ Goes(o, "open") /\ opened' = opened + 1 /\ BatonPass
        /\ blockedAt' = blockedAt /\ notices' = notices /\ told' = told
    BY <1>4, Zenon DEF TryOpen
  <2>2. "open" \in OpenerPlaces \ {"failed"}
    BY Zenon DEF OpenerPlaces
  <2>3. /\ opener' \in [Openers -> OpenerType]
        /\ \A x \in Openers \ {o} : opener'[x] = opener[x]
        /\ opener'[o].at = "open"
        /\ \A x \in Openers : opener'[x].seen <= limit
    BY Zenon, <2>1, <2>2, OpenerMoves DEF LifeIInv
  <2>4. token' \in BOOLEAN
    BY <2>1, Zenon DEF BatonPass
  <2>5. opened \in Nat /\ limit \in Nat
    BY Zenon DEF LifeIInv, LifeTypes
  <2>6. LifeTypes'
    BY <1>1, <1>2, <2>1, <2>3, <2>4 DEF LifeIInv, LifeTypes
  <2>7. \A x \in Openers : opener'[x].at = "failed" => terminated /\ opener'[x].err = closeErr
    <3> SUFFICES ASSUME NEW x \in Openers, opener'[x].at = "failed"
                 PROVE terminated /\ opener'[x].err = closeErr
      BY Zenon
    <3>1. x # o
      BY Zenon, <2>3
    <3> QED BY Zenon, <2>3, <3>1 DEF LifeIInv, LifeShape
  <2>8. LifeShape'
    BY Zenon, <1>1, <1>2, <2>1, <2>3, <2>7 DEF LifeIInv, LifeShape
  <2>9. RefusedNow' => RefusedNow
    <3>1. ASSUME NEW x \in Openers, opener'[x].at = "parked", opener'[x].seen = limit
          PROVE  RefusedNow
      <4>1. x # o
        BY Zenon, <2>3, <3>1
      <4>2. opener[x] = opener'[x]
        BY Zenon, <2>3, <4>1
      <4> QED BY <3>1, <4>2, Zenon DEF RefusedNow, Parked
    <3> QED BY <1>1, <2>1, <3>1, Zenon DEF RefusedNow, Parked
  <2>10. ~terminated => ~RefusedNow
    BY <1>4, Zenon DEF LifeIInv
  <2>11. token' \/ StreamsBlockedNow'
    <3>1. opened + 1 < limit => token'
      BY <2>1, Zenon DEF BatonPass
    <3>2. ~(opened + 1 < limit) => StreamsBlockedNow'
      BY <1>1, <2>1, <2>5 DEF StreamsBlockedNow
    <3> QED BY Zenon, <3>1, <3>2
  <2>12. Stirring' \/ StreamsBlockedNow'
    BY <2>11, Zenon DEF Stirring
  <2> QED BY <1>2, <2>6, <2>8, <2>9, <2>10, <2>12, Zenon DEF LifeIInv
<1> QED BY Zenon, <1>3, <1>4

\* An opener leaves its wait; it may take the token along.
LEMMA WakeKeeps ==
  ASSUME LifeIInv, NEW o \in Openers, opener[o].at = "parked",
         \/ token' = FALSE /\ Goes(o, "try")
         \/ token' = token /\ Goes(o, "cancelled"),
         UNCHANGED <<limit, opened, blockedAt, notices, requeued, told, endVars>>
  PROVE  LifeIInv'
<1>1. terminated' = terminated /\ closed' = closed /\ closeErr' = closeErr
  BY Zenon DEF endVars
<1>2. PICK at \in {"try", "cancelled"} :
        Goes(o, at) /\ (at = "try" \/ token' = token)
  BY Zenon
<1>3. at \in OpenerPlaces \ {"failed"} /\ at # "parked"
  BY Zenon DEF OpenerPlaces
<1>4. /\ opener' \in [Openers -> OpenerType]
      /\ \A x \in Openers \ {o} : opener'[x] = opener[x]
      /\ opener'[o].at = at
      /\ \A x \in Openers : opener'[x].seen <= limit
  BY Zenon, <1>2, <1>3, OpenerMoves DEF LifeIInv
<1>5. token' \in BOOLEAN
  BY Zenon DEF LifeIInv, LifeTypes
<1>6. LifeTypes'
  BY Zenon, <1>1, <1>4, <1>5 DEF LifeIInv, LifeTypes
<1>7. \A x \in Openers : opener'[x].at = "failed" => terminated /\ opener'[x].err = closeErr
  <2> SUFFICES ASSUME NEW x \in Openers, opener'[x].at = "failed"
               PROVE terminated /\ opener'[x].err = closeErr
    BY Zenon
  <2>1. x # o
    BY Zenon, <1>4
  <2> QED BY Zenon, <1>4, <2>1 DEF LifeIInv, LifeShape
<1>8. LifeShape'
  BY Zenon, <1>1, <1>4, <1>7 DEF LifeIInv, LifeShape
<1>9. \A x \in Parked' : x \in Parked /\ opener'[x] = opener[x]
  <2> SUFFICES ASSUME NEW x \in Openers, opener'[x].at = "parked"
               PROVE  opener[x].at = "parked" /\ opener'[x] = opener[x]
    BY Zenon DEF Parked
  <2>1. x # o
    BY Zenon, <1>3, <1>4
  <2> QED BY Zenon, <1>4, <2>1
<1>10. RefusedNow' => RefusedNow
  BY <1>9, Zenon DEF RefusedNow
<1>11. PeerIsTold' = PeerIsTold /\ StreamsBlockedNow' = StreamsBlockedNow
  BY Zenon DEF PeerIsTold, StreamsBlockedNow
<1>12. Parked' # {} => Parked # {}
  BY <1>9, Zenon
<1>13. Stirring => Stirring'
  <2>1. CASE at = "try"
    BY <1>4, <2>1, Zenon DEF Stirring
  <2>2. CASE token' = token
    <3>1. \A x \in Openers : opener[x].at = "try" => opener'[x].at = "try"
      <4> SUFFICES ASSUME NEW x \in Openers, opener[x].at = "try" PROVE opener'[x].at = "try"
        BY Zenon
      <4>1. x # o
        BY Zenon
      <4> QED BY Zenon, <1>4, <4>1
    <3> QED BY <2>2, <3>1, Zenon DEF Stirring
  <2> QED BY Zenon, <1>2, <2>1, <2>2
<1> QED BY <1>1, <1>6, <1>8, <1>10, <1>11, <1>12, <1>13, Zenon DEF LifeIInv

LEMMA WakeOnDoneKeeps ==
  ASSUME LifeIInv, NEW o \in Openers, WakeOnDone(o) PROVE LifeIInv'
<1>1. /\ UNCHANGED <<limit, opened, token, blockedAt, notices, requeued, told>>
      /\ terminated' = terminated /\ closed' = closed /\ closeErr' = closeErr /\ terminated
  BY Zenon DEF WakeOnDone, credVars, endVars
<1> DEFINE r == [opener[o] EXCEPT !.at = "failed", !.err = closeErr]
<1>2. opener' = [opener EXCEPT ![o] = r]
  BY Zenon DEF WakeOnDone
<1>3. r \in OpenerType /\ r.seen = opener[o].seen /\ r.err = closeErr
  <2>1. /\ opener[o] \in OpenerType /\ closeErr \in CloseErrors
        /\ opener[o] = [at |-> opener[o].at, seen |-> opener[o].seen, err |-> opener[o].err]
    BY Zenon DEF LifeIInv, LifeTypes, OpenerType
  <2>2. [opener[o] EXCEPT !.at = "failed"]
          = [at |-> "failed", seen |-> opener[o].seen, err |-> opener[o].err]
    BY <2>1
  <2>3. r = [at |-> "failed", seen |-> opener[o].seen, err |-> closeErr]
    <3>1. [[at |-> "failed", seen |-> opener[o].seen, err |-> opener[o].err] EXCEPT !.err = closeErr]
            = [at |-> "failed", seen |-> opener[o].seen, err |-> closeErr]
      OBVIOUS
    <3>2. [[opener[o] EXCEPT !.at = "failed"] EXCEPT !.err = closeErr]
            = [at |-> "failed", seen |-> opener[o].seen, err |-> closeErr]
      BY <2>2, <3>1, Zenon
    <3> QED BY Zenon, <2>1, <3>2
  <2> HIDE DEF r
  <2> QED BY Zenon, <2>1, <2>3 DEF OpenerType, OpenerPlaces
<1> HIDE DEF r
<1>4. /\ opener' \in [Openers -> OpenerType] /\ opener'[o] = r
      /\ \A x \in Openers \ {o} : opener'[x] = opener[x]
  BY Zenon, <1>2, <1>3 DEF LifeIInv, LifeTypes
<1>5. LifeTypes'
  BY Zenon, <1>1, <1>4 DEF LifeIInv, LifeTypes
<1>6. \A x \in Openers : /\ opener'[x].seen <= limit
                         /\ opener'[x].at = "failed" => opener'[x].err = closeErr
  BY Zenon, <1>3, <1>4 DEF LifeIInv, LifeShape
<1>7. LifeShape'
  BY Zenon, <1>1, <1>6 DEF LifeIInv, LifeShape
<1> QED BY <1>1, <1>5, <1>7, Zenon DEF LifeIInv

LEMMA NoticeArrivesKeeps ==
  ASSUME LifeIInv, NEW n \in notices, NoticeArrives(n) PROVE LifeIInv'
<1> DEFINE m == [n EXCEPT !.arrived = TRUE]
<1>1. /\ notices' = (notices \ {n}) \cup {m} /\ told' = told \cup {n.limit} /\ requeued' = requeued
      /\ UNCHANGED <<limit, opened, opener, token, blockedAt, endVars>>
  BY Zenon DEF NoticeArrives
<1>2. n \in [limit : Nat, arrived : BOOLEAN]
  BY Zenon DEF LifeIInv, LifeTypes
<1>3. m \in [limit : Nat, arrived : BOOLEAN] /\ m.limit = n.limit /\ n.limit \in Nat
  <2>1. n.limit \in Nat /\ n = [limit |-> n.limit, arrived |-> n.arrived]
    BY Zenon, <1>2
  <2>2. m = [limit |-> n.limit, arrived |-> TRUE]
    <3>1. ASSUME NEW b
          PROVE  [[limit |-> n.limit, arrived |-> n.arrived] EXCEPT !.arrived = b]
                   = [limit |-> n.limit, arrived |-> b]
      OBVIOUS
    <3> QED BY <2>1, <3>1, Zenon
  <2> HIDE DEF m
  <2> QED BY Zenon, <2>1, <2>2
<1> HIDE DEF m
<1>4. notices' \subseteq [limit : Nat, arrived : BOOLEAN] /\ told' \subseteq Nat
  BY <1>1, <1>3, Zenon DEF LifeIInv, LifeTypes
<1>5. \A x \in notices' : x.arrived => x.limit \in told'
  BY <1>1, <1>3, Zenon DEF LifeIInv, LifeShape
<1>6. PeerIsTold => PeerIsTold'
  <2>1. ASSUME NEW x \in notices, x.limit = limit PROVE PeerIsTold'
    <3>1. CASE x = n
      BY <1>1, <2>1, <3>1, Zenon DEF PeerIsTold
    <3>2. CASE x # n
      BY <1>1, <2>1, <3>2, Zenon DEF PeerIsTold
    <3> QED BY Zenon, <3>1, <3>2
  <2> QED BY <1>1, <2>1, Zenon DEF PeerIsTold
<1>7. requeued' \subseteq Nat
  BY <1>1, Zenon DEF LifeIInv, LifeTypes
<1>8. ~terminated /\ RefusedNow => PeerIsTold'
  BY <1>6, Zenon DEF LifeIInv
<1> QED BY <1>1, <1>4, <1>5, <1>7, <1>8, NoticeStep, Zenon

LEMMA NoticeGoneKeeps ==
  ASSUME LifeIInv, NEW n \in notices, NoticeAcked(n) \/ NoticeLost(n) PROVE LifeIInv'
<1>1. /\ notices' = notices \ {n} /\ told' = told
      /\ (n.arrived /\ requeued' = requeued) \/ requeued' = requeued \cup {n.limit}
      /\ UNCHANGED <<limit, opened, opener, token, blockedAt, endVars>>
  BY Zenon DEF NoticeAcked, NoticeLost
<1>2. n.limit \in Nat /\ (n.arrived => n.limit \in told)
  BY Zenon DEF LifeIInv, LifeTypes, LifeShape
<1>3. /\ notices' \subseteq [limit : Nat, arrived : BOOLEAN] /\ told' \subseteq Nat
      /\ requeued' \subseteq Nat
  BY <1>1, <1>2, Zenon DEF LifeIInv, LifeTypes
<1>4. \A x \in notices' : x.arrived => x.limit \in told'
  BY <1>1, Zenon DEF LifeIInv, LifeShape
<1>5. PeerIsTold => PeerIsTold'
  <2>1. ASSUME NEW x \in notices, x.limit = limit PROVE PeerIsTold'
    <3>1. CASE x = n
      BY <1>1, <1>2, <2>1, <3>1, Zenon DEF PeerIsTold
    <3>2. CASE x # n
      BY <1>1, <2>1, <3>2, Zenon DEF PeerIsTold
    <3> QED BY Zenon, <3>1, <3>2
  <2>2. requeued # {} => requeued' # {}
    BY <1>1, Zenon
  <2> QED BY <1>1, <2>1, <2>2, Zenon DEF PeerIsTold
<1>6. ~terminated /\ RefusedNow => PeerIsTold'
  BY <1>5, Zenon DEF LifeIInv
<1> QED BY <1>1, <1>3, <1>4, <1>6, NoticeStep, Zenon

LEMMA RetransmitKeeps ==
  ASSUME LifeIInv, NEW l \in requeued, Retransmit(l) PROVE LifeIInv'
<1> DEFINE new == [limit |-> limit, arrived |-> FALSE]
<1>1. /\ requeued' = requeued \ {l} /\ told' = told
      /\ notices' = IF StreamsBlockedNow THEN notices \cup {new} ELSE notices
      /\ UNCHANGED <<limit, opened, opener, token, blockedAt, endVars>>
  BY Zenon DEF Retransmit
<1>2. new \in [limit : Nat, arrived : BOOLEAN] /\ new.limit = limit /\ ~new.arrived
  BY Zenon DEF LifeIInv, LifeTypes
<1> HIDE DEF new
<1>3. /\ notices' \subseteq [limit : Nat, arrived : BOOLEAN] /\ told' \subseteq Nat
      /\ requeued' \subseteq Nat
  BY <1>1, <1>2, Zenon DEF LifeIInv, LifeTypes
<1>4. \A x \in notices' : x.arrived => x.limit \in told'
  BY <1>1, <1>2, Zenon DEF LifeIInv, LifeShape
<1>5. StreamsBlockedNow => PeerIsTold'
  <2> SUFFICES ASSUME StreamsBlockedNow PROVE \E x \in notices' : x.limit = limit'
    BY Zenon DEF PeerIsTold
  <2>1. new \in notices' /\ new.limit = limit'
    BY <1>1, <1>2, Zenon
  <2> QED BY <2>1, Zenon
<1>6. ~terminated /\ RefusedNow => PeerIsTold'
  BY <1>5, Zenon DEF LifeIInv
<1> QED BY <1>1, <1>3, <1>4, <1>6, NoticeStep, Zenon

LEMMA OnMaxStreamsKeeps ==
  ASSUME LifeIInv, NEW m \in 1..MaxLimit, OnMaxStreams(m) PROVE LifeIInv'
<1>1. /\ limit' = m /\ m > limit /\ token' = TRUE
      /\ opened' = opened /\ opener' = opener /\ blockedAt' = blockedAt /\ notices' = notices
      /\ requeued' = requeued /\ told' = told /\ UNCHANGED endVars
  BY Zenon DEF OnMaxStreams
<1>2. terminated' = terminated /\ closed' = closed /\ closeErr' = closeErr
  BY <1>1, Zenon DEF endVars
<1>3. m \in Nat /\ limit \in Nat
  BY LifeAssumption DEF LifeIInv, LifeTypes
<1>4. token' \in BOOLEAN /\ token'
  BY <1>1, Zenon
<1>5. LifeTypes'
  BY Zenon, <1>1, <1>2, <1>3, <1>4 DEF LifeIInv, LifeTypes
<1>6. blockedAt \in Int /\ blockedAt < limit' /\ \A o \in Openers : opener[o].seen \in Int /\ opener[o].seen < limit'
  BY <1>1, <1>3 DEF LifeIInv, LifeTypes, LifeShape, OpenerType
<1>7. LifeShape'
  <2>1. blockedAt' <= limit' /\ \A o \in Openers : opener'[o].seen <= limit'
    BY <1>1, <1>3, <1>6
  <2> QED BY <1>1, <1>2, <2>1, Zenon DEF LifeIInv, LifeShape
<1>8. ~RefusedNow'
  <2>1. blockedAt' # limit' /\ \A o \in Openers : opener'[o].seen # limit'
    BY <1>1, <1>3, <1>6
  <2> QED BY <2>1, Zenon DEF RefusedNow, Parked
<1>9. Stirring'
  BY <1>4, Zenon DEF Stirring
<1> QED BY <1>5, <1>7, <1>8, <1>9, Zenon DEF LifeIInv

LEMMA OnMaxStreamsUniKeeps ==
  ASSUME LifeIInv, OnMaxStreamsUni PROVE LifeIInv'
<1>1. /\ token' = TRUE
      /\ UNCHANGED <<limit, opened, opener, blockedAt, notices, requeued, told>>
      /\ UNCHANGED endVars
  BY Zenon DEF OnMaxStreamsUni
<1>2. terminated' = terminated /\ closed' = closed /\ closeErr' = closeErr
  BY <1>1, Zenon DEF endVars
<1>3. token' \in BOOLEAN /\ token'
  BY <1>1, Zenon
<1>4. LifeTypes'
  BY Zenon, <1>1, <1>2, <1>3 DEF LifeIInv, LifeTypes
<1>5. LifeShape'
  BY Zenon, <1>1, <1>2 DEF LifeIInv, LifeShape
<1>6. RefusedNow' = RefusedNow /\ StreamsBlockedNow' = StreamsBlockedNow /\ PeerIsTold' = PeerIsTold
  BY <1>1, Zenon DEF RefusedNow, Parked, StreamsBlockedNow, PeerIsTold
<1>7. Stirring'
  BY <1>3, Zenon DEF Stirring
<1> QED BY <1>2, <1>4, <1>5, <1>6, <1>7, Zenon DEF LifeIInv

\* terminateLocked: nobody failed before, so nobody has another error than the first.
LEMMA TerminateKeeps ==
  ASSUME LifeIInv, NEW err \in CloseErrors, Terminate(err), closed' \in BOOLEAN,
         UNCHANGED <<credVars, opener>>
  PROVE  LifeIInv'
<1>1. /\ UNCHANGED <<limit, opened, token, blockedAt, notices, requeued, told>>
      /\ opener' = opener /\ terminated' = TRUE
      /\ closeErr' = IF terminated THEN closeErr ELSE err
  BY Zenon DEF credVars, Terminate
<1>2. terminated' \in BOOLEAN /\ terminated' /\ closeErr' \in CloseErrors
  BY <1>1, Zenon DEF LifeIInv, LifeTypes
<1>3. LifeTypes'
  BY Zenon, <1>1, <1>2 DEF LifeIInv, LifeTypes
<1>4. \A o \in Openers : opener'[o].at = "failed" => opener'[o].err = closeErr'
  BY <1>1, Zenon DEF LifeIInv, LifeShape
<1>5. LifeShape'
  BY Zenon, <1>1, <1>2, <1>4 DEF LifeIInv, LifeShape
<1> QED BY <1>2, <1>3, <1>5, Zenon DEF LifeIInv

LEMMA LifeStepHolds == LifeIInv /\ [LifeNext]_lifeVars => LifeIInv'
<1> SUFFICES ASSUME LifeIInv, [LifeNext]_lifeVars PROVE LifeIInv'
  BY Zenon
<1>1. ASSUME NEW o \in Openers, TryOpen(o) PROVE LifeIInv'
  BY Zenon, <1>1, TryOpenKeeps
<1>2. ASSUME NEW o \in Openers, WakeOnCredit(o) \/ WakeOnCtx(o) PROVE LifeIInv'
  <2>1. /\ opener[o].at = "parked"
        /\ \/ token' = FALSE /\ Goes(o, "try")
           \/ token' = token /\ Goes(o, "cancelled")
        /\ UNCHANGED <<limit, opened, blockedAt, notices, requeued, told, endVars>>
    BY <1>2, Zenon DEF WakeOnCredit, WakeOnCtx, credVars
  <2> QED BY <2>1, WakeKeeps, Zenon
<1>3. ASSUME NEW o \in Openers, WakeOnDone(o) PROVE LifeIInv'
  BY Zenon, <1>3, WakeOnDoneKeeps
<1>4. ASSUME NEW m \in 1..MaxLimit, OnMaxStreams(m) PROVE LifeIInv'
  BY Zenon, <1>4, OnMaxStreamsKeeps
<1>5. CASE OnMaxStreamsUni
  BY Zenon, <1>5, OnMaxStreamsUniKeeps
<1>6. ASSUME NEW n \in notices, NoticeArrives(n) \/ NoticeAcked(n) \/ NoticeLost(n) PROVE LifeIInv'
  BY Zenon, <1>6, NoticeArrivesKeeps, NoticeGoneKeeps
<1>7. ASSUME NEW l \in requeued, Retransmit(l) PROVE LifeIInv'
  BY Zenon, <1>7, RetransmitKeeps
<1>8. ASSUME NEW err \in {"peer closed", "ErrIdleTimeout", "ErrStatelessReset"}, ClosedByReader(err)
      PROVE LifeIInv'
  <2>1. err \in CloseErrors /\ closed' \in BOOLEAN
    BY <1>8, Zenon DEF CloseErrors, ClosedByReader
  <2> QED BY <1>8, <2>1, TerminateKeeps, Zenon DEF ClosedByReader
<1>9. CASE CloseWithError
  <2>1. "ErrConnClosed" \in CloseErrors /\ closed' \in BOOLEAN
    BY <1>9, Zenon DEF CloseErrors, CloseWithError
  <2> QED BY <1>9, <2>1, TerminateKeeps, Zenon DEF CloseWithError
<1>10. CASE PollFails
  <2>1. "poll error" \in CloseErrors /\ closed' \in BOOLEAN
    BY <1>10, Zenon DEF CloseErrors, PollFails, LifeIInv, LifeTypes
  <2> QED BY <1>10, <2>1, TerminateKeeps, Zenon DEF PollFails
<1>11. CASE UNCHANGED lifeVars
  <2>1. UNCHANGED <<limit, opened, opener, token, blockedAt, endVars>>
        /\ notices' = notices /\ told' = told /\ requeued' = requeued
    BY <1>11, Zenon DEF lifeVars, endVars
  <2>2. PeerIsTold' = PeerIsTold
    BY <2>1, Zenon DEF PeerIsTold
  <2>3. /\ notices' \subseteq [limit : Nat, arrived : BOOLEAN] /\ told' \subseteq Nat
        /\ requeued' \subseteq Nat
    BY <2>1, Zenon DEF LifeIInv, LifeTypes
  <2>4. \A x \in notices' : x.arrived => x.limit \in told'
    BY <2>1, Zenon DEF LifeIInv, LifeShape
  <2>5. ~terminated /\ RefusedNow => PeerIsTold'
    BY <2>2, Zenon DEF LifeIInv
  <2> QED BY <2>1, <2>3, <2>4, <2>5, NoticeStep, Zenon
<1> QED BY <1>1, <1>2, <1>3, <1>4, <1>5, <1>6, <1>7, <1>8, <1>9, <1>10, <1>11, Zenon DEF LifeNext

(***************************************************************************)
(* CreditReachesOpeners holds in every behaviour, for any number of        *)
(* openers and any limits the peer grants: one token wakes them all in     *)
(* turn, a refusal is told to the peer whatever is lost, and everybody     *)
(* fails with the error the connection ended with                          *)
(* (src/quic/stream.go:60, src/quic/send.go:279).                          *)
(***************************************************************************)
THEOREM CreditAlwaysReaches == LifeSpec => []CreditReachesOpeners
<1>1. LifeIInv => CreditReachesOpeners
  BY Zenon DEF LifeIInv, LifeShape, RefusedNow, CreditReachesOpeners
<1> QED BY <1>1, LifeInitHolds, LifeStepHolds, PTL DEF LifeSpec

-----------------------------------------------------------------------------
(* QuicListener. *)
HsPlaces == {"start", "flight", "read", "publish", "abandon", "drop1", "drop2", "gone"}

HandshakeType == [client : Clients, at : HsPlaces, view : {"none", "open", "closed"},
                  tls : BOOLEAN, owned : BOOLEAN]

LisTypes ==
  /\ hs \in Seq(HandshakeType) /\ inHand \in Clients \cup {Nobody}
  /\ routes \subseteq Runs /\ halfPCs \subseteq Runs /\ waking \subseteq Runs
  /\ closing \in {"no", "closed", "socket", "woke", "done"}

\* What a handshake holds at each of its places.
HoldsItsDue(h) ==
  /\ hs[h].at = "start" => h \notin routes /\ h \notin halfPCs /\ ~hs[h].tls
  /\ hs[h].at \in {"start", "flight", "read", "publish", "abandon"} => ~hs[h].owned
  /\ hs[h].at \in {"flight", "read"} => h \in halfPCs
  /\ hs[h].at \in {"drop1", "drop2", "gone"} /\ ~hs[h].owned => h \notin routes /\ ~hs[h].tls
  /\ hs[h].at \in {"drop2", "gone"} => h \notin halfPCs
  /\ closing = "woke" /\ hs[h].at = "read" /\ hs[h].view = "open" => h \in waking

\* The client's Initial is ignored only while a handshake of its is under way.
IsUnderWay(c) == \E h \in Runs : hs[h].client = c /\ hs[h].at # "gone"

LisIInv ==
  /\ LisTypes
  /\ \A h \in Runs : HoldsItsDue(h)
  /\ \A c \in halfOpen : c \in Clients /\ IsUnderWay(c)

LEMMA LisInitHolds == LisInit => LisIInv
<1> SUFFICES ASSUME LisInit PROVE LisIInv
  BY Zenon
<1>1. Runs = {} /\ hs \in Seq(HandshakeType)
  BY DEF LisInit, Runs
<1> QED BY Zenon, <1>1 DEF LisInit, LisIInv, LisTypes

\* A handshake's record is replaced: it stays a handshake and the others stay.
LEMMA Replaced ==
  ASSUME LisTypes, NEW h \in Runs, NEW r \in HandshakeType, hs' = [hs EXCEPT ![h] = r]
  PROVE  /\ hs' \in Seq(HandshakeType) /\ Runs' = Runs /\ hs'[h] = r
         /\ \A x \in Runs \ {h} : hs'[x] = hs[x]
BY DEF LisTypes, Runs

\* Goto, on the record.
LEMMA GotoIs ==
  ASSUME LisTypes, NEW h \in Runs, NEW at \in HsPlaces, Goto(h, at)
  PROVE  \E r \in HandshakeType :
           /\ hs' = [hs EXCEPT ![h] = r]
           /\ r.at = at /\ r.client = hs[h].client /\ r.view = hs[h].view
           /\ r.tls = hs[h].tls /\ r.owned = hs[h].owned
<1>1. hs[h] \in HandshakeType
  BY DEF LisTypes, Runs
<1> DEFINE r == [hs[h] EXCEPT !.at = at]
<1>2. /\ r \in HandshakeType
      /\ r.at = at /\ r.client = hs[h].client /\ r.view = hs[h].view
      /\ r.tls = hs[h].tls /\ r.owned = hs[h].owned
  BY Zenon, <1>1 DEF HandshakeType
<1>3. hs' = [hs EXCEPT ![h] = r]
  BY Zenon DEF Goto
<1> QED BY <1>2, <1>3, Zenon

\* A step of one handshake: what is left to show is about that handshake.
LEMMA OneHandshake ==
  ASSUME LisIInv, NEW h \in Runs, NEW r \in HandshakeType, hs' = [hs EXCEPT ![h] = r],
         r.client = hs[h].client, r.at = "gone" => hs[h].at = "gone" \/ halfOpen' = halfOpen \ {hs[h].client},
         halfOpen' \subseteq halfOpen,
         routes' \subseteq Runs, routes' \ {h} = routes \ {h},
         halfPCs' \subseteq Runs, halfPCs' \ {h} = halfPCs \ {h},
         waking' \subseteq Runs, waking' \ {h} = waking \ {h},
         UNCHANGED <<inHand, closing>>,
         HoldsItsDue(h)'
  PROVE  LisIInv'
<1>1. /\ hs' \in Seq(HandshakeType) /\ Runs' = Runs /\ hs'[h] = r
      /\ \A x \in Runs \ {h} : hs'[x] = hs[x]
  <2>1. LisTypes
    BY Zenon DEF LisIInv
  <2> QED BY <2>1, Replaced, Zenon
<1>2. LisTypes'
  BY <1>1, Zenon DEF LisIInv, LisTypes
<1>3. \A x \in Runs' : HoldsItsDue(x)'
  <2> SUFFICES ASSUME NEW x \in Runs, x # h PROVE HoldsItsDue(x)'
    BY <1>1, Zenon
  <2>1. hs'[x] = hs[x] /\ (x \in routes' <=> x \in routes)
        /\ (x \in halfPCs' <=> x \in halfPCs) /\ (x \in waking' <=> x \in waking)
    BY <1>1, Zenon
  <2>2. HoldsItsDue(x)
    BY Zenon DEF LisIInv
  <2> QED BY <2>1, <2>2, Zenon DEF HoldsItsDue
<1>4. \A c \in halfOpen' : c \in Clients /\ IsUnderWay(c)'
  <2> SUFFICES ASSUME NEW c \in halfOpen' PROVE IsUnderWay(c)'
    BY Zenon DEF LisIInv
  <2>1. PICK y \in Runs : hs[y].client = c /\ hs[y].at # "gone"
    BY Zenon DEF LisIInv, IsUnderWay
  <2>2. CASE y # h
    BY <1>1, <2>1, <2>2, Zenon DEF IsUnderWay
  <2>3. CASE y = h
    <3>1. r.at # "gone"
      BY <2>1, <2>3, Zenon
    <3> QED BY <1>1, <2>1, <2>3, <3>1, Zenon DEF IsUnderWay
  <2> QED BY Zenon, <2>2, <2>3
<1> QED BY <1>2, <1>3, <1>4, Zenon DEF LisIInv

\* The same, for the actions that name fields of the record.
Hs(c, a, v, t, o) == [client |-> c, at |-> a, view |-> v, tls |-> t, owned |-> o]

LEMMA FieldsOf ==
  ASSUME NEW s \in HandshakeType, NEW a \in HsPlaces, NEW v \in {"none", "open", "closed"},
         NEW t \in BOOLEAN, NEW o \in BOOLEAN
  PROVE  /\ Hs(s.client, a, v, t, o) \in HandshakeType
         /\ Hs(s.client, a, v, t, o).client = s.client /\ Hs(s.client, a, v, t, o).at = a
         /\ Hs(s.client, a, v, t, o).view = v /\ Hs(s.client, a, v, t, o).tls = t
         /\ Hs(s.client, a, v, t, o).owned = o
BY Zenon DEF HandshakeType, Hs

LEMMA SetAtViewTls ==
  ASSUME NEW s \in HandshakeType, NEW a, NEW v, NEW t
  PROVE  [s EXCEPT !.at = a, !.view = v, !.tls = t]
           = Hs(s.client, a, v, t, s.owned)
<1>1. PICK c0, a0, v0, t0, o0 : s = Hs(c0, a0, v0, t0, o0)
  BY Zenon DEF HandshakeType, Hs
<1>2. s.client = c0 /\ s.at = a0 /\ s.view = v0 /\ s.tls = t0 /\ s.owned = o0
  BY Zenon, <1>1 DEF Hs
<1>3. [Hs(c0, a0, v0, t0, o0) EXCEPT !.at = a] = Hs(c0, a, v0, t0, o0)
  BY DEF Hs
<1>4. [Hs(c0, a, v0, t0, o0) EXCEPT !.view = v] = Hs(c0, a, v, t0, o0)
  BY DEF Hs
<1>5. [Hs(c0, a, v, t0, o0) EXCEPT !.tls = t] = Hs(c0, a, v, t, o0)
  BY DEF Hs
<1>6. [[[s EXCEPT !.at = a] EXCEPT !.view = v] EXCEPT !.tls = t] = Hs(c0, a, v, t, o0)
  BY <1>1, <1>3, <1>4, <1>5, Zenon
<1>7. [s EXCEPT !.at = a, !.view = v, !.tls = t]
         = [[[s EXCEPT !.at = a] EXCEPT !.view = v] EXCEPT !.tls = t]
  BY Zenon DEF HandshakeType
<1> QED BY <1>2, <1>6, <1>7, Zenon

LEMMA SetOwnedViewTls ==
  ASSUME NEW s \in HandshakeType, NEW o, NEW v, NEW t
  PROVE  [s EXCEPT !.owned = o, !.view = v, !.tls = t]
           = Hs(s.client, s.at, v, t, o)
<1>1. PICK c0, a0, v0, t0, o0 : s = Hs(c0, a0, v0, t0, o0)
  BY Zenon DEF HandshakeType, Hs
<1>2. s.client = c0 /\ s.at = a0 /\ s.view = v0 /\ s.tls = t0 /\ s.owned = o0
  BY Zenon, <1>1 DEF Hs
<1>3. [Hs(c0, a0, v0, t0, o0) EXCEPT !.owned = o] = Hs(c0, a0, v0, t0, o)
  BY DEF Hs
<1>4. [Hs(c0, a0, v0, t0, o) EXCEPT !.view = v] = Hs(c0, a0, v, t0, o)
  BY DEF Hs
<1>5. [Hs(c0, a0, v, t0, o) EXCEPT !.tls = t] = Hs(c0, a0, v, t, o)
  BY DEF Hs
<1>6. [[[s EXCEPT !.owned = o] EXCEPT !.view = v] EXCEPT !.tls = t] = Hs(c0, a0, v, t, o)
  BY <1>1, <1>3, <1>4, <1>5, Zenon
<1>7. [s EXCEPT !.owned = o, !.view = v, !.tls = t]
         = [[[s EXCEPT !.owned = o] EXCEPT !.view = v] EXCEPT !.tls = t]
  BY Zenon DEF HandshakeType
<1> QED BY <1>2, <1>6, <1>7, Zenon

LEMMA SetAtOwned ==
  ASSUME NEW s \in HandshakeType, NEW a, NEW o
  PROVE  [s EXCEPT !.at = a, !.owned = o]
           = Hs(s.client, a, s.view, s.tls, o)
<1>1. PICK c0, a0, v0, t0, o0 : s = Hs(c0, a0, v0, t0, o0)
  BY Zenon DEF HandshakeType, Hs
<1>2. s.client = c0 /\ s.at = a0 /\ s.view = v0 /\ s.tls = t0 /\ s.owned = o0
  BY Zenon, <1>1 DEF Hs
<1>3. [Hs(c0, a0, v0, t0, o0) EXCEPT !.at = a] = Hs(c0, a, v0, t0, o0)
  BY DEF Hs
<1>4. [Hs(c0, a, v0, t0, o0) EXCEPT !.owned = o] = Hs(c0, a, v0, t0, o)
  BY DEF Hs
<1>5. [[s EXCEPT !.at = a] EXCEPT !.owned = o] = Hs(c0, a, v0, t0, o)
  BY <1>1, <1>3, <1>4, Zenon
<1>6. [s EXCEPT !.at = a, !.owned = o]
         = [[s EXCEPT !.at = a] EXCEPT !.owned = o]
  BY Zenon DEF HandshakeType
<1> QED BY <1>2, <1>5, <1>6, Zenon

LEMMA SetView ==
  ASSUME NEW s \in HandshakeType, NEW v
  PROVE  [s EXCEPT !.view = v]
           = Hs(s.client, s.at, v, s.tls, s.owned)
<1>1. PICK c0, a0, v0, t0, o0 : s = Hs(c0, a0, v0, t0, o0)
  BY Zenon DEF HandshakeType, Hs
<1>2. s.client = c0 /\ s.at = a0 /\ s.view = v0 /\ s.tls = t0 /\ s.owned = o0
  BY Zenon, <1>1 DEF Hs
<1>3. [Hs(c0, a0, v0, t0, o0) EXCEPT !.view = v] = Hs(c0, a0, v, t0, o0)
  BY DEF Hs
<1>4. [s EXCEPT !.view = v] = Hs(c0, a0, v, t0, o0)
  BY <1>1, <1>3, Zenon
<1> QED BY <1>2, <1>4, Zenon

\* A handshake that only moves on.
LEMMA MovesOn ==
  ASSUME LisIInv, NEW h \in Runs, NEW at \in {"read", "publish", "abandon"}, Goto(h, at),
         hs[h].at \in {"flight", "read", "publish"},
         at = "read" => hs[h].at = "flight" /\ h \in halfPCs /\ closing # "woke",
         UNCHANGED <<inHand, halfOpen, routes, halfPCs, closing, waking>>
  PROVE  LisIInv'
<1>1. LisTypes /\ at \in HsPlaces
  BY Zenon DEF LisIInv, HsPlaces
<1>2. PICK r \in HandshakeType :
        /\ hs' = [hs EXCEPT ![h] = r]
        /\ r.at = at /\ r.client = hs[h].client /\ r.view = hs[h].view
        /\ r.tls = hs[h].tls /\ r.owned = hs[h].owned
  BY <1>1, GotoIs, Zenon
<1>3. hs'[h] = r
  BY <1>1, <1>2, Replaced, Zenon
<1>4. HoldsItsDue(h)'
  <2>1. ~hs[h].owned
    BY Zenon DEF LisIInv, HoldsItsDue
  <2>2. hs'[h].at = at /\ ~hs'[h].owned
    BY <1>2, <1>3, <2>1, Zenon
  <2>3. at # "start" /\ at # "drop1" /\ at # "drop2" /\ at # "gone"
    BY Zenon
  <2> QED BY <2>2, <2>3, Zenon DEF HoldsItsDue
<1>5. routes \subseteq Runs /\ halfPCs \subseteq Runs /\ waking \subseteq Runs /\ at # "gone"
  BY <1>1, Zenon DEF LisTypes
<1> QED BY <1>2, <1>4, <1>5, OneHandshake, Zenon

\* What SendFlight finds: the view is registered, so Close collects it or is too late.
LEMMA SendFlightKeeps ==
  ASSUME LisIInv, NEW h \in Runs, SendFlight(h) PROVE LisIInv'
<1>1. /\ hs[h].at = "flight" /\ Goto(h, IF SocketOpen THEN "read" ELSE "abandon")
      /\ UNCHANGED <<inHand, halfOpen, routes, halfPCs, closing, waking>>
  BY Zenon DEF SendFlight
<1>2. CASE SocketOpen
  <2>1. Goto(h, "read") /\ closing # "woke" /\ h \in halfPCs
    BY <1>1, <1>2, Zenon DEF SocketOpen, LisIInv, HoldsItsDue
  <2> QED BY <1>1, <2>1, MovesOn, Zenon
<1>3. CASE ~SocketOpen
  <2>1. Goto(h, "abandon")
    BY <1>1, <1>3, Zenon
  <2> QED BY <1>1, <2>1, MovesOn, Zenon
<1> QED BY Zenon, <1>2, <1>3

LEMMA RefuseKeeps ==
  ASSUME LisIInv, NEW h \in Runs, Refuse(h) PROVE LisIInv'
<1>1. LisTypes /\ hs[h] \in HandshakeType
  <2>1. LisTypes
    BY Zenon DEF LisIInv
  <2> QED BY <2>1 DEF LisTypes, Runs
<1>2. /\ hs[h].at = "start" /\ Goto(h, "gone") /\ "gone" \in HsPlaces
      /\ halfOpen' = halfOpen \ {hs[h].client} /\ UNCHANGED <<routes, halfPCs>>
      /\ UNCHANGED <<inHand, closing, waking>>
  BY Zenon DEF Refuse, HsPlaces
<1>3. PICK r \in HandshakeType :
        /\ hs' = [hs EXCEPT ![h] = r]
        /\ r.at = "gone" /\ r.client = hs[h].client /\ r.view = hs[h].view
        /\ r.tls = hs[h].tls /\ r.owned = hs[h].owned
  BY <1>1, <1>2, GotoIs, Zenon
<1>4. hs'[h] = r
  BY <1>1, <1>3, Replaced, Zenon
<1>5. HoldsItsDue(h)
  BY Zenon DEF LisIInv
<1>6. HoldsItsDue(h)'
  BY Zenon, <1>2, <1>3, <1>4, <1>5 DEF HoldsItsDue
<1>7. /\ routes' \subseteq Runs /\ routes' \ {h} = routes \ {h}
      /\ halfPCs' \subseteq Runs /\ halfPCs' \ {h} = halfPCs \ {h}
      /\ waking' \subseteq Runs /\ waking' \ {h} = waking \ {h} /\ halfOpen' \subseteq halfOpen
  BY <1>1, <1>2, Zenon DEF LisTypes
<1> QED BY <1>2, <1>3, <1>6, <1>7, OneHandshake, Zenon

LEMMA DropHalfPCKeeps ==
  ASSUME LisIInv, NEW h \in Runs, DropHalfPC(h) PROVE LisIInv'
<1>1. LisTypes /\ hs[h] \in HandshakeType
  <2>1. LisTypes
    BY Zenon DEF LisIInv
  <2> QED BY <2>1 DEF LisTypes, Runs
<1>2. /\ hs[h].at = "drop1" /\ Goto(h, "drop2") /\ "drop2" \in HsPlaces
      /\ halfPCs' = halfPCs \ {h} /\ UNCHANGED <<halfOpen, routes>>
      /\ UNCHANGED <<inHand, closing, waking>>
  BY Zenon DEF DropHalfPC, HsPlaces
<1>3. PICK r \in HandshakeType :
        /\ hs' = [hs EXCEPT ![h] = r]
        /\ r.at = "drop2" /\ r.client = hs[h].client /\ r.view = hs[h].view
        /\ r.tls = hs[h].tls /\ r.owned = hs[h].owned
  BY <1>1, <1>2, GotoIs, Zenon
<1>4. hs'[h] = r
  BY <1>1, <1>3, Replaced, Zenon
<1>5. HoldsItsDue(h)
  BY Zenon DEF LisIInv
<1>6. HoldsItsDue(h)'
  BY Zenon, <1>2, <1>3, <1>4, <1>5 DEF HoldsItsDue
<1>7. /\ routes' \subseteq Runs /\ routes' \ {h} = routes \ {h}
      /\ halfPCs' \subseteq Runs /\ halfPCs' \ {h} = halfPCs \ {h}
      /\ waking' \subseteq Runs /\ waking' \ {h} = waking \ {h} /\ halfOpen' \subseteq halfOpen
  BY <1>1, <1>2, Zenon DEF LisTypes
<1> QED BY <1>2, <1>3, <1>6, <1>7, OneHandshake, Zenon

LEMMA DropHalfOpenKeeps ==
  ASSUME LisIInv, NEW h \in Runs, DropHalfOpen(h) PROVE LisIInv'
<1>1. LisTypes /\ hs[h] \in HandshakeType
  <2>1. LisTypes
    BY Zenon DEF LisIInv
  <2> QED BY <2>1 DEF LisTypes, Runs
<1>2. /\ hs[h].at = "drop2" /\ Goto(h, "gone") /\ "gone" \in HsPlaces
      /\ halfOpen' = halfOpen \ {hs[h].client} /\ UNCHANGED <<routes, halfPCs>>
      /\ UNCHANGED <<inHand, closing, waking>>
  BY Zenon DEF DropHalfOpen, HsPlaces
<1>3. PICK r \in HandshakeType :
        /\ hs' = [hs EXCEPT ![h] = r]
        /\ r.at = "gone" /\ r.client = hs[h].client /\ r.view = hs[h].view
        /\ r.tls = hs[h].tls /\ r.owned = hs[h].owned
  BY <1>1, <1>2, GotoIs, Zenon
<1>4. hs'[h] = r
  BY <1>1, <1>3, Replaced, Zenon
<1>5. HoldsItsDue(h)
  BY Zenon DEF LisIInv
<1>6. HoldsItsDue(h)'
  BY Zenon, <1>2, <1>3, <1>4, <1>5 DEF HoldsItsDue
<1>7. /\ routes' \subseteq Runs /\ routes' \ {h} = routes \ {h}
      /\ halfPCs' \subseteq Runs /\ halfPCs' \ {h} = halfPCs \ {h}
      /\ waking' \subseteq Runs /\ waking' \ {h} = waking \ {h} /\ halfOpen' \subseteq halfOpen
  BY <1>1, <1>2, Zenon DEF LisTypes
<1> QED BY <1>2, <1>3, <1>6, <1>7, OneHandshake, Zenon

LEMMA RegisterKeeps ==
  ASSUME LisIInv, NEW h \in Runs, Register(h) PROVE LisIInv'
<1>1. LisTypes /\ hs[h] \in HandshakeType
  <2>1. LisTypes
    BY Zenon DEF LisIInv
  <2> QED BY <2>1 DEF LisTypes, Runs
<1> DEFINE r == Hs(hs[h].client, "flight", "open", TRUE, hs[h].owned)
<1>2. /\ hs[h].at = "start"
      /\ hs' = [hs EXCEPT ![h] = [hs[h] EXCEPT !.at = "flight", !.view = "open", !.tls = TRUE]]
      /\ routes' = routes \cup {h} /\ halfPCs' = halfPCs \cup {h} /\ waking' = waking
      /\ UNCHANGED <<inHand, halfOpen, closing>>
  BY Zenon DEF Register
<1>3. /\ "flight" \in HsPlaces /\ "open" \in {"none", "open", "closed"}
      /\ TRUE \in BOOLEAN /\ hs[h].owned \in BOOLEAN
  BY Zenon, <1>1 DEF HsPlaces, HandshakeType
<1>4. [hs[h] EXCEPT !.at = "flight", !.view = "open", !.tls = TRUE] = r
  <2>1. \A t : [hs[h] EXCEPT !.at = "flight", !.view = "open", !.tls = t] =
      Hs(hs[h].client, "flight", "open", t, hs[h].owned)
    BY <1>1, SetAtViewTls, Zenon
  <2> QED BY <2>1, Zenon
<1>5. /\ r \in HandshakeType /\ r.client = hs[h].client /\ r.at = "flight" /\ r.view = "open"
      /\ r.tls = TRUE /\ r.owned = hs[h].owned
  <2>1. \A t \in BOOLEAN :
          /\ Hs(hs[h].client, "flight", "open", t, hs[h].owned) \in HandshakeType
          /\ Hs(hs[h].client, "flight", "open", t, hs[h].owned).client = hs[h].client
          /\ Hs(hs[h].client, "flight", "open", t, hs[h].owned).at = "flight"
          /\ Hs(hs[h].client, "flight", "open", t, hs[h].owned).view = "open"
          /\ Hs(hs[h].client, "flight", "open", t, hs[h].owned).tls = t
          /\ Hs(hs[h].client, "flight", "open", t, hs[h].owned).owned = hs[h].owned
    BY <1>1, <1>3, FieldsOf
  <2>2. r = Hs(hs[h].client, "flight", "open", TRUE, hs[h].owned)
    BY Zenon
  <2> QED BY <1>3, <2>1, <2>2, Zenon
<1> HIDE DEF r
<1>6. hs' = [hs EXCEPT ![h] = r]
  BY <1>2, <1>4, Zenon
<1>7. hs'[h] = r
  BY <1>1, <1>5, <1>6, Replaced, Zenon
<1>8. HoldsItsDue(h)
  BY Zenon DEF LisIInv
<1>9. HoldsItsDue(h)'
  BY Zenon, <1>1, <1>2, <1>5, <1>7, <1>8 DEF HoldsItsDue, HandshakeType, HsPlaces
<1>10. /\ routes' \subseteq Runs /\ routes' \ {h} = routes \ {h}
       /\ halfPCs' \subseteq Runs /\ halfPCs' \ {h} = halfPCs \ {h}
       /\ waking' \subseteq Runs /\ waking' \ {h} = waking \ {h} /\ halfOpen' \subseteq halfOpen
  BY <1>1, <1>2, Zenon DEF LisTypes
<1>11. r.at = "gone" => hs[h].at = "gone"
  BY <1>5, Zenon
<1> QED BY <1>2, <1>5, <1>6, <1>9, <1>10, <1>11, OneHandshake, Zenon

LEMMA AbandonKeeps ==
  ASSUME LisIInv, NEW h \in Runs, Abandon(h) PROVE LisIInv'
<1>1. LisTypes /\ hs[h] \in HandshakeType
  <2>1. LisTypes
    BY Zenon DEF LisIInv
  <2> QED BY <2>1 DEF LisTypes, Runs
<1> DEFINE r == Hs(hs[h].client, "drop1", "closed", FALSE, hs[h].owned)
<1>2. /\ hs[h].at = "abandon"
      /\ hs' = [hs EXCEPT ![h] = [hs[h] EXCEPT !.at = "drop1", !.view = "closed", !.tls = FALSE]]
      /\ routes' = routes \ {h} /\ UNCHANGED <<halfPCs, waking>>
      /\ UNCHANGED <<inHand, halfOpen, closing>>
  BY Zenon DEF Abandon
<1>3. /\ "drop1" \in HsPlaces /\ "closed" \in {"none", "open", "closed"}
      /\ FALSE \in BOOLEAN /\ hs[h].owned \in BOOLEAN
  BY Zenon, <1>1 DEF HsPlaces, HandshakeType
<1>4. [hs[h] EXCEPT !.at = "drop1", !.view = "closed", !.tls = FALSE] = r
  <2>1. \A t : [hs[h] EXCEPT !.at = "drop1", !.view = "closed", !.tls = t] =
      Hs(hs[h].client, "drop1", "closed", t, hs[h].owned)
    BY <1>1, SetAtViewTls, Zenon
  <2> QED BY <2>1, Zenon
<1>5. /\ r \in HandshakeType /\ r.client = hs[h].client /\ r.at = "drop1" /\ r.view = "closed"
      /\ r.tls = FALSE /\ r.owned = hs[h].owned
  <2>1. \A t \in BOOLEAN :
          /\ Hs(hs[h].client, "drop1", "closed", t, hs[h].owned) \in HandshakeType
          /\ Hs(hs[h].client, "drop1", "closed", t, hs[h].owned).client = hs[h].client
          /\ Hs(hs[h].client, "drop1", "closed", t, hs[h].owned).at = "drop1"
          /\ Hs(hs[h].client, "drop1", "closed", t, hs[h].owned).view = "closed"
          /\ Hs(hs[h].client, "drop1", "closed", t, hs[h].owned).tls = t
          /\ Hs(hs[h].client, "drop1", "closed", t, hs[h].owned).owned = hs[h].owned
    BY <1>1, <1>3, FieldsOf
  <2>2. r = Hs(hs[h].client, "drop1", "closed", FALSE, hs[h].owned)
    BY Zenon
  <2> QED BY <1>3, <2>1, <2>2, Zenon
<1> HIDE DEF r
<1>6. hs' = [hs EXCEPT ![h] = r]
  BY <1>2, <1>4, Zenon
<1>7. hs'[h] = r
  BY <1>1, <1>5, <1>6, Replaced, Zenon
<1>8. HoldsItsDue(h)
  BY Zenon DEF LisIInv
<1>9. HoldsItsDue(h)'
  BY Zenon, <1>1, <1>2, <1>5, <1>7, <1>8 DEF HoldsItsDue, HandshakeType, HsPlaces
<1>10. /\ routes' \subseteq Runs /\ routes' \ {h} = routes \ {h}
       /\ halfPCs' \subseteq Runs /\ halfPCs' \ {h} = halfPCs \ {h}
       /\ waking' \subseteq Runs /\ waking' \ {h} = waking \ {h} /\ halfOpen' \subseteq halfOpen
  BY <1>1, <1>2, Zenon DEF LisTypes
<1>11. r.at = "gone" => hs[h].at = "gone"
  BY <1>5, Zenon
<1> QED BY <1>2, <1>5, <1>6, <1>9, <1>10, <1>11, OneHandshake, Zenon

LEMMA CloseConnKeeps ==
  ASSUME LisIInv, NEW h \in Runs, CloseConn(h) PROVE LisIInv'
<1>1. LisTypes /\ hs[h] \in HandshakeType
  <2>1. LisTypes
    BY Zenon DEF LisIInv
  <2> QED BY <2>1 DEF LisTypes, Runs
<1> DEFINE r == Hs(hs[h].client, hs[h].at, "closed", FALSE, FALSE)
<1>2. /\ hs[h].owned
      /\ hs' = [hs EXCEPT ![h] = [hs[h] EXCEPT !.owned = FALSE, !.view = "closed", !.tls = FALSE]]
      /\ routes' = routes \ {h} /\ UNCHANGED <<halfPCs, waking>>
      /\ UNCHANGED <<inHand, halfOpen, closing>>
  BY Zenon DEF CloseConn
<1>3. /\ hs[h].at \in HsPlaces /\ "closed" \in {"none", "open", "closed"}
      /\ FALSE \in BOOLEAN /\ FALSE \in BOOLEAN
  BY Zenon, <1>1 DEF HsPlaces, HandshakeType
<1>4. [hs[h] EXCEPT !.owned = FALSE, !.view = "closed", !.tls = FALSE] = r
  <2>1. \A t, o : [hs[h] EXCEPT !.owned = o, !.view = "closed", !.tls = t] =
      Hs(hs[h].client, hs[h].at, "closed", t, o)
    BY <1>1, SetOwnedViewTls, Zenon
  <2> QED BY <2>1, Zenon
<1>5. /\ r \in HandshakeType /\ r.client = hs[h].client /\ r.at = hs[h].at /\ r.view = "closed"
      /\ r.tls = FALSE /\ r.owned = FALSE
  <2>1. \A t, o \in BOOLEAN :
          /\ Hs(hs[h].client, hs[h].at, "closed", t, o) \in HandshakeType
          /\ Hs(hs[h].client, hs[h].at, "closed", t, o).client = hs[h].client
          /\ Hs(hs[h].client, hs[h].at, "closed", t, o).at = hs[h].at
          /\ Hs(hs[h].client, hs[h].at, "closed", t, o).view = "closed"
          /\ Hs(hs[h].client, hs[h].at, "closed", t, o).tls = t
          /\ Hs(hs[h].client, hs[h].at, "closed", t, o).owned = o
    BY <1>1, <1>3, FieldsOf
  <2>2. r = Hs(hs[h].client, hs[h].at, "closed", FALSE, FALSE)
    BY Zenon
  <2> QED BY <1>3, <2>1, <2>2, Zenon
<1> HIDE DEF r
<1>6. hs' = [hs EXCEPT ![h] = r]
  BY <1>2, <1>4, Zenon
<1>7. hs'[h] = r
  BY <1>1, <1>5, <1>6, Replaced, Zenon
<1>8. HoldsItsDue(h)
  BY Zenon DEF LisIInv
<1>9. HoldsItsDue(h)'
  BY Zenon, <1>1, <1>2, <1>5, <1>7, <1>8 DEF HoldsItsDue, HandshakeType, HsPlaces
<1>10. /\ routes' \subseteq Runs /\ routes' \ {h} = routes \ {h}
       /\ halfPCs' \subseteq Runs /\ halfPCs' \ {h} = halfPCs \ {h}
       /\ waking' \subseteq Runs /\ waking' \ {h} = waking \ {h} /\ halfOpen' \subseteq halfOpen
  BY <1>1, <1>2, Zenon DEF LisTypes
<1>11. r.at = "gone" => hs[h].at = "gone"
  BY <1>5, Zenon
<1> QED BY <1>2, <1>5, <1>6, <1>9, <1>10, <1>11, OneHandshake, Zenon

LEMMA CloseWakesKeeps ==
  ASSUME LisIInv, NEW h \in Runs, CloseWakes(h) PROVE LisIInv'
<1>1. LisTypes /\ hs[h] \in HandshakeType
  <2>1. LisTypes
    BY Zenon DEF LisIInv
  <2> QED BY <2>1 DEF LisTypes, Runs
<1> DEFINE r == Hs(hs[h].client, hs[h].at, "closed", hs[h].tls, hs[h].owned)
<1>2. /\ h \in waking
      /\ hs' = [hs EXCEPT ![h] = [hs[h] EXCEPT !.view = "closed"]]
      /\ routes' = routes \ {h} /\ waking' = waking \ {h} /\ UNCHANGED halfPCs
      /\ UNCHANGED <<inHand, halfOpen, closing>>
  BY Zenon DEF CloseWakes
<1>3. /\ hs[h].at \in HsPlaces /\ "closed" \in {"none", "open", "closed"}
      /\ hs[h].tls \in BOOLEAN /\ hs[h].owned \in BOOLEAN
  BY Zenon, <1>1 DEF HsPlaces, HandshakeType
<1>4. [hs[h] EXCEPT !.view = "closed"] = r
  BY <1>1, SetView, Zenon
<1>5. /\ r \in HandshakeType /\ r.client = hs[h].client /\ r.at = hs[h].at /\ r.view = "closed"
      /\ r.tls = hs[h].tls /\ r.owned = hs[h].owned
  BY <1>1, <1>3, FieldsOf
<1> HIDE DEF r
<1>6. hs' = [hs EXCEPT ![h] = r]
  BY <1>2, <1>4, Zenon
<1>7. hs'[h] = r
  BY <1>1, <1>5, <1>6, Replaced, Zenon
<1>8. HoldsItsDue(h)
  BY Zenon DEF LisIInv
<1>9. HoldsItsDue(h)'
  BY Zenon, <1>1, <1>2, <1>5, <1>7, <1>8 DEF HoldsItsDue, HandshakeType, HsPlaces
<1>10. /\ routes' \subseteq Runs /\ routes' \ {h} = routes \ {h}
       /\ halfPCs' \subseteq Runs /\ halfPCs' \ {h} = halfPCs \ {h}
       /\ waking' \subseteq Runs /\ waking' \ {h} = waking \ {h} /\ halfOpen' \subseteq halfOpen
  BY <1>1, <1>2, Zenon DEF LisTypes
<1>11. r.at = "gone" => hs[h].at = "gone"
  BY <1>5, Zenon
<1> QED BY <1>2, <1>5, <1>6, <1>9, <1>10, <1>11, OneHandshake, Zenon

LEMMA PublishKeeps ==
  ASSUME LisIInv, NEW h \in Runs, Publish(h) PROVE LisIInv'
<1>1. LisTypes /\ hs[h] \in HandshakeType
  <2>1. LisTypes
    BY Zenon DEF LisIInv
  <2> QED BY <2>1 DEF LisTypes, Runs
<1>2. hs[h].at = "publish" /\ UNCHANGED <<inHand, halfOpen, routes, halfPCs, closing, waking>>
  BY Zenon DEF Publish
<1>3. CASE Goto(h, "abandon")
  BY <1>2, <1>3, MovesOn, Zenon
<1>4. CASE hs' = [hs EXCEPT ![h] = [hs[h] EXCEPT !.at = "drop1", !.owned = TRUE]]
  <2> DEFINE r == Hs(hs[h].client, "drop1", hs[h].view, hs[h].tls, TRUE)
  <2>1. [hs[h] EXCEPT !.at = "drop1", !.owned = TRUE] = r
    <3>1. \A o : [hs[h] EXCEPT !.at = "drop1", !.owned = o]
                  = Hs(hs[h].client, "drop1", hs[h].view, hs[h].tls, o)
      BY <1>1, SetAtOwned, Zenon
    <3> QED BY <3>1, Zenon
  <2>2. r \in HandshakeType /\ r.client = hs[h].client /\ r.at = "drop1" /\ r.owned
    <3>1. "drop1" \in HsPlaces /\ hs[h].view \in {"none", "open", "closed"} /\ hs[h].tls \in BOOLEAN
      BY Zenon, <1>1 DEF HsPlaces, HandshakeType
    <3>2. \A o \in BOOLEAN :
            /\ Hs(hs[h].client, "drop1", hs[h].view, hs[h].tls, o) \in HandshakeType
            /\ Hs(hs[h].client, "drop1", hs[h].view, hs[h].tls, o).client = hs[h].client
            /\ Hs(hs[h].client, "drop1", hs[h].view, hs[h].tls, o).at = "drop1"
            /\ Hs(hs[h].client, "drop1", hs[h].view, hs[h].tls, o).owned = o
      BY <1>1, <3>1, FieldsOf
    <3>3. TRUE \in BOOLEAN
      BY Zenon
    <3> QED BY <3>2, <3>3, Zenon
  <2> HIDE DEF r
  <2>3. hs' = [hs EXCEPT ![h] = r]
    BY <1>4, <2>1, Zenon
  <2>4. hs'[h] = r
    BY <1>1, <2>2, <2>3, Replaced, Zenon
  <2>5. HoldsItsDue(h)'
    <3>1. hs'[h].at = "drop1" /\ hs'[h].owned
      BY <2>2, <2>4, Zenon
    <3> QED BY Zenon, <3>1 DEF HoldsItsDue
  <2>6. routes \subseteq Runs /\ halfPCs \subseteq Runs /\ waking \subseteq Runs /\ r.at # "gone"
    BY <1>1, <2>2, Zenon DEF LisTypes
  <2> QED BY <1>2, <2>2, <2>3, <2>5, <2>6, OneHandshake, Zenon
<1> QED BY <1>3, <1>4, Zenon DEF Publish

\* A new handshake goes to the end and is at its start.
LEMMA RouteKeeps ==
  ASSUME LisIInv, Route PROVE LisIInv'
<1>1. LisTypes
  BY Zenon DEF LisIInv
<1>2. inHand' = Nobody /\ inHand \in Clients /\ UNCHANGED <<routes, halfPCs, closing, waking>>
  BY <1>1, Zenon DEF Route, LisTypes
<1>3. CASE UNCHANGED <<halfOpen, hs>>
  <2>1. Runs' = Runs /\ hs' = hs /\ halfOpen' = halfOpen
    BY <1>3, Zenon DEF Runs
  <2>2. LisTypes'
    BY <1>1, <1>2, <2>1, Zenon DEF LisTypes
  <2>3. \A h \in Runs : HoldsItsDue(h)'
    BY <1>2, <2>1, Zenon DEF LisIInv, HoldsItsDue
  <2>4. \A c \in halfOpen : c \in Clients /\ IsUnderWay(c)'
    BY <2>1, Zenon DEF LisIInv, IsUnderWay
  <2> QED BY <2>1, <2>2, <2>3, <2>4, Zenon DEF LisIInv
<1>4. CASE /\ halfOpen' = halfOpen \cup {inHand}
           /\ hs' = Append(hs, Hs(inHand, "start", "none", FALSE, FALSE))
  <2> DEFINE new == Hs(inHand, "start", "none", FALSE, FALSE)
  <2>0. PICK k, d : k = Len(hs) + 1 /\ d = inHand
    BY Zenon
  <2>1. /\ new \in HandshakeType /\ new.client = inHand /\ new.at = "start"
        /\ ~new.tls /\ ~new.owned
    <3>1. ASSUME NEW b \in BOOLEAN
          PROVE  /\ Hs(inHand, "start", "none", b, b) \in HandshakeType
                 /\ Hs(inHand, "start", "none", b, b).client = inHand
                 /\ Hs(inHand, "start", "none", b, b).at = "start"
                 /\ Hs(inHand, "start", "none", b, b).tls = b
                 /\ Hs(inHand, "start", "none", b, b).owned = b
      BY Zenon, <1>2, <3>1 DEF Hs, HandshakeType, HsPlaces
    <3>2. FALSE \in BOOLEAN
      BY Zenon
    <3> QED BY <3>1, <3>2, Zenon
  <2> HIDE DEF new
  <2>2. hs' = Append(hs, new)
    BY <1>4, Zenon DEF new
  <2>3. /\ hs' \in Seq(HandshakeType) /\ Runs' = Runs \cup {k} /\ k \notin Runs
        /\ hs'[k] = new /\ \A x \in Runs : hs'[x] = hs[x]
    BY <1>1, <2>0, <2>1, <2>2 DEF LisTypes, Runs
  <2>4. LisTypes'
    BY <1>1, <1>2, <2>3, Zenon DEF LisTypes
  <2>5. \A x \in Runs' : HoldsItsDue(x)'
    <3>1. ASSUME NEW x \in Runs PROVE HoldsItsDue(x)'
      <4>1. HoldsItsDue(x) /\ hs'[x] = hs[x]
        BY <2>3, <3>1, Zenon DEF LisIInv
      <4> QED BY <1>2, <4>1, Zenon DEF HoldsItsDue
    <3>2. HoldsItsDue(k)'
      <4>1. hs'[k].at = "start" /\ ~hs'[k].tls /\ ~hs'[k].owned
        BY <2>1, <2>3, Zenon
      <4>2. k \notin routes' /\ k \notin halfPCs'
        BY <1>1, <1>2, <2>3, Zenon DEF LisTypes
      <4> QED BY Zenon, <4>1, <4>2 DEF HoldsItsDue
    <3> QED BY <2>3, <3>1, <3>2, Zenon
  <2>6. \A c \in halfOpen' : c \in Clients /\ IsUnderWay(c)'
    <3>1. ASSUME NEW c \in halfOpen PROVE c \in Clients /\ IsUnderWay(c)'
      <4>1. PICK y \in Runs : hs[y].client = c /\ hs[y].at # "gone"
        BY <3>1, Zenon DEF LisIInv, IsUnderWay
      <4>2. hs'[y] = hs[y] /\ y \in Runs'
        BY <2>3, Zenon
      <4>3. IsUnderWay(c)'
        BY <4>1, <4>2, Zenon DEF IsUnderWay
      <4> QED BY <3>1, <4>3, Zenon DEF LisIInv
    <3>2. IsUnderWay(d)'
      <4>1. k \in Runs' /\ hs'[k].client = d /\ hs'[k].at # "gone"
        BY <2>0, <2>1, <2>3, Zenon
      <4> QED BY <4>1, Zenon DEF IsUnderWay
    <3> QED BY <1>2, <1>4, <2>0, <3>1, <3>2, Zenon
  <2> QED BY <2>4, <2>5, <2>6, Zenon DEF LisIInv
<1> QED BY <1>3, <1>4, Zenon DEF Route, Hs

\* A step of serve, Accept or Close that moves no handshake.
LEMMA NoHandshake ==
  ASSUME LisIInv, UNCHANGED <<halfOpen, hs, routes, halfPCs>>, inHand' \in Clients \cup {Nobody},
         closing' \in {"no", "closed", "socket", "woke", "done"}, waking' \subseteq Runs,
         closing' = "woke" => (closing = "woke" /\ waking' = waking) \/ waking' = halfPCs
  PROVE  LisIInv'
<1>1. LisTypes /\ Runs' = Runs
  BY Zenon DEF LisIInv, Runs
<1>2. LisTypes'
  BY <1>1, Zenon DEF LisTypes
<1>3. ASSUME NEW h \in Runs PROVE HoldsItsDue(h)'
  <2>1. HoldsItsDue(h)
    BY Zenon DEF LisIInv
  <2> QED BY <2>1, Zenon DEF HoldsItsDue
<1>4. \A c \in halfOpen : c \in Clients /\ IsUnderWay(c)'
  BY <1>1, Zenon DEF LisIInv, IsUnderWay
<1> QED BY <1>1, <1>2, <1>3, <1>4, Zenon DEF LisIInv

LEMMA LisStepHolds == LisIInv /\ [LisNext]_lisVars => LisIInv'
<1> SUFFICES ASSUME LisIInv, [LisNext]_lisVars PROVE LisIInv'
  BY Zenon
<1>1. inHand \in Clients \cup {Nobody} /\ waking \subseteq Runs /\ halfPCs \subseteq Runs
      /\ closing \in {"no", "closed", "socket", "woke", "done"}
  BY Zenon DEF LisIInv, LisTypes
<1>2. ASSUME NEW c \in Clients, ServeReads(c) PROVE LisIInv'
  <2>1. UNCHANGED <<halfOpen, hs, routes, halfPCs>> /\ inHand' = c /\ UNCHANGED <<closing, waking>>
    BY <1>2, Zenon DEF ServeReads
  <2> QED BY <1>1, <1>2, <2>1, NoHandshake, Zenon
<1>3. CASE Route
  BY Zenon, <1>3, RouteKeeps
<1>4. CASE Accept
  BY <1>1, <1>4, NoHandshake, Zenon DEF Accept
<1>5. CASE CloseStarts \/ CloseSocket \/ CloseReturns
  <2>1. /\ UNCHANGED <<halfOpen, hs, routes, halfPCs>> /\ inHand' = inHand /\ waking' = waking
        /\ closing' \in {"closed", "socket", "done"}
    BY <1>5, Zenon DEF CloseStarts, CloseSocket, CloseReturns
  <2>2. closing' # "woke" /\ closing' \in {"no", "closed", "socket", "woke", "done"}
    BY Zenon, <2>1
  <2> QED BY <1>1, <2>1, <2>2, NoHandshake, Zenon
<1>6. CASE CloseCollects
  <2>1. /\ UNCHANGED <<halfOpen, hs, routes, halfPCs>> /\ inHand' = inHand /\ waking' = halfPCs
        /\ closing' = "woke"
    BY <1>6, Zenon DEF CloseCollects
  <2>2. closing' \in {"no", "closed", "socket", "woke", "done"}
    BY <2>1, Zenon
  <2> QED BY <1>1, <2>1, <2>2, NoHandshake, Zenon
<1>7. ASSUME NEW h \in Runs, Reads(h) \/ ReadsClosed(h) \/ HandshakeTimeout(h) PROVE LisIInv'
  <2>1. /\ hs[h].at = "read" /\ (Goto(h, "publish") \/ Goto(h, "abandon"))
        /\ UNCHANGED <<inHand, halfOpen, routes, halfPCs, closing, waking>>
    BY <1>7, Zenon DEF Reads, ReadsClosed, HandshakeTimeout
  <2>2. PICK at \in {"publish", "abandon"} : Goto(h, at)
    BY <2>1, Zenon
  <2>3. at \in {"read", "publish", "abandon"} /\ at # "read"
    BY Zenon
  <2>4. hs[h].at \in {"flight", "read", "publish"}
    BY <2>1, Zenon
  <2> QED BY <2>1, <2>2, <2>3, <2>4, MovesOn, Zenon
<1>8. ASSUME NEW h \in Runs, Refuse(h) \/ Register(h) \/ SendFlight(h) \/ Publish(h) \/ Abandon(h)
      PROVE  LisIInv'
  BY <1>8, RefuseKeeps, RegisterKeeps, SendFlightKeeps, PublishKeeps, AbandonKeeps, Zenon
<1>9. ASSUME NEW h \in Runs, DropHalfPC(h) \/ DropHalfOpen(h) \/ CloseConn(h) \/ CloseWakes(h)
      PROVE  LisIInv'
  BY <1>9, DropHalfPCKeeps, DropHalfOpenKeeps, CloseConnKeeps, CloseWakesKeeps, Zenon
<1>10. CASE UNCHANGED lisVars
  BY <1>1, <1>10, NoHandshake, Zenon DEF lisVars
<1> QED BY <1>2, <1>3, <1>4, <1>5, <1>6, <1>7, <1>8, <1>9, <1>10, Zenon DEF LisNext

(***************************************************************************)
(* ListenerWindsDown holds in every behaviour, for any clients, any number *)
(* of handshakes and any backlog: once Close has closed the views it       *)
(* collected no handshake can park in a read, and the tables hold nothing  *)
(* of a handshake that is over (src/quic/listener.go:244, :351, :362).     *)
(***************************************************************************)
THEOREM ListenerAlwaysWindsDown == LisSpec => []ListenerWindsDown
<1>1. LisIInv => ListenerWindsDown
  <2> SUFFICES ASSUME LisIInv PROVE ListenerWindsDown
    BY Zenon
  <2>1. \A h \in Runs : HoldsItsDue(h)
    BY Zenon DEF LisIInv
  <2>2. (closing = "woke" /\ waking = {}) =>
          \A h \in Runs : ~(hs[h].at = "read" /\ hs[h].view = "open")
    BY <2>1, Zenon DEF HoldsItsDue
  <2>3. \A h \in Runs :
          Ended(h) => /\ h \notin halfPCs
                      /\ ~hs[h].owned => h \notin routes /\ ~hs[h].tls
    BY <2>1, Zenon DEF HoldsItsDue, Ended
  <2>4. \A c \in halfOpen : \E h \in Runs : hs[h].client = c /\ ~Ended(h)
    BY Zenon DEF LisIInv, IsUnderWay, Ended
  <2> QED BY <2>2, <2>3, <2>4, Zenon DEF ListenerWindsDown
<1> QED BY <1>1, LisInitHolds, LisStepHolds, PTL DEF LisSpec

-----------------------------------------------------------------------------
(* QuicConnIDs. *)
CidTypes ==
  /\ issued \in Seq(Nat) /\ Len(issued) <= MaxSeq
  /\ retirePriorTo \in Nat /\ retirePriorTo <= MaxSeq /\ curCIDSeq \in Nat /\ pendingRetires \in Nat
  /\ \A i \in DOMAIN issued : issued[i] <= i /\ i - issued[i] + 1 <= ActiveCIDLimit

\* The ids heard of part at the boundary into those held and those being retired.
CidParts ==
  /\ heard \subseteq {0} \cup DOMAIN issued
  /\ \A s \in heard : s # 0 => issued[s] <= retirePriorTo
  /\ \A s \in heard : s >= retirePriorTo => s \in serverCIDs
  /\ \A s \in heard : s < retirePriorTo => s \in queued \cup sentRetires \cup gone
  /\ serverCIDs \subseteq heard /\ \A s \in serverCIDs : s >= retirePriorTo
  /\ queued \subseteq 0..retirePriorTo - 1 /\ sentRetires \subseteq 0..retirePriorTo - 1

CidIInv ==
  /\ CidTypes /\ CidParts
  /\ curCIDSeq \in serverCIDs /\ tokens = serverCIDs
  /\ pendingRetires <= Cardinality(queued)
  /\ cidError = FALSE

\* switchToActiveCID: a set of ids that is not empty has a least one.
LEMMA LeastId ==
  ASSUME NEW S \in SUBSET Nat, S # {} PROVE Min(S) \in S
<1>1. PICK x \in S : \A y \in S : ~(<<y, x>> \in OpToRel(<, Nat))
  BY NatLessThanWellFounded, WFMin, Zenon
<1>2. \A y \in S : x <= y
  <2> SUFFICES ASSUME NEW y \in S, y < x PROVE FALSE
    OBVIOUS
  <2>1. <<y, x>> \in OpToRel(<, Nat)
    <3>1. <<y, x>> \in Nat \X Nat /\ <<y, x>>[1] < <<y, x>>[2]
      BY Zenon
    <3> QED BY <3>1, Zenon DEF OpToRel
  <2> QED BY <1>1, <2>1, Zenon
<1> QED BY <1>2, Zenon DEF Min

LEMMA CidInitHolds == CidInit => CidIInv
<1> SUFFICES ASSUME CidInit PROVE CidIInv
  BY Zenon
<1>1. Cardinality({}) = 0
  BY Zenon, FS_EmptySet
<1>2. cidError = FALSE
  BY Zenon DEF CidInit
<1>3. CidTypes
  BY CidAssumption DEF CidInit, CidTypes
<1>4. CidParts
  BY <1>3 DEF CidInit, CidParts
<1> QED BY <1>1, <1>2, <1>3, <1>4 DEF CidInit, CidIInv

LEMMA FewIds ==
  ASSUME NEW n \in Nat, NEW S \in SUBSET (0..n - 1)
  PROVE  IsFiniteSet(S) /\ Cardinality(S) \in Nat /\ Cardinality(S) <= n
<1>1. IsFiniteSet(0..n - 1) /\ Cardinality(0..n - 1) = n
  BY FS_Interval
<1>2. IsFiniteSet(S) /\ Cardinality(S) <= Cardinality(0..n - 1)
  BY <1>1, FS_Subset, Zenon
<1>3. Cardinality(S) \in Nat
  BY <1>2, FS_CardinalityType, Zenon
<1> QED BY Zenon, <1>1, <1>2, <1>3

LEMMA IssueKeeps ==
  ASSUME CidIInv, Issue PROVE CidIInv'
<1> DEFINE s == Len(issued) + 1
<1>1. PICK prior \in (IF issued = <<>> THEN 0 ELSE issued[s - 1])..s :
        s <= MaxSeq /\ s - prior + 1 <= ActiveCIDLimit /\ issued' = Append(issued, prior)
  BY Zenon DEF Issue
<1>2. UNCHANGED <<serverCIDs, tokens, retirePriorTo, curCIDSeq, pendingRetires, queued,
                  sentRetires, heard, gone, cidError>>
  BY Zenon DEF Issue
<1>3. issued \in Seq(Nat) /\ Len(issued) \in Nat
  BY DEF CidIInv, CidTypes
<1>4. prior \in Nat /\ prior <= s
  <2>1. CASE issued = <<>>
    BY <1>1, <1>3, <2>1
  <2>2. CASE issued # <<>>
    <3>1. issued[s - 1] \in Nat
      BY <1>3, <2>2
    <3>2. prior \in issued[s - 1]..s
      BY <1>1, <2>2, Zenon
    <3> QED BY <1>3, <3>1, <3>2
  <2> QED BY Zenon, <2>1, <2>2
<1>5. /\ issued' \in Seq(Nat) /\ Len(issued') = s /\ DOMAIN issued' = DOMAIN issued \cup {s}
      /\ issued'[s] = prior /\ \A i \in DOMAIN issued : issued'[i] = issued[i]
      /\ DOMAIN issued = 1..Len(issued)
  BY <1>1, <1>3, <1>4
<1>6. CidTypes'
  BY <1>1, <1>2, <1>5 DEF CidIInv, CidTypes
<1>7. CidParts'
  BY Zenon, <1>2, <1>5 DEF CidIInv, CidParts
<1> QED BY Zenon, <1>2, <1>6, <1>7 DEF CidIInv

LEMMA BelowBoundaryKeeps ==
  ASSUME CidIInv, NEW s \in DOMAIN issued, s < retirePriorTo, s \notin queued, BelowBoundary(s)
  PROVE  CidIInv'
<1>1. /\ queued' = queued \cup {s} /\ heard' = heard \cup {s} /\ pendingRetires' = pendingRetires + 1
      /\ issued' = issued /\ serverCIDs' = serverCIDs /\ tokens' = tokens
      /\ retirePriorTo' = retirePriorTo /\ curCIDSeq' = curCIDSeq
      /\ sentRetires' = sentRetires /\ gone' = gone
  BY Zenon DEF BelowBoundary
<1>2. s \in 1..Len(issued) /\ s \in Nat /\ issued[s] \in Nat /\ issued[s] <= s /\ retirePriorTo \in Nat
  BY DEF CidIInv, CidTypes
<1>3. CidTypes'
  BY <1>1 DEF CidIInv, CidTypes
<1>4. CidParts'
  <2>1. heard' \subseteq {0} \cup DOMAIN issued' /\ serverCIDs' \subseteq heard'
    BY <1>1, Zenon DEF CidIInv, CidParts
  <2>2. \A x \in heard' : /\ x # 0 => issued'[x] <= retirePriorTo'
                          /\ x >= retirePriorTo' => x \in serverCIDs'
    BY <1>1, <1>2 DEF CidIInv, CidParts
  <2>3. \A x \in heard' : x < retirePriorTo' => x \in queued' \cup sentRetires' \cup gone'
    BY <1>1, Zenon DEF CidIInv, CidParts
  <2>4. s \in 0..retirePriorTo - 1
    BY <1>2
  <2>5. queued' \subseteq 0..retirePriorTo' - 1 /\ sentRetires' \subseteq 0..retirePriorTo' - 1
    BY <1>1, <2>4, Zenon DEF CidIInv, CidParts
  <2> QED BY <1>1, <2>1, <2>2, <2>3, <2>5, Zenon DEF CidIInv, CidParts
<1>5. queued \in SUBSET (0..retirePriorTo - 1) /\ queued' \in SUBSET (0..retirePriorTo - 1)
  BY <1>1, <1>4, Zenon DEF CidIInv, CidParts
<1>6. /\ IsFiniteSet(queued) /\ Cardinality(queued) \in Nat
      /\ Cardinality(queued') \in Nat /\ Cardinality(queued') <= retirePriorTo
  BY <1>2, <1>5, FewIds, Zenon
<1>7. Cardinality(queued') = Cardinality(queued) + 1
  BY <1>1, <1>6, FS_AddElement, Zenon
<1>8. pendingRetires' <= Cardinality(queued') /\ ~(pendingRetires + 1 > MaxPendingRetires)
  <2>1. /\ pendingRetires \in Nat /\ pendingRetires <= Cardinality(queued)
        /\ retirePriorTo \in Nat /\ retirePriorTo <= MaxSeq
    BY Zenon DEF CidIInv, CidTypes
  <2>2. pendingRetires' = pendingRetires + 1
    BY Zenon, <1>1
  <2> QED  BY <1>6, <1>7, <2>1, <2>2, CidAssumption
<1>9. cidError' = FALSE
  BY <1>8, Zenon DEF BelowBoundary, CidIInv
<1> QED BY Zenon, <1>1, <1>3, <1>4, <1>8, <1>9 DEF CidIInv

\* The ids kept lie within the limit above the bound.
LEMMA StoreKeeps ==
  ASSUME CidIInv, NEW s \in DOMAIN issued, ~(s < retirePriorTo), s \notin serverCIDs,
         StoreCID(s, issued[s])
  PROVE  CidIInv'
<1> DEFINE prior == issued[s]
           bound == IF prior > retirePriorTo THEN prior ELSE retirePriorTo
           stored == serverCIDs \cup {s}
           passed == {x \in stored : prior > retirePriorTo /\ x < prior}
           kept == stored \ passed
<1>1. /\ serverCIDs' = kept /\ tokens' = (tokens \cup {s}) \ passed /\ retirePriorTo' = bound
      /\ curCIDSeq' = ActiveCID(kept, curCIDSeq, bound)
      /\ queued' = queued \cup passed /\ heard' = heard \cup {s}
      /\ pendingRetires' = pendingRetires + Cardinality(passed)
      /\ cidError' = (\/ cidError \/ Cardinality(kept) > ActiveCIDLimit
                      \/ pendingRetires + Cardinality(passed) > MaxPendingRetires)
      /\ issued' = issued /\ sentRetires' = sentRetires /\ gone' = gone
  BY Zenon DEF StoreCID
<1>2. /\ s \in Nat /\ prior \in Nat /\ prior <= s /\ s <= MaxSeq /\ retirePriorTo \in Nat /\ s # 0
      /\ s - prior + 1 <= ActiveCIDLimit /\ MaxSeq \in Nat /\ retirePriorTo <= MaxSeq
      /\ s >= retirePriorTo
  BY CidAssumption DEF CidIInv, CidTypes
<1>3. serverCIDs \subseteq Nat /\ heard \subseteq Nat /\ \A x \in serverCIDs : x >= retirePriorTo
  BY DEF CidIInv, CidTypes, CidParts
<1>4. bound \in Nat /\ bound >= retirePriorTo /\ bound >= prior /\ bound <= s /\ bound <= MaxSeq
  BY <1>2
<1>5. \A x \in stored : x \in Nat /\ x >= retirePriorTo /\ (x \in passed <=> x < bound)
  <2> SUFFICES ASSUME NEW x \in stored
               PROVE  x \in Nat /\ x >= retirePriorTo /\ (x \in passed <=> x < bound)
    BY Zenon
  <2>1. x \in Nat /\ x >= retirePriorTo
    BY Zenon, <1>2, <1>3
  <2>2. CASE prior > retirePriorTo
    BY Zenon, <2>1, <2>2
  <2>3. CASE ~(prior > retirePriorTo)
    BY <1>2, <2>1, <2>3
  <2> QED BY Zenon, <2>1, <2>2, <2>3
<1>6. s \in kept /\ kept \subseteq Nat /\ passed \subseteq Nat
  <2>1. s \in stored /\ ~(s < bound)
    BY <1>2, <1>4
  <2> HIDE DEF bound
  <2> QED BY <1>5, <2>1, Zenon
<1> HIDE DEF bound
<1>7. passed = {x \in stored : x < bound} /\ kept = {x \in stored : ~(x < bound)}
  BY <1>5, Zenon
<1> HIDE DEF kept, passed
<1>8. passed \in SUBSET (0..bound - 1) /\ queued \in SUBSET (0..retirePriorTo - 1)
  <2>1. \A x \in passed : x \in Nat /\ x < bound
    BY Zenon, <1>4, <1>5, <1>6, <1>7
  <2> QED BY <1>4, <2>1 DEF CidIInv, CidParts
<1>9. /\ IsFiniteSet(passed) /\ Cardinality(passed) \in Nat
      /\ IsFiniteSet(queued) /\ Cardinality(queued) \in Nat
  BY <1>2, <1>4, <1>8, FewIds, Zenon
<1>10. queued \cup passed \in SUBSET (0..bound - 1)
  BY <1>2, <1>4, <1>8
<1>11. Cardinality(queued \cup passed) = Cardinality(queued) + Cardinality(passed)
  <2>1. queued \cap passed = {}
    <3> SUFFICES ASSUME NEW x \in queued, x \in passed PROVE FALSE
      BY Zenon
    <3>1. x \in 0..retirePriorTo - 1
      BY <1>8, Zenon
    <3>2. x \in Nat /\ x >= retirePriorTo
      BY Zenon, <1>2, <1>3, <1>5, <1>7
    <3> QED BY <1>2, <3>1, <3>2
  <2>2. Cardinality({}) = 0
    BY FS_EmptySet, Zenon
  <2>3. Cardinality(queued \cup passed)
          = Cardinality(queued) + Cardinality(passed) - Cardinality(queued \cap passed)
    BY <1>9, FS_Union, Zenon
  <2>4. Cardinality(queued \cap passed) = 0
    BY <2>1, <2>2, Zenon
  <2> QED BY <1>9, <2>3, <2>4
<1>12. Cardinality(queued \cup passed) \in Nat /\ Cardinality(queued \cup passed) <= bound
  BY <1>4, <1>10, FewIds, Zenon
<1>13. /\ pendingRetires' \in Nat /\ pendingRetires' <= Cardinality(queued')
       /\ ~(pendingRetires + Cardinality(passed) > MaxPendingRetires)
  <2>1. pendingRetires \in Nat /\ pendingRetires <= Cardinality(queued) /\ bound <= MaxSeq
    BY Zenon, <1>4 DEF CidIInv, CidTypes
  <2>2. pendingRetires' = pendingRetires + Cardinality(passed) /\ queued' = queued \cup passed
    BY Zenon, <1>1
  <2> HIDE DEF passed, bound
  <2>3. Cardinality(queued') = Cardinality(queued) + Cardinality(passed)
    BY Zenon, <1>11, <2>2
  <2> QED  BY <1>4, <1>9, <1>11, <1>12, <2>1, <2>2, <2>3, CidAssumption
<1>14. \A x \in kept : x \in heard' /\ x \in Nat /\ x >= bound /\ (x # 0 => x \in DOMAIN issued /\ issued[x] <= bound)
  <2> SUFFICES ASSUME NEW x \in kept
               PROVE  /\ x \in heard' /\ x \in Nat /\ x >= bound
                      /\ x # 0 => x \in DOMAIN issued /\ issued[x] <= bound
    BY Zenon
  <2>1. x \in serverCIDs \cup {s} /\ x \in Nat /\ x >= bound
    BY <1>4, <1>5, <1>6, <1>7
  <2>2. CASE x = s
    BY Zenon, <1>1, <1>4, <2>1, <2>2
  <2>3. CASE x \in serverCIDs
    <3>1. x \in heard /\ (x # 0 => x \in DOMAIN issued /\ issued[x] <= retirePriorTo)
      BY <2>3, Zenon DEF CidIInv, CidParts
    <3>2. x # 0 => issued[x] \in Nat
      BY <3>1 DEF CidIInv, CidTypes
    <3> QED BY <1>1, <1>2, <1>4, <2>1, <3>1, <3>2
  <2> QED BY <2>1, <2>2, <2>3, Zenon
<1>15. Cardinality(kept) \in Nat /\ Cardinality(kept) <= ActiveCIDLimit
  <2>1. ActiveCIDLimit \in Nat \ {0}
    BY Zenon, CidAssumption
  <2>2. \A x \in kept : x \in bound..bound + ActiveCIDLimit - 1
    <3> SUFFICES ASSUME NEW x \in kept
                 PROVE x \in Nat /\ x >= bound /\ x <= bound + ActiveCIDLimit - 1
      BY <1>4, <2>1
    <3>1. x # 0 => issued[x] \in Nat /\ x - issued[x] + 1 <= ActiveCIDLimit
      BY <1>14 DEF CidIInv, CidTypes
    <3> QED BY <1>4, <1>14, <2>1, <3>1
  <2>3. kept \in SUBSET (bound..bound + ActiveCIDLimit - 1)
    BY <2>2, Zenon
  <2>4. /\ IsFiniteSet(bound..bound + ActiveCIDLimit - 1)
        /\ Cardinality(bound..bound + ActiveCIDLimit - 1) = ActiveCIDLimit
    BY <1>4, <2>1, FS_Interval
  <2>5. /\ IsFiniteSet(kept)
        /\ Cardinality(kept) <= Cardinality(bound..bound + ActiveCIDLimit - 1)
    BY <2>3, <2>4, FS_Subset, Zenon
  <2>6. Cardinality(kept) \in Nat
    BY <2>5, FS_CardinalityType, Zenon
  <2> QED BY Zenon, <2>4, <2>5, <2>6
<1>16. cidError' = FALSE
  <2>1. ~(Cardinality(kept) > ActiveCIDLimit)
    BY <1>15, CidAssumption
  <2> QED BY <1>1, <1>13, <2>1, Zenon DEF CidIInv
<1>17. curCIDSeq' \in kept
  <2>1. CASE curCIDSeq < bound
    <3>1. curCIDSeq' = Min(kept)
      BY Zenon, <1>1, <1>6, <2>1 DEF ActiveCID
    <3> QED BY <1>6, <3>1, LeastId, Zenon
  <2>2. CASE ~(curCIDSeq < bound)
    <3>1. curCIDSeq' = curCIDSeq
      BY <1>1, <2>2, Zenon DEF ActiveCID
    <3>2. curCIDSeq \in serverCIDs /\ curCIDSeq \in Nat
      BY Zenon DEF CidIInv, CidTypes
    <3> QED BY Zenon, <1>7, <2>2, <3>1, <3>2
  <2> QED BY Zenon, <2>1, <2>2
<1>18. tokens' = serverCIDs'
  BY <1>1, Zenon DEF CidIInv, kept
<1>19. CidTypes'
  BY Zenon, <1>1, <1>4, <1>6, <1>13, <1>17 DEF CidIInv, CidTypes
<1>20. CidParts'
  <2>1. heard' \subseteq {0} \cup DOMAIN issued' /\ serverCIDs' \subseteq heard'
    BY <1>1, <1>14, Zenon DEF CidIInv, CidParts
  <2>2. \A x \in serverCIDs' : x >= retirePriorTo'
    BY Zenon, <1>1, <1>14
  <2>3. \A x \in heard' : x # 0 => issued'[x] <= retirePriorTo'
    <3> SUFFICES ASSUME NEW x \in heard', x # 0 PROVE issued[x] <= bound
      BY Zenon, <1>1
    <3>1. CASE x = s
      BY Zenon, <1>4, <3>1
    <3>2. CASE x \in heard
      <4>1. x \in DOMAIN issued /\ issued[x] <= retirePriorTo /\ issued[x] \in Nat
        BY <3>2 DEF CidIInv, CidParts, CidTypes
      <4> QED BY <1>2, <1>4, <4>1
    <3> QED BY <1>1, <3>1, <3>2, Zenon
  <2>4. \A x \in heard' : x >= retirePriorTo' => x \in serverCIDs'
    <3> SUFFICES ASSUME NEW x \in heard', x >= bound PROVE x \in kept
      BY Zenon, <1>1
    <3>1. x \in stored
      BY <1>1, <1>2, <1>3, <1>4 DEF CidIInv, CidParts
    <3> QED BY <1>4, <1>5, <1>7, <3>1
  <2>5. \A x \in heard' : x < retirePriorTo' => x \in queued' \cup sentRetires' \cup gone'
    <3> SUFFICES ASSUME NEW x \in heard', x < bound
                 PROVE x \in queued \cup passed \cup sentRetires \cup gone
      BY Zenon, <1>1
    <3>1. x # s /\ x \in heard
      BY <1>1, <1>2, <1>4
    <3>2. CASE x < retirePriorTo
      BY <3>1, <3>2, Zenon DEF CidIInv, CidParts
    <3>3. CASE ~(x < retirePriorTo)
      <4>1. x \in serverCIDs
        BY <1>2, <1>3, <3>1, <3>3 DEF CidIInv, CidParts
      <4> QED BY <1>7, <4>1, Zenon
    <3> QED BY Zenon, <3>2, <3>3
  <2>6. sentRetires' \subseteq 0..retirePriorTo' - 1
    <3>1. sentRetires \subseteq 0..retirePriorTo - 1
      BY Zenon DEF CidIInv, CidParts
    <3> QED BY <1>1, <1>2, <1>4, <3>1
  <2> QED BY Zenon, <1>1, <1>10, <2>1, <2>2, <2>3, <2>4, <2>5, <2>6 DEF CidParts
<1> QED BY Zenon, <1>1, <1>13, <1>16, <1>17, <1>18, <1>19, <1>20 DEF CidIInv

LEMMA FlushRetiresKeeps ==
  ASSUME CidIInv, FlushRetires PROVE CidIInv'
<1>1. /\ sentRetires' = sentRetires \cup queued /\ queued' = {} /\ pendingRetires' = 0
      /\ issued' = issued /\ serverCIDs' = serverCIDs /\ tokens' = tokens
      /\ retirePriorTo' = retirePriorTo /\ curCIDSeq' = curCIDSeq /\ heard' = heard /\ gone' = gone
      /\ cidError' = cidError
  BY Zenon DEF FlushRetires
<1>2. Cardinality(queued') = 0
  BY <1>1, FS_EmptySet, Zenon
<1>3. CidTypes'
  BY Zenon, <1>1 DEF CidIInv, CidTypes
<1>4. CidParts'
  BY <1>1, Zenon DEF CidIInv, CidParts
<1> QED BY <1>1, <1>2, <1>3, <1>4 DEF CidIInv

LEMMA RetireAckedKeeps ==
  ASSUME CidIInv, NEW s \in 0..MaxSeq, RetireAcked(s) PROVE CidIInv'
<1>1. /\ sentRetires' = sentRetires \ {s} /\ gone' = gone \cup {s} /\ queued' = queued
      /\ pendingRetires' = pendingRetires
      /\ issued' = issued /\ serverCIDs' = serverCIDs /\ tokens' = tokens
      /\ retirePriorTo' = retirePriorTo /\ curCIDSeq' = curCIDSeq /\ heard' = heard
      /\ cidError' = cidError
  BY Zenon DEF RetireAcked
<1>2. CidTypes'
  BY Zenon, <1>1 DEF CidIInv, CidTypes
<1>3. CidParts'
  BY <1>1, Zenon DEF CidIInv, CidParts
<1> QED BY <1>1, <1>2, <1>3, Zenon DEF CidIInv

LEMMA RetireLostKeeps ==
  ASSUME CidIInv, NEW s \in 0..MaxSeq, RetireLost(s) PROVE CidIInv'
<1>1. /\ s \in sentRetires /\ sentRetires' = sentRetires \ {s} /\ queued' = queued \cup {s}
      /\ gone' = gone /\ pendingRetires' = pendingRetires
      /\ issued' = issued /\ serverCIDs' = serverCIDs /\ tokens' = tokens
      /\ retirePriorTo' = retirePriorTo /\ curCIDSeq' = curCIDSeq /\ heard' = heard
      /\ cidError' = cidError
  BY Zenon DEF RetireLost
<1>2. CidTypes'
  BY Zenon, <1>1 DEF CidIInv, CidTypes
<1>3. CidParts'
  <2>1. queued' \subseteq 0..retirePriorTo - 1 /\ sentRetires' \subseteq 0..retirePriorTo - 1
    BY <1>1, Zenon DEF CidIInv, CidParts
  <2>2. queued' \cup sentRetires' \cup gone' = queued \cup sentRetires \cup gone
    BY <1>1, Zenon
  <2> QED BY <1>1, <2>1, <2>2, Zenon DEF CidIInv, CidParts
<1>4. queued \in SUBSET (0..retirePriorTo - 1) /\ retirePriorTo \in Nat /\ pendingRetires \in Nat
  BY Zenon DEF CidIInv, CidParts, CidTypes
<1>5. IsFiniteSet(queued) /\ Cardinality(queued) \in Nat
  BY <1>4, FewIds, Zenon
<1>6. Cardinality(queued') = IF s \in queued THEN Cardinality(queued) ELSE Cardinality(queued) + 1
  BY <1>1, <1>5, FS_AddElement, Zenon
<1>7. pendingRetires <= Cardinality(queued)
  BY Zenon DEF CidIInv
<1>8. pendingRetires' <= Cardinality(queued')
  BY <1>1, <1>4, <1>5, <1>6, <1>7
<1> QED BY <1>1, <1>2, <1>3, <1>8, Zenon DEF CidIInv

LEMMA CidStepHolds == CidIInv /\ [CidNext]_cidVars => CidIInv'
<1> SUFFICES ASSUME CidIInv, [CidNext]_cidVars PROVE CidIInv'
  BY Zenon
<1>1. CASE Issue
  BY Zenon, <1>1, IssueKeeps
<1>2. CASE FlushRetires
  BY Zenon, <1>2, FlushRetiresKeeps
<1>3. ASSUME NEW s \in 0..MaxSeq, OnNewConnectionID(s) PROVE CidIInv'
  BY <1>3, BelowBoundaryKeeps, StoreKeeps, Zenon DEF OnNewConnectionID
<1>4. ASSUME NEW s \in 0..MaxSeq, RetireAcked(s) \/ RetireLost(s) PROVE CidIInv'
  BY Zenon, <1>4, RetireAckedKeeps, RetireLostKeeps
<1>5. CASE UNCHANGED cidVars
  <2>1. /\ sentRetires' = sentRetires /\ queued' = queued
        /\ gone' = gone /\ pendingRetires' = pendingRetires
        /\ issued' = issued /\ serverCIDs' = serverCIDs /\ tokens' = tokens
        /\ retirePriorTo' = retirePriorTo /\ curCIDSeq' = curCIDSeq /\ heard' = heard
        /\ cidError' = cidError
    BY <1>5, Zenon DEF cidVars
  <2> QED BY <2>1, Zenon DEF CidIInv, CidTypes, CidParts
<1> QED BY <1>1, <1>2, <1>3, <1>4, <1>5, Zenon DEF CidNext

(***************************************************************************)
(* CIDsInStep holds in every behaviour, for any number of ids up to        *)
(* maxPendingRetires and any activeCIDLimit: frames in any order, repeated *)
(* or overtaken leave the client addressing an id it holds and retiring    *)
(* every id asked back, and no server that keeps to the limit is refused   *)
(* (src/quic/connid.go:29).                                                *)
(***************************************************************************)
THEOREM CIDsStayInStep == CidSpec => []CIDsInStep
<1>1. CidIInv => CIDsInStep
  BY Zenon DEF CidIInv, CidParts, CIDsInStep
<1> QED BY <1>1, CidInitHolds, CidStepHolds, PTL DEF CidSpec
=============================================================================
