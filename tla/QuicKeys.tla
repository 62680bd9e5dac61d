------------------------------- MODULE QuicKeys -------------------------------
(***************************************************************************)
(* Key updates of the 1-RTT keys (quic/crypto_keyupdate.go, openApp of     *)
(* quic/conn_crypto.go).  The peer starts updates, as RFC 9001 lets it:    *)
(* not before a packet of the current generation was acknowledged.  It may *)
(* have confirmed the handshake before this end did.  Packets are lost and *)
(* arrive in any order.  A key is its generation, a packet shows only the  *)
(* parity of it, and a packet opens under exactly the key that sealed it.  *)
(***************************************************************************)
EXTENDS Integers, FiniteSets

CONSTANTS
  MaxKeyPN,    \* bound: packets the peer sends
  SealLimit    \* confidentialityLimit

ASSUME KeyAssumption == MaxKeyPN \in Nat /\ SealLimit \in Nat

None == -1

VARIABLES
  peerGen,      \* the generation the peer seals with
  peerPN,       \* its next packet number
  transit,      \* its packets under way
  gen,          \* of keys.OneRTT and oneRTTSealer; its parity is keyUpdate.phase
  prev,         \* of keyUpdate.prev, or None
  boundary,     \* keyUpdate.boundary, or None
  sendCount,    \* appSendCount
  confirmed,    \* handshakeConfirmed
  failures,     \* authFailures
  current,      \* a packet of the peer's generation was opened (and is acknowledged)
  keysClosed    \* ErrAEADLimit

keyVars == <<peerGen, peerPN, transit, gen, prev, boundary, sendCount, confirmed,
             failures, current, keysClosed>>

Phase(g) == g % 2

\* The peer sends the next packet, perhaps under the next generation.
PeerSeals(update) ==
  /\ peerPN < MaxKeyPN
  /\ update => current
  /\ peerGen' = IF update THEN peerGen + 1 ELSE peerGen
  /\ transit' = transit \cup {[pn |-> peerPN, gen |-> peerGen']}
  /\ peerPN' = peerPN + 1
  /\ current' = (current /\ ~update)
  /\ UNCHANGED <<gen, prev, boundary, sendCount, confirmed, failures, keysClosed>>

PacketLost(p) ==
  /\ p \in transit
  /\ transit' = transit \ {p}
  /\ UNCHANGED <<peerGen, peerPN, gen, prev, boundary, sendCount, confirmed, failures,
                 current, keysClosed>>

\* Faulty variant: every packet of the other phase goes to the previous key.
OpenerForStale(p) ==
  IF Phase(p.gen) = Phase(gen) THEN gen
  ELSE IF prev # None THEN prev
  ELSE gen + 1

\* The key openApp tries: the phase bit, and below the boundary the previous key.
OpenerFor(p) ==
  IF Phase(p.gen) = Phase(gen) THEN gen
  ELSE IF prev # None /\ boundary # None /\ p.pn < boundary THEN prev
  ELSE gen + 1

\* commitKeyUpdate
CommitKeyUpdate(p) ==
  /\ prev' = gen /\ gen' = gen + 1 /\ boundary' = p.pn /\ sendCount' = 0

\* openApp; the update is refused until the handshake is confirmed.
OpenApp(p) ==
  /\ p \in transit
  /\ transit' = transit \ {p}
  /\ LET key == OpenerFor(p)
     IN \/ /\ key # p.gen
           /\ failures' = failures + 1
           /\ UNCHANGED <<gen, prev, boundary, sendCount, current>>
        \/ /\ key = p.gen /\ key = gen + 1 /\ confirmed
           /\ CommitKeyUpdate(p)
           /\ current' = (current \/ p.gen = peerGen)
           /\ UNCHANGED failures
        \/ /\ key = p.gen /\ key = gen + 1 /\ ~confirmed
           /\ UNCHANGED <<gen, prev, boundary, sendCount, failures, current>>
        \/ /\ key = p.gen /\ key # gen + 1
           /\ current' = (current \/ p.gen = peerGen)
           /\ UNCHANGED <<gen, prev, boundary, sendCount, failures>>
  /\ UNCHANGED <<peerGen, peerPN, confirmed, keysClosed>>

\* discardStaleKeys, three probe timeouts after the update: every packet of the
\* superseded generation has arrived or is lost by then.
DiscardStaleKeys ==
  /\ prev # None /\ \A p \in transit : p.gen # prev
  /\ prev' = None
  /\ UNCHANGED <<peerGen, peerPN, transit, gen, boundary, sendCount, confirmed, failures,
                 current, keysClosed>>

\* sealPacket: a packet under the current key, or the connection ends at its limit.
Seal ==
  /\ ~keysClosed
  /\ IF sendCount >= SealLimit THEN keysClosed' = TRUE /\ UNCHANGED sendCount
     ELSE sendCount' = sendCount + 1 /\ UNCHANGED keysClosed
  /\ UNCHANGED <<peerGen, peerPN, transit, gen, prev, boundary, confirmed, failures, current>>

\* OnHandshakeDone
Confirm ==
  /\ ~confirmed
  /\ confirmed' = TRUE
  /\ UNCHANGED <<peerGen, peerPN, transit, gen, prev, boundary, sendCount, failures, current,
                 keysClosed>>

KeyInit ==
  /\ peerGen = 0 /\ peerPN = 0 /\ transit = {} /\ gen = 0 /\ prev = None /\ boundary = None
  /\ sendCount = 0 /\ confirmed = FALSE /\ failures = 0 /\ current = FALSE /\ keysClosed = FALSE

KeyNext ==
  \/ \E update \in BOOLEAN : PeerSeals(update)
  \/ \E p \in transit : OpenApp(p) \/ PacketLost(p)
  \/ DiscardStaleKeys \/ Seal \/ Confirm

KeySpec == KeyInit /\ [][KeyNext]_keyVars

(***************************************************************************)
(* The keys follow the peer through any order of packets: a packet sealed  *)
(* under the current key, under the next one, or under the previous one    *)
(* while that is retained, is tried with its own key and no other, so the  *)
(* connection never falls a generation behind for good and never runs      *)
(* ahead of the peer, whose next packets it would reject.                  *)
(***************************************************************************)
KeysFollow ==
  /\ gen <= peerGen /\ peerGen <= gen + 1
  /\ \A p \in transit : p.gen \in {gen, gen + 1, prev} => OpenerFor(p) = p.gen
  /\ sendCount <= SealLimit
=============================================================================
