---------------------------- MODULE QuicAckRanges ----------------------------
(***************************************************************************)
(* The packet numbers an endpoint remembers (quic/ack_tracker.go), the ACK *)
(* frame it builds from them and what the peer reads out of that frame     *)
(* (OnAck and OnAckRange of quic/conn_recv.go).  ranges is the slice the   *)
(* code keeps, from the largest range down; insert works on it in place.   *)
(***************************************************************************)
EXTENDS Integers, FiniteSets, Sequences, SequencesExt

CONSTANTS
  MaxPN,        \* bound: packet numbers are 0..MaxPN
  MaxAckRanges  \* maxAckRanges

VARIABLES
  ranges,     \* ackTracker.ranges
  lowWater,   \* ackTracker.lowWater, 0 until truncated
  processed   \* every packet number whose packet was processed

ackVars == <<ranges, lowWater, processed>>

Rng(lo, hi) == [lo |-> lo, hi |-> hi]

\* seen
Seen(n) == n < lowWater \/ \E i \in DOMAIN ranges : n \in ranges[i].lo..ranges[i].hi

\* Faulty variant: a packet that closes a gap leaves two adjacent ranges.
AckInsertNoMerge(rs, n) ==
  LET i  == Cardinality({k \in DOMAIN rs : rs[k].hi >= n}) + 1
      up == i > 1 /\ rs[i - 1].lo = n + 1
  IN IF up THEN [rs EXCEPT ![i - 1].lo = n] ELSE InsertAt(rs, i, Rng(n, n))

\* insert: the place of n in the descending ranges, and the four ways it fits.
AckInsert(rs, n) ==
  LET i    == Cardinality({k \in DOMAIN rs : rs[k].hi >= n}) + 1
      up   == i > 1 /\ rs[i - 1].lo = n + 1
      down == i <= Len(rs) /\ rs[i].hi + 1 = n
  IN IF up /\ down THEN RemoveAt([rs EXCEPT ![i - 1].lo = rs[i].lo], i)
     ELSE IF up    THEN [rs EXCEPT ![i - 1].lo = n]
     ELSE IF down  THEN [rs EXCEPT ![i].hi = n]
     ELSE InsertAt(rs, i, Rng(n, n))

\* processPacket drops what it has seen; receive records the rest and forgets the
\* oldest range of too many.
ReceivePacket(n) ==
  /\ ~Seen(n)
  /\ processed' = processed \cup {n}
  /\ LET rs == AckInsert(ranges, n)
     IN IF Len(rs) > MaxAckRanges
        THEN /\ ranges' = SubSeq(rs, 1, MaxAckRanges)
             /\ lowWater' = IF rs[MaxAckRanges + 1].hi + 1 > lowWater
                            THEN rs[MaxAckRanges + 1].hi + 1 ELSE lowWater
        ELSE ranges' = rs /\ UNCHANGED lowWater

\* buildACK: the largest, the length of its range, then a gap and a length each.
BuildACK(rs) ==
  [largest |-> rs[1].hi, first |-> rs[1].hi - rs[1].lo,
   extra   |-> [i \in 1..Len(rs) - 1 |->
                  [gap |-> rs[i].lo - rs[i + 1].hi - 2, len |-> rs[i + 1].hi - rs[i + 1].lo]]]

\* OnAck and OnAckRange: the ranges the peer reads, or "bad" where they refuse.
DecodeACK(ack) ==
  LET low[i \in 0..Len(ack.extra)] ==
        IF i = 0 THEN ack.largest - ack.first
        ELSE low[i - 1] - ack.extra[i].gap - 2 - ack.extra[i].len
      bad == \/ ack.first > ack.largest
             \/ \E i \in DOMAIN ack.extra :
                  \/ ack.extra[i].gap + 2 > low[i - 1]
                  \/ ack.extra[i].len > low[i - 1] - ack.extra[i].gap - 2
  IN IF bad THEN <<"bad">>
     ELSE <<Rng(low[0], ack.largest)>>
            \o [i \in 1..Len(ack.extra) |-> Rng(low[i], low[i] + ack.extra[i].len)]

AckInit == ranges = <<>> /\ lowWater = 0 /\ processed = {}
AckNext == \E n \in 0..MaxPN : ReceivePacket(n)

(***************************************************************************)
(* The ranges stay sorted, disjoint and never adjacent, hold every packet  *)
(* processed at or above lowWater and nothing else, and survive the trip   *)
(* through an ACK frame.  So an acknowledgement names exactly packets that *)
(* arrived, no gap underflows, and a packet below the forgotten ranges is  *)
(* taken for a duplicate rather than processed twice.                      *)
(***************************************************************************)
AckRangesExact ==
  /\ \A i \in 1..Len(ranges) - 1 : ranges[i].lo > ranges[i + 1].hi + 1
  /\ {n \in 0..MaxPN : \E i \in DOMAIN ranges : n \in ranges[i].lo..ranges[i].hi}
       = {n \in processed : n >= lowWater}
  /\ \A n \in processed : Seen(n)
  /\ ranges # <<>> => DecodeACK(BuildACK(ranges)) = ranges
=============================================================================
