----------------------------- MODULE QuicConnIDs -----------------------------
(***************************************************************************)
(* The connection IDs a server issues to the client (quic/connid.go) and   *)
(* the RETIRE_CONNECTION_ID frames that answer.  NEW_CONNECTION_ID frames  *)
(* arrive in any order and more than once; a queued retirement goes out    *)
(* with the next flush, may be lost and is queued again.  The server keeps *)
(* to RFC 9000: ids in order, at most two of them not to be retired.       *)
(***************************************************************************)
EXTENDS Integers, FiniteSets, Sequences, FiniteSetsExt

CONSTANTS
  MaxSeq,            \* bound: the last sequence number the server issues
  ActiveCIDLimit,    \* activeCIDLimit
  MaxPendingRetires  \* maxPendingRetires

\* A server that issues more ids than maxPendingRetires may ask for too many of them
\* back between two flushes, and is refused for that.
ASSUME CidAssumption ==
  /\ MaxSeq \in Nat /\ ActiveCIDLimit \in Nat \ {0} /\ MaxPendingRetires \in Nat
  /\ MaxSeq <= MaxPendingRetires

VARIABLES
  issued,         \* the frames the server sent: issued[s] is the Retire Prior To of seq s
  serverCIDs,     \* the sequence numbers of Conn.serverCIDs
  tokens,         \* the sequence numbers of Conn.resetTokens
  retirePriorTo, curCIDSeq, pendingRetires,
  queued,         \* the retirements in retransQueue
  sentRetires,    \* those sent and not yet acknowledged
  heard,          \* the ids whose frame has arrived
  gone,           \* the ids the server knows to be retired
  cidError        \* OnNewConnectionID refused a frame

cidVars == <<issued, serverCIDs, tokens, retirePriorTo, curCIDSeq, pendingRetires,
             queued, sentRetires, heard, gone, cidError>>

\* The server issues the next id and may ask for older ones to be retired.
Issue ==
  LET s == Len(issued) + 1
  IN /\ s <= MaxSeq
     /\ \E prior \in (IF issued = <<>> THEN 0 ELSE issued[s - 1])..s :
          /\ s - prior + 1 <= ActiveCIDLimit
          /\ issued' = Append(issued, prior)
     /\ UNCHANGED <<serverCIDs, tokens, retirePriorTo, curCIDSeq, pendingRetires, queued,
                    sentRetires, heard, gone, cidError>>

\* Faulty variant: an id below the boundary is ignored, not retired.
BelowBoundaryIgnored(s) ==
  /\ heard' = heard \cup {s}
  /\ UNCHANGED <<issued, serverCIDs, tokens, retirePriorTo, curCIDSeq, pendingRetires, queued,
                 sentRetires, gone, cidError>>

\* OnNewConnectionID with a sequence number below the retire boundary: queueRetire.
BelowBoundary(s) ==
  /\ queued' = queued \cup {s} /\ heard' = heard \cup {s}
  /\ pendingRetires' = pendingRetires + 1
  /\ cidError' = (cidError \/ pendingRetires + 1 > MaxPendingRetires)
  /\ UNCHANGED <<issued, serverCIDs, tokens, retirePriorTo, curCIDSeq, sentRetires, gone>>

\* switchToActiveCID
ActiveCID(ids, cur, prior) == IF cur < prior /\ ids # {} THEN Min(ids) ELSE cur

\* OnNewConnectionID with a new id: store it, retire what the boundary passes.
StoreCID(s, prior) ==
  LET boundary == IF prior > retirePriorTo THEN prior ELSE retirePriorTo
      stored   == serverCIDs \cup {s}
      passed   == {x \in stored : prior > retirePriorTo /\ x < prior}
      kept     == stored \ passed
  IN /\ serverCIDs' = kept
     /\ tokens' = (tokens \cup {s}) \ passed
     /\ retirePriorTo' = boundary
     /\ curCIDSeq' = ActiveCID(kept, curCIDSeq, boundary)
     /\ queued' = queued \cup passed /\ heard' = heard \cup {s}
     /\ pendingRetires' = pendingRetires + Cardinality(passed)
     /\ cidError' = (\/ cidError \/ Cardinality(kept) > ActiveCIDLimit
                     \/ pendingRetires + Cardinality(passed) > MaxPendingRetires)
     /\ UNCHANGED <<issued, sentRetires, gone>>

\* A frame the server sent arrives, perhaps again, though not twice in one burst.
OnNewConnectionID(s) ==
  /\ s \in DOMAIN issued /\ ~cidError
  /\ IF s < retirePriorTo THEN s \notin queued /\ BelowBoundary(s)
     ELSE s \notin serverCIDs /\ StoreCID(s, issued[s])

\* flushRetransmits puts the queued retirements on the wire.
FlushRetires ==
  /\ queued # {} /\ ~cidError
  /\ sentRetires' = sentRetires \cup queued
  /\ queued' = {} /\ pendingRetires' = 0
  /\ UNCHANGED <<issued, serverCIDs, tokens, retirePriorTo, curCIDSeq, heard, gone, cidError>>

\* A retirement arrives and is acknowledged, or is found lost and queued again.
RetireAcked(s) ==
  /\ s \in sentRetires /\ ~cidError
  /\ sentRetires' = sentRetires \ {s} /\ gone' = gone \cup {s}
  /\ UNCHANGED <<issued, serverCIDs, tokens, retirePriorTo, curCIDSeq, pendingRetires,
                 queued, heard, cidError>>

RetireLost(s) ==
  /\ s \in sentRetires /\ ~cidError
  /\ sentRetires' = sentRetires \ {s} /\ queued' = queued \cup {s}
  /\ UNCHANGED <<issued, serverCIDs, tokens, retirePriorTo, curCIDSeq, pendingRetires,
                 heard, gone, cidError>>

CidInit ==
  /\ issued = <<>> /\ serverCIDs = {0} /\ tokens = {0} /\ retirePriorTo = 0 /\ curCIDSeq = 0
  /\ pendingRetires = 0 /\ queued = {} /\ sentRetires = {} /\ heard = {0} /\ gone = {} /\ cidError = FALSE

CidNext ==
  \/ Issue \/ FlushRetires
  \/ \E s \in 0..MaxSeq : OnNewConnectionID(s) \/ RetireAcked(s) \/ RetireLost(s)

CidSpec == CidInit /\ [][CidNext]_cidVars

(***************************************************************************)
(* The two ends agree on the ids whatever the order of the frames: the id  *)
(* the client addresses packets to is one it holds and the server did not  *)
(* ask back, a reset token is kept exactly for the ids held, every id      *)
(* asked back that arrived is held no longer and is being retired, and a   *)
(* server that keeps to the limit is never refused.                        *)
(***************************************************************************)
CIDsInStep ==
  /\ ~cidError
  /\ curCIDSeq \in serverCIDs /\ tokens = serverCIDs
  /\ \A s \in serverCIDs : s >= retirePriorTo
  /\ \A s \in heard : s < retirePriorTo => s \in queued \cup sentRetires \cup gone
=============================================================================
