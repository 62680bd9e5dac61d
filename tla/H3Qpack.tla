------------------------------- MODULE H3Qpack -------------------------------
(***************************************************************************)
(* The decoder half of QPACK on one HTTP/3 connection (http3/client.go,    *)
(* http3/control.go): the read loop applies the server's insertions,       *)
(* publishes the insert count, acknowledges them and wakes the requests    *)
(* that wait for one; every request decodes its field section, waiting for *)
(* the insertions it requires; both write acknowledgements to the one      *)
(* decoder stream, which flow control may stop half way.  The server keeps *)
(* to RFC 9204: at most MaxBlocked streams are blocked as far as it has    *)
(* been told.                                                              *)
(***************************************************************************)
EXTENDS Integers, Sequences, FiniteSets, SequencesExt

CONSTANTS
  Reqs,         \* request streams, one field section each
  MaxBlocked,   \* qpackMaxBlocked, the advertised SETTINGS_QPACK_BLOCKED_STREAMS
  MaxDynamic    \* bound: insertions

VARIABLES
  sent,        \* insertions the server has made
  applied,     \* qpackDyn.insertCount, published as insertCount
  rd,          \* the read loop: "read", "ack" or "signal"
  turn,        \* how often qpackReady was closed and replaced
  received,    \* knownReceivedCount
  decBuf,      \* decWriteBuf
  residue,     \* decHasResidue
  decWire,     \* decoder instructions on their way to the server
  need,        \* the Required Insert Count of each section; 0: not sent
  at,          \* where each request is in decodeBlocking
  chan,        \* the qpackReady each request holds
  blocked,     \* qpackBlocked
  krc,         \* the server's Known Received Count
  owed,        \* sections the server holds unacknowledged
  over         \* connCtx is done

dvars == <<sent, applied, rd, turn, received, decBuf, residue, decWire, need, at, chan, blocked,
           krc, owed, over>>

server   == <<sent, krc, owed>>
table    == <<applied, rd, turn>>
decoder  == <<received, decBuf, residue, decWire>>
decoding == <<need, at, chan, blocked>>

At_(r, s) == at' = [at EXCEPT ![r] = s]

\* flushInstrStream: k instructions of the buffer are accepted.
DecFlush(buf, k) ==
  /\ decWire' = decWire \o SubSeq(buf, 1, k)
  /\ decBuf' = SubSeq(buf, k + 1, Len(buf))
  /\ residue' = IF buf = <<>> THEN residue ELSE k < Len(buf)

-----------------------------------------------------------------------------
\* The server inserts, sends sections, and reads the decoder stream.
ServerInserts ==
  /\ sent < MaxDynamic /\ ~over /\ sent' = sent + 1
  /\ UNCHANGED <<table, decoder, decoding, krc, owed, over>>

BlockedThere(n, o, k) == {r \in o : n[r] > k}
ServerSends(r, ric) ==
  /\ need[r] = 0 /\ ric \in 1..sent /\ ~over
  /\ need' = [need EXCEPT ![r] = ric] /\ owed' = owed \cup {r}
  /\ Cardinality(BlockedThere(need', owed', krc)) <= MaxBlocked
  /\ At_(r, "check")
  /\ UNCHANGED <<sent, table, decoder, chan, blocked, krc, over>>

ServerReads ==
  /\ decWire # <<>> /\ decWire' = Tail(decWire)
  /\ LET i == Head(decWire)
     IN \/ i.op = "increment" /\ krc' = krc + i.n /\ owed' = owed
        \/ /\ i.op = "section" /\ owed' = owed \ {i.r}
           /\ krc' = IF need[i.r] > krc THEN need[i.r] ELSE krc
  /\ UNCHANGED <<sent, table, received, decBuf, residue, decoding, over>>

-----------------------------------------------------------------------------
\* readQPACKEncoder: apply and publish, acknowledge, then wake.
ReadEncoder ==
  /\ rd = "read" /\ ~over /\ applied < sent
  /\ applied' \in (applied + 1)..sent /\ rd' = "ack"
  /\ UNCHANGED <<server, turn, decoder, decoding, over>>

\* qpackAckInserts
AckInserts(k) ==
  /\ rd = "ack" /\ rd' = "signal"
  /\ LET buf == IF applied > received
                THEN Append(decBuf, [op |-> "increment", n |-> applied - received]) ELSE decBuf
     IN k <= Len(buf) /\ DecFlush(buf, k)
  /\ received' = IF applied > received THEN applied ELSE received
  /\ UNCHANGED <<server, applied, turn, decoding, over>>

\* signalQPACKReady
Signal ==
  /\ rd = "signal" /\ rd' = "read" /\ turn' = turn + 1
  /\ UNCHANGED <<server, applied, decoder, decoding, over>>

\* serviceControl flushes what an earlier send left behind.
FlushResidue(k) ==
  /\ rd = "read" /\ ~over /\ residue /\ k \in 1..Len(decBuf)
  /\ DecFlush(decBuf, k)
  /\ UNCHANGED <<server, table, received, decoding, over>>

-----------------------------------------------------------------------------
\* decodeBlocking: under the read lock, decode or find the section blocked.
Check(r) ==
  /\ at[r] \in {"check", "recheck"}
  /\ IF need[r] <= applied
     THEN At_(r, IF at[r] = "recheck" THEN "release" ELSE "ack")
     ELSE At_(r, IF at[r] = "recheck" THEN "capture" ELSE "register")
  /\ UNCHANGED <<server, table, decoder, need, chan, blocked, over>>

\* registerBlocked; a refusal closes the connection with QPACK_DECOMPRESSION_FAILED.
RegisterBlocked(r) ==
  /\ at[r] = "register"
  /\ \/ /\ blocked < MaxBlocked /\ blocked' = blocked + 1 /\ At_(r, "capture") /\ over' = over
     \/ /\ blocked >= MaxBlocked /\ At_(r, "refused") /\ over' = TRUE /\ blocked' = blocked
  /\ UNCHANGED <<server, table, decoder, need, chan>>

\* waitQPACKInsert takes the channel first and looks at the count after.
Capture(r) ==
  /\ at[r] = "capture" /\ At_(r, "look") /\ chan' = [chan EXCEPT ![r] = turn]
  /\ UNCHANGED <<server, table, decoder, need, blocked, over>>

Look(r) ==
  /\ at[r] = "look" /\ At_(r, IF applied >= need[r] THEN "recheck" ELSE "parked")
  /\ UNCHANGED <<server, table, decoder, need, chan, blocked, over>>

\* The three ways out of the select: the channel, the request's context, the connection's.
Woken(r) ==
  /\ at[r] = "parked" /\ turn > chan[r] /\ At_(r, "capture")
  /\ UNCHANGED <<server, table, decoder, need, chan, blocked, over>>

DecodeGivesUp(r) ==
  /\ at[r] = "parked" /\ At_(r, "abandon")
  /\ UNCHANGED <<server, table, decoder, need, chan, blocked, over>>

\* unregisterBlocked, deferred: it runs as decodeBlocking returns.
Unregister(r) ==
  /\ at[r] \in {"release", "abandon"} /\ blocked' = blocked - 1
  /\ At_(r, IF at[r] = "release" THEN "ack" ELSE "failed")
  /\ UNCHANGED <<server, table, decoder, need, chan, over>>

\* Faulty variant: an acknowledged section does not count as received.
SectionAckForgets(r, k) ==
  /\ at[r] = "ack" /\ At_(r, "done")
  /\ LET buf == Append(decBuf, [op |-> "section", r |-> r]) IN k <= Len(buf) /\ DecFlush(buf, k)
  /\ UNCHANGED <<server, table, received, need, chan, blocked, over>>

\* ackDynamicSection and qpackSectionAck
SectionAck(r, k) ==
  /\ at[r] = "ack" /\ At_(r, "done")
  /\ LET buf == Append(decBuf, [op |-> "section", r |-> r]) IN k <= Len(buf) /\ DecFlush(buf, k)
  /\ received' = IF need[r] > received THEN need[r] ELSE received
  /\ UNCHANGED <<server, table, need, chan, blocked, over>>

QpInit ==
  /\ sent = 0 /\ applied = 0 /\ rd = "read" /\ turn = 0 /\ received = 0 /\ decBuf = <<>>
  /\ residue = FALSE /\ decWire = <<>> /\ need = [r \in Reqs |-> 0]
  /\ at = [r \in Reqs |-> "idle"] /\ chan = [r \in Reqs |-> 0] /\ blocked = 0 /\ krc = 0
  /\ owed = {} /\ over = FALSE

QpNext ==
  \/ ServerInserts \/ ServerReads \/ ReadEncoder \/ Signal
  \/ \E k \in 0..3 : AckInserts(k) \/ FlushResidue(k)
  \/ \E r \in Reqs : \/ \E ric \in 1..MaxDynamic : ServerSends(r, ric)
                     \/ \E k \in 0..3 : SectionAck(r, k)
                     \/ Check(r) \/ RegisterBlocked(r) \/ Capture(r) \/ Look(r)
                     \/ Woken(r) \/ DecodeGivesUp(r) \/ Unregister(r)

-----------------------------------------------------------------------------
AfterInstr(k, i) ==
  IF i.op = "increment" THEN k + i.n ELSE IF need[i.r] > k THEN need[i.r] ELSE k

(***************************************************************************)
(* The acknowledgements add up: the read loop and the requests take turns  *)
(* on the decoder stream in any order, and flow control may hold back any  *)
(* tail of it, but once the server has read it all, its Known Received     *)
(* Count is the client's, which never runs ahead of the table; what is     *)
(* held back is always due to be flushed (src/http3/client.go:814, 833).   *)
(* And no request sleeps through its insertion: one that is parked while   *)
(* the table already has what it needs holds a channel that is closed, or  *)
(* the read loop has yet to close it; the blocked slots are exactly those  *)
(* of the requests between registering and leaving                         *)
(* (src/http3/client.go:881).                                              *)
(***************************************************************************)
AcksAddUp ==
  /\ FoldLeft(AfterInstr, krc, decWire \o decBuf) = received
  /\ received <= applied
  /\ decBuf # <<>> => residue
  /\ \A r \in Reqs : at[r] = "parked" /\ need[r] <= applied =>
       turn > chan[r] \/ rd \in {"ack", "signal"}
  /\ blocked = Cardinality({r \in Reqs : at[r] \in {"capture", "look", "recheck", "parked",
                                                    "release", "abandon"}})
=============================================================================
