----------------------------- MODULE H2Headers -----------------------------
(***************************************************************************)
(* The header path of an HTTP/2 connection, as the reader runs it: the     *)
(* framer's rule on field blocks, connHandler's reassembly of HEADERS,     *)
(* PUSH_PROMISE and CONTINUATION, the decoding into the connection's one   *)
(* HPACK table, and what becomes of the block on its stream: delivered,    *)
(* refused with the stream, or drained because the stream has gone.        *)
(*                                                                         *)
(* The server encodes with an HPACK encoder like this package's and may    *)
(* get its messages wrong in every way that costs a stream; the ways that  *)
(* cost the connection set "rogue".  Requests have no body here: a stream  *)
(* leaves the registry as soon as its response ends.                       *)
(***************************************************************************)
EXTENDS Hpack

CONSTANTS NStreams,   \* requests this client opens, on streams 1, 3, ...
          Blocks,     \* field sequences a server puts in a block
          MaxBlocks,  \* bound: blocks the server sends
          MaxInterim, \* maxInterimResponses
          MaxPushed,  \* SETTINGS_MAX_CONCURRENT_STREAMS for pushed streams
          Resizes     \* bound: SETTINGS_HEADER_TABLE_SIZE changes

VARIABLES
  enc,      \* the server's encoder
  table,    \* the client's decoder: its dynamic table
  out,      \* the block the server is sending
  pend,     \* pendingStreamID, pendingBuf, pendingEndStream, pendingIsPush, ...
  nextStream, lastPromised, pushInflight,
  resp,     \* what the client knows of the response on each stream
  intact,   \* the last block decoded was read as it was sent
  answered, \* streams the server has ended its answer on
  connErr, rogue, blocks, resizes

headerVars == <<enc, table, out, pend, nextStream, lastPromised, pushInflight, resp,
                intact, connErr, answered, rogue, blocks, resizes>>

Requested == {2 * i - 1 : i \in 1..NStreams}
Promisable == {2}
StreamIDs == Requested \cup Promisable

NoBlock == [id |-> 0]
NoPend == [id |-> 0, buf |-> <<>>, end |-> FALSE, promised |-> 0]
NewResp(st) == [st |-> st, headers |-> FALSE, interim |-> 0]

HeadersInit ==
  /\ enc = NewEncoder(MaxLocal)
  /\ table = NewDecoder
  /\ out = NoBlock
  /\ pend = NoPend
  /\ nextStream = 1 /\ lastPromised = 0 /\ pushInflight = 0
  /\ resp = [i \in StreamIDs |-> NewResp("idle")]
  /\ intact = TRUE
  /\ connErr = FALSE /\ answered = {} /\ rogue = FALSE
  /\ blocks = 0 /\ resizes = 0

(* isIdleStream *)
IsIdle(id) == IF id % 2 = 1 THEN id >= nextStream ELSE id > lastPromised

-----------------------------------------------------------------------------
(* The client opens its next stream, or closes one early: Close takes it   *)
(* out of the registry and resets it.                                      *)
OpenRequest ==
  /\ ~connErr /\ nextStream \in Requested
  /\ resp' = [resp EXCEPT ![nextStream].st = "open"]
  /\ nextStream' = nextStream + 2
  /\ UNCHANGED <<enc, table, out, pend, lastPromised, pushInflight, intact, connErr, answered, rogue,
                 blocks, resizes>>

Departed == NewResp("gone")
FreePush(id) == IF id \in Promisable THEN pushInflight - 1 ELSE pushInflight

CloseRequest(id) ==
  /\ resp[id].st = "open"
  /\ resp' = [resp EXCEPT ![id] = Departed]
  /\ pushInflight' = FreePush(id)
  /\ UNCHANGED <<enc, table, out, pend, nextStream, lastPromised, intact, connErr, answered, rogue,
                 blocks, resizes>>

(* The client's SETTINGS reach the server: applyPeerSettings on its side. *)
ResizeTable(n) ==
  /\ resizes < Resizes
  /\ enc' = SetEncoderMax(enc, n)
  /\ resizes' = resizes + 1
  /\ UNCHANGED <<table, out, pend, nextStream, lastPromised, pushInflight, resp, intact, connErr,
                 answered, rogue, blocks>>

-----------------------------------------------------------------------------
(* emitHeaderBlock after the decoding: validateResponseFields, then       *)
(* classifyHeaderBlock. A head is "interim" or "final" (it has a :status), *)
(* "trailers" (it has none) or "invalid"; "bad" is the StreamError that    *)
(* resetStreamOnError answers. The end of a response takes it out of the   *)
(* registry.                                                               *)
Heads == {"interim", "final", "trailers", "invalid"}
ValidResponse(r, head) == head # "invalid" /\ (r.headers <=> head = "trailers")

Classified(r, head, end) ==
  IF r.headers THEN [r EXCEPT !.st = IF end THEN @ ELSE "bad"]
  ELSE IF head = "interim"
       THEN [r EXCEPT !.interim = @ + 1,
                      !.st = IF end \/ r.interim = MaxInterim THEN "bad" ELSE @]
  ELSE [r EXCEPT !.headers = TRUE]

EmitHeaderBlock(r, head, end) ==
  LET c == Classified(r, head, end)
  IN IF ~ValidResponse(r, head) THEN [r EXCEPT !.st = "bad"]
     ELSE IF c.st = "open" /\ end THEN Departed ELSE c

(* A stream error takes the stream out of the registry. *)
Settle(id, r) ==
  /\ resp' = [resp EXCEPT ![id] = IF r.st = "bad" THEN Departed ELSE r]
  /\ pushInflight' = IF r.st = "open" THEN pushInflight ELSE FreePush(id)

(* Every complete block goes through the decoder, whatever its stream: the *)
(* fields of a live one are read from the visited slices afterwards, those *)
(* of a stream that has gone are dropped (drainHeaderBlock).               *)
Decoded(d) ==
  /\ table' = [d.t EXCEPT !.arena = SubSeq(@, 1, d.t.alen), !.epoch = 0]
  /\ connErr' = ~d.ok

DecodeFields(ops, fields) ==
  LET d == DecodeBlock(table, ops)
  IN /\ Decoded(d)
     /\ intact' = \A i \in DOMAIN d.out : Same(Read(d.t, d.out[i]), fields[i])

DrainNothing(ops) == UNCHANGED <<table, connErr, intact>>
DrainHeaderBlock(ops) == Decoded(DecodeBlock(table, ops)) /\ UNCHANGED intact

ConnError == connErr' = TRUE /\ UNCHANGED <<table, intact, resp, pushInflight, lastPromised>>

(* OnHeaders or OnContinuation with END_HEADERS: the stream is looked up   *)
(* now, and a block for a stream that has gone is drained.                 *)
HeaderBlock(id, ops, fields, end) ==
  \/ /\ resp[id].st = "open"
     /\ DecodeFields(ops, fields)
     /\ \E head \in Heads : Settle(id, EmitHeaderBlock(resp[id], head, end))
     /\ UNCHANGED lastPromised
  \/ /\ resp[id].st # "open" /\ IsIdle(id)
     /\ ConnError
  \/ /\ resp[id].st # "open" /\ ~IsIdle(id)
     /\ DrainHeaderBlock(ops)
     /\ UNCHANGED <<resp, pushInflight, lastPromised>>

(* handlePushPromiseBlock: the block is decoded and the id is spent before *)
(* anything may refuse the promise.                                        *)
PushPromiseBlock(id, promised, ops, fields) ==
  /\ DecodeFields(ops, fields)
  /\ lastPromised' = promised
  /\ \E valid \in BOOLEAN :
       LET taken == valid /\ resp[id].st = "open" /\ pushInflight < MaxPushed
       IN /\ resp' = [resp EXCEPT ![promised] = IF taken THEN NewResp("open") ELSE Departed]
          /\ pushInflight' = IF taken THEN pushInflight + 1 ELSE pushInflight

Block(id, promised, ops, fields, end) ==
  IF promised # 0 THEN PushPromiseBlock(id, promised, ops, fields)
  ELSE HeaderBlock(id, ops, fields, end)

(* The server encodes a block and writeHeaderBlock leaves it whole or cuts *)
(* it before the last instruction: the first frame reaches OnHeaders or    *)
(* OnPushPromise, which handles a whole block and buffers a cut one.       *)
FirstFrame(id, promised, fields, end) ==
  LET e == EncodeBlock(enc, fields)
      n == Len(e.ops)
  IN /\ ~connErr /\ out = NoBlock /\ blocks < MaxBlocks
     /\ enc' = e.enc
     /\ blocks' = blocks + 1
     /\ \/ /\ Block(id, promised, e.ops, fields, end)
           /\ UNCHANGED <<out, pend>>
        \/ /\ pend' = [id |-> id, buf |-> SubSeq(e.ops, 1, n - 1), end |-> end,
                       promised |-> promised]
           /\ out' = [id |-> id, rest |-> SubSeq(e.ops, n, n), fields |-> fields]
           /\ UNCHANGED <<table, intact, connErr, resp, pushInflight, lastPromised>>
     /\ UNCHANGED <<nextStream, resizes>>

(* HEADERS on a stream the server has not ended; on an idle stream the     *)
(* server breaks the connection's rules.                                   *)
OnHeadersFrame(id, fields, end) ==
  /\ id \notin answered
  /\ id \in Requested \cup {lastPromised}
  /\ FirstFrame(id, 0, fields, end)
  /\ answered' = IF end THEN answered \cup {id} ELSE answered
  /\ rogue' = (rogue \/ IsIdle(id))

(* PUSH_PROMISE on a stream the server still answers. *)
OnPushPromise(id, promised, fields) ==
  /\ ~IsIdle(id) /\ id \notin answered /\ promised > lastPromised
  /\ FirstFrame(id, promised, fields, FALSE)
  /\ UNCHANGED <<answered, rogue>>

(* The CONTINUATION that ends the block. *)
OnContinuation ==
  /\ ~connErr /\ out # NoBlock /\ pend.id = out.id
  /\ Block(pend.id, pend.promised, pend.buf \o out.rest, out.fields, pend.end)
  /\ out' = NoBlock
  /\ pend' = NoPend
  /\ UNCHANGED <<enc, nextStream, answered, rogue, blocks, resizes>>

(* Any other frame between the frames of a field block: refused by         *)
(* checkFieldBlockContinuity, and the connection with it.                  *)
StrayFrame ==
  /\ ~connErr /\ out # NoBlock
  /\ rogue' = TRUE
  /\ ConnError
  /\ UNCHANGED <<enc, out, pend, nextStream, answered, blocks, resizes>>

HeadersNext ==
  \/ OpenRequest
  \/ \E id \in StreamIDs : CloseRequest(id)
  \/ \E n \in 0..MaxLocal : ResizeTable(n)
  \/ \E id \in StreamIDs, f \in Blocks, end \in BOOLEAN : OnHeadersFrame(id, f, end)
  \/ \E id \in Requested, p \in Promisable, f \in Blocks : OnPushPromise(id, p, f)
  \/ OnContinuation
  \/ StrayFrame

HeadersSpec == HeadersInit /\ [][HeadersNext]_headerVars

-----------------------------------------------------------------------------
(* What is on its way to the decoder. *)
Unread == IF out = NoBlock THEN <<>> ELSE pend.buf \o out.rest

(* The HPACK state of the connection survives whatever happens to its      *)
(* streams.  Once the instructions under way are decoded, the encoder's    *)
(* entries are the newest of the decoder's, so that every index means the  *)
(* same field on both sides (streams closed, refused or promised in vain   *)
(* included; resizes at any moment).  The encoder's hash index finds what  *)
(* a search of its table finds, hash collisions included.  And only a      *)
(* breach of the connection's own rules ends the connection: a malformed   *)
(* response costs its stream.                                              *)
HeaderStateAgrees ==
  LET d == DecodeBlock(table, Unread)
      t == enc.t
  IN /\ ~connErr => /\ d.ok
                    /\ Count(t) <= Count(d.t)
                    /\ \A i \in 1..Count(t) : At(t, i) = At(d.t, i)
     /\ \A b \in Blocks : \A k \in DOMAIN b :
          IndexLookup(t, b[k]) = LookupAfterCollision(t, b[k])
     /\ connErr => rogue

(* Each decoded field the client delivers is the one the server sent.      *)
(* FieldVisitor (hpack/hpack.go) says a visited field is valid only for    *)
(* the duration of the call; emitHeaderBlock keeps the slices until the    *)
(* whole block is decoded.                                                 *)
FieldsArriveAsSent == intact
=============================================================================
