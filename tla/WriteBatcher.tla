---------------------------- MODULE WriteBatcher ----------------------------
(***************************************************************************)
(* The group-commit write batcher of an HTTP/2 connection                  *)
(* (conn/writebatcher.go) with the call sites that drive it: the HEADERS   *)
(* write, the fused HEADERS+DATA write, SendBatch, the control frames that *)
(* flush at once, the DATA loop that flushes the buffer directly, and      *)
(* Conn.Close.                                                             *)
(*                                                                         *)
(* Every call site works under the connection's write mutex wmu and        *)
(* releases it in one place only: commit parks in cond.Wait.  A critical   *)
(* section is therefore one action, the wait splits it in two, and wmu     *)
(* itself needs no variable.  waiters and deferring are read off pc: a     *)
(* writer is counted by enter/leave exactly while it is queued for wmu     *)
(* from a counting call site, and by deferring++/deferring-- exactly from  *)
(* the wait until it runs again.                                           *)
(*                                                                         *)
(* A writer makes one call; a frame is named by its writer and is one unit *)
(* of buffer.                                                              *)
(***************************************************************************)
EXTENDS Naturals, FiniteSets

CONSTANTS Writers,     \* goroutines that write to the connection, one call each
          Calls,       \* the call sites in use, a subset of AllCalls
          FlushBytes   \* the convoy threshold, in frames

AllCalls == {"headers", "fused", "batch", "control", "data"}

ASSUME BatcherAssumption ==
  /\ IsFiniteSet(Writers)
  /\ Calls \subseteq AllCalls
  /\ FlushBytes \in Nat

VARIABLES
  call,     \* the call a writer is making
  pc,       \* idle -> queued -> (parked -> woken ->) ok | failed
  target,   \* the flush count a deferring writer waits for
  seq,      \* writeBatcher.seq: completed flushes
  err,      \* writeBatcher.err: nil or set
  buf,      \* frames in the bufio.Writer
  wire,     \* frames handed to the transport
  bufErr,   \* bufio.Writer's own sticky error: nil or set
  link,     \* the transport: up, or down when every write fails
  closing   \* Conn.Close: open -> closed -> sent -> woken -> down

vars == <<call, pc, target, seq, err, buf, wire, bufErr, link, closing>>

closed == closing # "open"

(***************************************************************************)
(* The counters.                                                           *)
(***************************************************************************)

\* Call sites that bracket wmu.Lock with enter and leave.
Counted == {"headers", "fused", "batch"}

\* Mutant of Waiters: every writer queued for wmu is counted, also the DATA
\* writers, which flush without waking anybody.
WaitersAny == {w \in Writers : pc[w] = "queued"}

\* writeBatcher.waiters, as the set of the writers counted.
Waiters == {w \in Writers : pc[w] = "queued" /\ call[w] \in Counted}

(***************************************************************************)
(* The buffered writer (bufio.Writer over the transport).  b stands for    *)
(* the contents of the buffer at the point of the call.                    *)
(***************************************************************************)

\* What the buffer may hold once w's frame is appended: when the frame does
\* not fit, bufio first writes out what it holds.
Appended(w) == IF link = "down" THEN {buf \cup {w}} ELSE {buf \cup {w}, {w}}

\* A write that reaches the transport fails.
Broken == bufErr = "set" \/ link = "down"

\* Appending fails on the sticky error, or when bufio must write to a dead
\* transport to make room.
AppendFails == Broken /\ bufErr' = "set" /\ UNCHANGED <<buf, wire>>

\* Flush writes out what the buffer holds; an empty buffer is never written.
FlushFails(b) == bufErr = "set" \/ (b # {} /\ link = "down")

\* The effect of a Flush on the buffer and the transport.
Flush(b, fails) ==
  IF fails
  THEN buf' = b  /\ bufErr' = "set" /\ wire' = wire \cup (buf \ b)
  ELSE buf' = {} /\ bufErr' = "nil" /\ wire' = wire \cup buf \cup b

(***************************************************************************)
(* commit, flushNowLocked and the wake-ups.                                *)
(***************************************************************************)

\* cond.Broadcast, on the writers' states p: everyone parked may run again.
Broadcast(p) == [w \in Writers |-> IF p[w] = "parked" THEN "woken" ELSE p[w]]

\* wakeDeferredLocked.
WakeDeferred(p) == Broadcast(p)

\* The writers' states once w's call has returned.
Returned(w, failed) == [pc EXCEPT ![w] = IF failed THEN "failed" ELSE "ok"]

\* err after a flush.
Sticky(failed) == IF err = "set" \/ failed THEN "set" ELSE "nil"

\* The bookkeeping of flushNowLocked: flush, advance seq, record the error.
FlushAll(b, fails) ==
  /\ Flush(b, fails)
  /\ seq' = seq + 1
  /\ err' = Sticky(fails)
  /\ UNCHANGED <<call, target>>

\* flushNowLocked called by w, which returns the recorded error; the
\* deferring writers are woken.
FlushNow(w, b) == FlushAll(b, FlushFails(b)) /\ pc' = Broadcast(Returned(w, err' = "set"))

\* Mutant of Target: one flush too early.
TargetEarly == seq

\* The flush count commit waits for.
Target == seq + 1

\* commit with group-commit enabled: defer to a queued writer while the
\* convoy is small, otherwise flush.
Commit(w, b) ==
  IF Waiters \ {w} # {} /\ Cardinality(b) < FlushBytes
  THEN /\ pc' = [pc EXCEPT ![w] = "parked"]
       /\ target' = [target EXCEPT ![w] = Target]
       /\ buf' = b /\ wire' = wire \cup (buf \ b)
       /\ UNCHANGED <<call, seq, err, bufErr>>
  ELSE FlushNow(w, b)

\* A return that touches neither the buffer nor the batcher.
Bail(w) ==
  /\ pc' = Returned(w, TRUE)
  /\ UNCHANGED <<call, target, seq, err, buf, wire, bufErr>>

\* commit after cond.Wait: the convoy was flushed, or flush it here.
Resume(w) ==
  /\ pc[w] = "woken"
  /\ IF seq >= target[w]
     THEN /\ pc' = Returned(w, err = "set")
          /\ UNCHANGED <<call, target, seq, err, buf, wire, bufErr>>
     ELSE FlushNow(w, buf)
  /\ UNCHANGED <<link, closing>>

(***************************************************************************)
(* The call sites.                                                         *)
(***************************************************************************)

\* The closed check at the door, then the queue for wmu.
Start(w, c) ==
  /\ pc[w] = "idle" /\ call[w] \in {"none", c}
  /\ call' = [call EXCEPT ![w] = c]
  /\ pc' = [pc EXCEPT ![w] = IF closed THEN "failed" ELSE "queued"]
  /\ UNCHANGED <<target, seq, err, buf, wire, bufErr, link, closing>>

Locked(w, c) == pc[w] = "queued" /\ call[w] = c /\ UNCHANGED <<link, closing>>

\* writeHeadersWithPriority: append the HEADERS, commit; on a write error
\* wake the deferring writers.
WriteHeaders(w) ==
  /\ Locked(w, "headers")
  /\ \/ \E b \in Appended(w) : bufErr = "nil" /\ Commit(w, b)
     \/ /\ AppendFails
        /\ pc' = WakeDeferred(Returned(w, TRUE))
        /\ UNCHANGED <<call, target, seq, err>>

\* writeHeadersAndDataVec when tryAcquireSendCreditsAll refuses: the
\* connection or the stream is closed.  The call returns.
FusedRefused(w) == Locked(w, "fused") /\ Bail(w)

\* writeHeadersAndDataVec without credit for the whole body: the call goes on
\* as an ordinary HEADERS write (slowHeadersThenDataVec).
FusedSlow(w) ==
  /\ Locked(w, "fused") /\ ~closed
  /\ call' = [call EXCEPT ![w] = "headers"]
  /\ pc' = [pc EXCEPT ![w] = "idle"]
  /\ UNCHANGED <<target, seq, err, buf, wire, bufErr>>

\* writeHeadersAndDataVec with credit: HEADERS and DATA appended and
\* committed; a failed HEADERS write wakes the deferring writers, a failed
\* DATA write does not.  (Its stale check cannot fire: a stream is recycled
\* only after its own upload ended.)
WriteFused(w) ==
  /\ Locked(w, "fused") /\ ~closed
  /\ \/ \E b \in Appended(w) : bufErr = "nil" /\ Commit(w, b)
     \/ /\ AppendFails
        /\ pc' \in {Returned(w, TRUE), WakeDeferred(Returned(w, TRUE))}
        /\ UNCHANGED <<call, target, seq, err>>

\* SendBatch: the second closed check returns at once.  Otherwise flushNow
\* runs whatever became of the entry: written, refused (stale, closed, no
\* credit), or failed on the write.
SendBatch(w) ==
  /\ Locked(w, "batch")
  /\ IF closed THEN Bail(w)
     ELSE \/ \E b \in Appended(w) : bufErr = "nil" /\ FlushNow(w, b)
          \/ /\ FlushAll(buf, FlushFails(buf)) \/ (Broken /\ FlushAll(buf, TRUE))
             /\ pc' = Broadcast(Returned(w, TRUE))

\* RST_STREAM, WINDOW_UPDATE, PING and the SETTINGS and PING acknowledgements:
\* append and flushNow; a failed append returns.
WriteControl(w) ==
  /\ Locked(w, "control")
  /\ \/ \E b \in Appended(w) : bufErr = "nil" /\ FlushNow(w, b)
     \/ /\ AppendFails
        /\ pc' = Returned(w, TRUE)
        /\ UNCHANGED <<call, target, seq, err>>

\* writeDataVec, once it has credit: it returns when the connection was closed
\* or the stream handle is stale, and otherwise appends one DATA frame and
\* flushes the buffer directly.
WriteData(w) ==
  /\ Locked(w, "data")
  /\ \/ Bail(w)
     \/ /\ ~closed
        /\ \/ \E b \in Appended(w) :
                bufErr = "nil" /\ Flush(b, FlushFails(b)) /\ pc' = Returned(w, FlushFails(b))
           \/ AppendFails /\ pc' = Returned(w, TRUE)
        /\ UNCHANGED <<call, target, seq, err>>

(***************************************************************************)
(* The connection around it.                                               *)
(***************************************************************************)

\* The transport breaks.
TransportFails ==
  /\ link = "up" /\ link' = "down"
  /\ UNCHANGED <<call, pc, target, seq, err, buf, wire, bufErr, closing>>

\* Conn.Close, its first statement: later calls are refused at the door.
CloseMark ==
  /\ closing = "open" /\ closing' = "closed"
  /\ UNCHANGED <<call, pc, target, seq, err, buf, wire, bufErr, link>>

\* Close: writeGoAwayBestEffort flushes the buffer directly.
CloseGoAway ==
  /\ closing = "closed" /\ closing' = "sent"
  /\ Flush(buf, FlushFails(buf))
  /\ UNCHANGED <<call, pc, target, seq, err, link>>

\* Close: wakeAllLocked.
CloseWake ==
  /\ closing = "sent" /\ closing' = "woken"
  /\ pc' = Broadcast(pc)
  /\ UNCHANGED <<call, target, seq, err, buf, wire, bufErr, link>>

\* Close: the transport is closed.
CloseTransport ==
  /\ closing = "woken" /\ closing' = "down"
  /\ link' = "down"
  /\ UNCHANGED <<call, pc, target, seq, err, buf, wire, bufErr>>

(***************************************************************************)
(* The specification.                                                      *)
(***************************************************************************)

Init ==
  /\ call = [w \in Writers |-> "none"]
  /\ pc = [w \in Writers |-> "idle"]
  /\ target = [w \in Writers |-> 0]
  /\ seq = 0 /\ err = "nil"
  /\ buf = {} /\ wire = {} /\ bufErr = "nil"
  /\ link = "up" /\ closing = "open"

\* What a writer does once it holds wmu.
Run(w) ==
  \/ WriteHeaders(w) \/ FusedRefused(w) \/ FusedSlow(w) \/ WriteFused(w)
  \/ SendBatch(w) \/ WriteControl(w) \/ WriteData(w) \/ Resume(w)

Close == CloseMark \/ CloseGoAway \/ CloseWake \/ CloseTransport

Next ==
  \/ \E w \in Writers : Run(w) \/ \E c \in Calls \cup {"headers"} : Start(w, c)
  \/ Close
  \/ TransportFails

Spec == Init /\ [][Next]_vars

\* A writer that can take wmu gets it (sync.Mutex does not starve), one that
\* took the slow path goes on, and a Close that began runs to its end.
Fairness ==
  /\ \A w \in Writers : WF_vars(Run(w)) /\ WF_vars(call[w] = "headers" /\ Start(w, "headers"))
  /\ WF_vars(closed /\ Close)

FairSpec == Spec /\ Fairness

(***************************************************************************)
(* Properties.                                                             *)
(***************************************************************************)

States == {"idle", "queued", "parked", "woken", "ok", "failed"}

\* The types, and: a deferring writer never waits for more than the next
\* flush (commit's target := seq+1).
TypeOK ==
  /\ call \in [Writers -> AllCalls \cup {"none"}]
  /\ pc \in [Writers -> States]
  /\ target \in [Writers -> Nat] /\ \A w \in Writers : target[w] <= seq + 1
  /\ seq \in Nat /\ err \in {"nil", "set"}
  /\ buf \subseteq Writers /\ wire \subseteq Writers
  /\ bufErr \in {"nil", "set"} /\ link \in {"up", "down"}
  /\ closing \in {"open", "closed", "sent", "woken", "down"}

\* A send that reported success has handed its frame to the transport, also
\* when commit left the flush to another writer: deferring costs no error
\* ("per-frame write-error semantics are preserved", writebatcher.go).
SuccessIsOnWire == \A w \in Writers : pc[w] = "ok" => w \in wire

\* A call site that is counted returned without a flush and without a wake-up.
Deserted == \E w \in Writers : call[w] \in {"fused", "batch"} /\ pc[w] = "failed"

\* A writer is parked in commit only while somebody is bound to flush or to
\* wake it: a counted writer that is queued, one on the slow path of the fused
\* write, or Close; except when a fused write or a SendBatch was refused.
ParkedHasSuccessor ==
  (\E w \in Writers : pc[w] = "parked") =>
    \/ closing \in {"closed", "sent"}
    \/ Waiters # {}
    \/ closing = "open" /\ \E w \in Writers : call[w] = "headers" /\ pc[w] = "idle"
    \/ Deserted

\* Every send returns, unless a fused write or a SendBatch was refused: nobody
\* waits in commit for ever, also across a transport failure and Close.
SendsReturnOrDeserted ==
  \A w \in Writers : pc[w] = "queued" ~> (pc[w] \in {"ok", "failed"} \/ Deserted)

\* Every send returns: nobody is left waiting in commit (Conn.Close's comment
\* on wakeAllLocked: "so nobody is ever stranded").
SendsReturn == \A w \in Writers : pc[w] = "queued" ~> pc[w] \in {"ok", "failed"}
=============================================================================
