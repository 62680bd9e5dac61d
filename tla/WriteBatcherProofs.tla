------------------------- MODULE WriteBatcherProofs -------------------------
(***************************************************************************)
(* Proofs about WriteBatcher for any number of writers, any mix of calls   *)
(* and any convoy threshold.                                               *)
(***************************************************************************)
EXTENDS WriteBatcher, TLAPS

\* What commit relies on while a writer w is in cond.Wait: its frame is in
\* the buffer or out, and out once the flush it waits for has gone well.
Carried(w) ==
  pc[w] \in {"parked", "woken"} =>
    /\ w \in buf \cup wire
    /\ seq >= target[w] /\ err = "nil" => w \in wire

Convoy == \A w \in Writers : Carried(w)

IInv == TypeOK /\ SuccessIsOnWire /\ Convoy

LEMMA InitIInv == Init => IInv
BY DEF Init, IInv, TypeOK, SuccessIsOnWire, Convoy, Carried, AllCalls, States

\* The frames after a Flush of b.
LEMMA FlushOut ==
  ASSUME NEW b \in SUBSET Writers, NEW fails, TypeOK, Flush(b, fails)
  PROVE  /\ buf' \in SUBSET Writers /\ wire' \in SUBSET Writers /\ bufErr' \in {"nil", "set"}
         /\ wire \subseteq wire' /\ buf \cup b \cup wire \subseteq buf' \cup wire'
         /\ ~fails => b \cup buf \subseteq wire'
BY Zenon DEF Flush, TypeOK

\* What a step does to the frames and to the writers other than w.
Progress(w) ==
  /\ buf' \in SUBSET Writers /\ wire' \in SUBSET Writers
  /\ wire \subseteq wire' /\ buf \cup wire \subseteq buf' \cup wire'
  /\ \/ seq' = seq /\ err' = err
     \/ seq' = seq + 1 /\ err' \in {"nil", "set"}
        /\ (err' = "nil" => buf \subseteq wire')
  /\ bufErr' \in {"nil", "set"}
  /\ pc' \in [Writers -> States]
  /\ \A j \in Writers \ {w} :
       pc'[j] = pc[j] \/ (pc[j] = "parked" /\ pc'[j] = "woken")
  /\ target' \in [Writers -> Nat]
  /\ \A j \in Writers \ {w} : target'[j] = target[j]
  /\ call' \in [Writers -> AllCalls \cup {"none"}]

\* What the step must show for w itself.
Own(w) ==
  /\ target'[w] <= seq' + 1
  /\ pc'[w] = "ok" => w \in wire'
  /\ Carried(w)'

LEMMA StepKeeps ==
  ASSUME IInv, NEW w \in Writers, Progress(w), Own(w), UNCHANGED <<link, closing>>
  PROVE  IInv'
<1>1. TypeOK'
  <2>1. seq' \in Nat /\ seq' >= seq /\ err' \in {"nil", "set"}
    BY DEF IInv, TypeOK, Progress
  <2>2. \A j \in Writers : target'[j] <= seq' + 1
    BY <2>1 DEF IInv, TypeOK, Progress, Own
  <2> QED  BY Zenon, <2>1, <2>2 DEF IInv, TypeOK, Progress
<1>2. SuccessIsOnWire'
  BY Zenon DEF IInv, SuccessIsOnWire, Progress, Own
<1>3. ASSUME NEW j \in Writers \ {w} PROVE Carried(j)'
  <2>1. seq \in Nat /\ target[j] \in Nat /\ target[j] <= seq + 1
    BY Zenon DEF IInv, TypeOK
  <2>2. SUFFICES ASSUME pc'[j] \in {"parked", "woken"}
                 PROVE  /\ j \in buf' \cup wire'
                        /\ seq' >= target'[j] /\ err' = "nil" => j \in wire'
    BY Zenon DEF Carried
  <2>3. /\ j \in buf \cup wire
        /\ seq >= target[j] /\ err = "nil" => j \in wire
    BY Zenon, <2>2 DEF Progress, IInv, Convoy, Carried
  <2> QED  BY Zenon, <2>1, <2>3 DEF Progress
<1> QED  BY Zenon, <1>1, <1>2, <1>3 DEF IInv, Convoy, Own

\* Waking the parked writers after w returned.
LEMMA WokenStates ==
  ASSUME TypeOK, NEW w \in Writers, NEW failed,
         pc' = Broadcast(Returned(w, failed)) \/ pc' = Returned(w, failed)
  PROVE  /\ pc' \in [Writers -> States]
         /\ pc'[w] = IF failed THEN "failed" ELSE "ok"
         /\ \A j \in Writers \ {w} :
              pc'[j] = pc[j] \/ (pc[j] = "parked" /\ pc'[j] = "woken")
BY Zenon DEF TypeOK, Broadcast, Returned, States

LEMMA FlushAllKeeps ==
  ASSUME TypeOK, NEW w \in Writers, NEW b \in SUBSET Writers, NEW fails,
         FlushAll(b, fails), b = buf \/ w \in b,
         pc' \in [Writers -> States],
         \A j \in Writers \ {w} :
           pc'[j] = pc[j] \/ (pc[j] = "parked" /\ pc'[j] = "woken")
  PROVE  /\ Progress(w)
         /\ target'[w] <= seq' + 1
         /\ err' = "nil" => b \cup buf \subseteq wire'
<1>1. /\ buf' \in SUBSET Writers /\ wire' \in SUBSET Writers /\ bufErr' \in {"nil", "set"}
      /\ wire \subseteq wire' /\ buf \cup b \cup wire \subseteq buf' \cup wire'
      /\ ~fails => b \cup buf \subseteq wire'
  BY FlushOut DEF FlushAll
<1>2. seq' = seq + 1 /\ target' = target /\ call' = call
  BY Zenon DEF FlushAll
<1>3. err' \in {"nil", "set"} /\ (err' = "nil" => ~fails)
  BY Zenon DEF FlushAll, Sticky
<1> QED  BY <1>1, <1>2, <1>3 DEF Progress, TypeOK

LEMMA AppendedFrames ==
  ASSUME TypeOK, NEW w \in Writers, NEW b \in Appended(w)
  PROVE  b \in SUBSET Writers /\ w \in b /\ b \subseteq buf \cup {w}
BY Zenon DEF Appended, TypeOK

\* flushNowLocked by w, on a buffer that holds w's frame.
LEMMA FlushNowKeeps ==
  ASSUME TypeOK, NEW w \in Writers, NEW b \in SUBSET Writers, w \in b \cup wire,
         b = buf \/ w \in b, FlushNow(w, b)
  PROVE  Progress(w) /\ Own(w)
<1>1. FlushAll(b, FlushFails(b)) /\ pc' = Broadcast(Returned(w, err' = "set"))
  BY Zenon DEF FlushNow
<1>2. /\ pc' \in [Writers -> States]
      /\ pc'[w] = IF err' = "set" THEN "failed" ELSE "ok"
      /\ \A j \in Writers \ {w} :
           pc'[j] = pc[j] \/ (pc[j] = "parked" /\ pc'[j] = "woken")
  BY Zenon, <1>1, WokenStates
<1>3. /\ Progress(w) /\ target'[w] <= seq' + 1
      /\ err' = "nil" => b \cup buf \subseteq wire'
  BY Zenon, <1>1, <1>2, FlushAllKeeps
<1>4. err' \in {"nil", "set"} /\ wire \subseteq wire'
  BY Zenon, <1>3 DEF Progress, TypeOK
<1> QED  BY Zenon, <1>2, <1>3, <1>4 DEF Own, Carried

LEMMA CommitKeeps ==
  ASSUME IInv, NEW w \in Writers, NEW b \in Appended(w), Commit(w, b)
  PROVE  Progress(w) /\ Own(w)
<1>1. b \in SUBSET Writers /\ w \in b /\ b \subseteq buf \cup {w}
  BY Zenon, AppendedFrames DEF IInv
<1>2. CASE /\ pc' = [pc EXCEPT ![w] = "parked"]
           /\ target' = [target EXCEPT ![w] = Target]
           /\ buf' = b /\ wire' = wire \cup (buf \ b)
           /\ UNCHANGED <<call, seq, err, bufErr>>
  <2>1. Progress(w)
    BY <1>1, <1>2 DEF Progress, IInv, TypeOK, States, Target
  <2>2. target'[w] = seq + 1 /\ seq' = seq /\ seq \in Nat /\ pc'[w] = "parked"
    BY Zenon, <1>2 DEF Target, IInv, TypeOK
  <2> QED  BY <1>1, <1>2, <2>1, <2>2 DEF Own, Carried
<1>3. CASE FlushNow(w, b)
  BY Zenon, <1>1, <1>3, FlushNowKeeps DEF IInv
<1> QED  BY Zenon, <1>2, <1>3 DEF Commit

\* A call that returns an error and leaves the batcher alone.
LEMMA FailureKeeps ==
  ASSUME IInv, NEW w \in Writers,
         \/ pc' = Returned(w, TRUE)
         \/ pc' = Broadcast(Returned(w, TRUE)),
         bufErr' \in {"nil", "set"},
         buf' \in SUBSET Writers, wire' \in SUBSET Writers,
         wire \subseteq wire', buf \cup wire \subseteq buf' \cup wire',
         UNCHANGED <<call, target, seq, err>>
  PROVE  Progress(w) /\ Own(w)
<1>1. /\ pc' \in [Writers -> States]
      /\ pc'[w] = "failed"
      /\ \A j \in Writers \ {w} :
           pc'[j] = pc[j] \/ (pc[j] = "parked" /\ pc'[j] = "woken")
  BY Zenon DEF IInv, TypeOK, Broadcast, Returned, States
<1>2. Progress(w)
  BY Zenon, <1>1 DEF Progress, IInv, TypeOK
<1> QED  BY Zenon, <1>1, <1>2 DEF Own, Carried, IInv, TypeOK

LEMMA ResumeKeeps ==
  ASSUME IInv, NEW w \in Writers, Resume(w)
  PROVE  IInv'
<1>1. /\ w \in buf \cup wire
      /\ seq >= target[w] /\ err = "nil" => w \in wire
  BY Zenon DEF IInv, Convoy, Carried, Resume
<1>2. CASE seq >= target[w]
  <2>1. pc' = Returned(w, err = "set") /\ UNCHANGED <<call, target, seq, err, buf, wire, bufErr>>
    BY Zenon, <1>2 DEF Resume
  <2>2. /\ pc' \in [Writers -> States]
        /\ pc'[w] = IF err = "set" THEN "failed" ELSE "ok"
        /\ \A j \in Writers \ {w} : pc'[j] = pc[j]
    BY Zenon, <2>1 DEF IInv, TypeOK, Returned, States
  <2>3. Progress(w)
    BY Zenon, <2>1, <2>2 DEF Progress, IInv, TypeOK
  <2>4. Own(w)
    BY Zenon, <1>1, <1>2, <2>1, <2>2 DEF Own, Carried, IInv, TypeOK
  <2> QED  BY Zenon, <2>3, <2>4, StepKeeps DEF Resume
<1>3. CASE ~(seq >= target[w])
  <2>1. FlushNow(w, buf)
    BY Zenon, <1>3 DEF Resume
  <2>2. Progress(w) /\ Own(w)
    BY Zenon, <1>1, <2>1, FlushNowKeeps DEF IInv, TypeOK
  <2> QED  BY Zenon, <2>2, StepKeeps DEF Resume
<1> QED  BY Zenon, <1>2, <1>3

LEMMA StartKeeps ==
  ASSUME IInv, NEW w \in Writers, NEW c \in Calls \cup {"headers"}, Start(w, c)
  PROVE  IInv'
<1>1. pc' \in [Writers -> States] /\ pc'[w] \in {"failed", "queued"}
      /\ \A j \in Writers \ {w} : pc'[j] = pc[j]
  BY Zenon DEF Start, IInv, TypeOK, States
<1>2. call' \in [Writers -> AllCalls \cup {"none"}]
  BY Zenon, BatcherAssumption DEF Start, IInv, TypeOK, AllCalls
<1>3. UNCHANGED <<target, seq, err, buf, wire, bufErr, link, closing>>
  BY Zenon DEF Start
<1>4. Progress(w)
  BY Zenon, <1>1, <1>2, <1>3 DEF Progress, IInv, TypeOK
<1>5. Own(w)
  BY Zenon, <1>1, <1>3 DEF Own, Carried, IInv, TypeOK
<1> QED  BY Zenon, <1>3, <1>4, <1>5, StepKeeps

LEMMA CallKeeps ==
  ASSUME IInv, NEW w \in Writers, Run(w)
  PROVE  IInv'
<1> USE DEF IInv
<1>1. CASE WriteHeaders(w)
  <2>1. Progress(w) /\ Own(w)
    BY <1>1, CommitKeeps, FailureKeeps, Zenon DEF WriteHeaders, AppendFails, WakeDeferred, TypeOK
  <2> QED  BY Zenon, <1>1, <2>1, StepKeeps DEF WriteHeaders, Locked
<1>2. CASE FusedRefused(w)
  BY Zenon, <1>2, FailureKeeps, StepKeeps DEF FusedRefused, Locked, Bail, TypeOK
<1>3. CASE FusedSlow(w)
  <2>1. Progress(w)
    BY Zenon, <1>3 DEF FusedSlow, Progress, TypeOK, States, AllCalls
  <2>2. Own(w)
    BY Zenon, <1>3 DEF FusedSlow, Own, Carried, TypeOK
  <2> QED  BY Zenon, <1>3, <2>1, <2>2, StepKeeps DEF FusedSlow, Locked
<1>4. CASE WriteFused(w)
  <2>1. CASE \E b \in Appended(w) : bufErr = "nil" /\ Commit(w, b)
    BY Zenon, <2>1, CommitKeeps, <1>4, StepKeeps DEF WriteFused, Locked
  <2>2. CASE /\ AppendFails
             /\ pc' \in {Returned(w, TRUE), WakeDeferred(Returned(w, TRUE))}
             /\ UNCHANGED <<call, target, seq, err>>
    <3>1. Progress(w) /\ Own(w)
      BY Zenon, <2>2, FailureKeeps DEF AppendFails, WakeDeferred, TypeOK
    <3> QED  BY Zenon, <3>1, <1>4, StepKeeps DEF WriteFused, Locked
  <2> QED  BY Zenon, <1>4, <2>1, <2>2 DEF WriteFused
<1>5. CASE SendBatch(w)
  <2>1. CASE Bail(w)
    BY Zenon, <1>5, <2>1, FailureKeeps, StepKeeps DEF SendBatch, Locked, Bail, TypeOK
  <2>2. CASE \E b \in Appended(w) : bufErr = "nil" /\ FlushNow(w, b)
    BY Zenon, <1>5, <2>2, AppendedFrames, FlushNowKeeps, StepKeeps DEF SendBatch, Locked
  <2>3. CASE /\ FlushAll(buf, FlushFails(buf)) \/ (Broken /\ FlushAll(buf, TRUE))
             /\ pc' = Broadcast(Returned(w, TRUE))
    <3>1. /\ pc' \in [Writers -> States] /\ pc'[w] = "failed"
          /\ \A j \in Writers \ {w} :
               pc'[j] = pc[j] \/ (pc[j] = "parked" /\ pc'[j] = "woken")
      BY Zenon, <2>3 DEF TypeOK, Broadcast, Returned, States
    <3>2. Progress(w) /\ target'[w] <= seq' + 1
      BY Zenon, <2>3, <3>1, FlushAllKeeps DEF TypeOK
    <3>3. Own(w)
      BY Zenon, <3>1, <3>2 DEF Own, Carried
    <3> QED  BY Zenon, <1>5, <3>2, <3>3, StepKeeps DEF SendBatch, Locked
  <2> QED  BY Zenon, <1>5, <2>1, <2>2, <2>3 DEF SendBatch
<1>6. CASE WriteControl(w)
  <2>1. CASE \E b \in Appended(w) : bufErr = "nil" /\ FlushNow(w, b)
    BY Zenon, <1>6, <2>1, AppendedFrames, FlushNowKeeps, StepKeeps DEF WriteControl, Locked
  <2>2. CASE /\ AppendFails /\ pc' = Returned(w, TRUE)
             /\ UNCHANGED <<call, target, seq, err>>
    BY Zenon, <1>6, <2>2, FailureKeeps, StepKeeps DEF WriteControl, Locked, AppendFails, TypeOK
  <2> QED  BY Zenon, <1>6, <2>1, <2>2 DEF WriteControl
<1>7. CASE WriteData(w)
  <2> UNCHANGED <<call, target, seq, err>>
    BY Zenon, <1>7 DEF WriteData, Bail
  <2>1. CASE \E b \in Appended(w) :
               bufErr = "nil" /\ Flush(b, FlushFails(b)) /\ pc' = Returned(w, FlushFails(b))
    <3>1. PICK b \in Appended(w) : Flush(b, FlushFails(b)) /\ pc' = Returned(w, FlushFails(b))
      BY Zenon, <2>1
    <3>2. b \in SUBSET Writers /\ w \in b
      BY Zenon, AppendedFrames
    <3>3. /\ buf' \in SUBSET Writers /\ wire' \in SUBSET Writers /\ bufErr' \in {"nil", "set"}
          /\ wire \subseteq wire' /\ buf \cup b \cup wire \subseteq buf' \cup wire'
          /\ ~FlushFails(b) => b \cup buf \subseteq wire'
      BY Zenon, <3>1, <3>2 DEF Flush, TypeOK
    <3>4. /\ pc' \in [Writers -> States] /\ pc'[w] \in {"ok", "failed"}
          /\ pc'[w] = "ok" => ~FlushFails(b)
          /\ \A j \in Writers \ {w} : pc'[j] = pc[j]
      BY Zenon, <3>1 DEF TypeOK, Returned, States
    <3>5. Progress(w)
      BY Zenon, <3>3, <3>4 DEF Progress, TypeOK
    <3>6. Own(w)
      BY Zenon, <3>2, <3>3, <3>4 DEF Own, Carried, TypeOK
    <3> QED  BY Zenon, <1>7, <3>5, <3>6, StepKeeps DEF WriteData, Locked
  <2>2. CASE AppendFails /\ pc' = Returned(w, TRUE)
    BY Zenon, <1>7, <2>2, FailureKeeps, StepKeeps DEF WriteData, Locked, AppendFails, TypeOK
  <2>3. CASE Bail(w)
    BY Zenon, <1>7, <2>3, FailureKeeps, StepKeeps DEF WriteData, Locked, Bail, TypeOK
  <2> QED  BY Zenon, <1>7, <2>1, <2>2, <2>3 DEF WriteData
<1>8. CASE Resume(w)
  BY Zenon, <1>8, ResumeKeeps
<1> QED  BY Zenon, <1>1, <1>2, <1>3, <1>4, <1>5, <1>6, <1>7, <1>8 DEF Run

\* Close and a transport failure: nobody returns, the frames only move on.
LEMMA CloseKeeps ==
  ASSUME IInv, Close \/ TransportFails
  PROVE  IInv'
<1>1. /\ UNCHANGED <<call, target, seq, err>>
      /\ link' \in {"up", "down"}
      /\ closing' \in {"open", "closed", "sent", "woken", "down"}
  BY Zenon DEF Close, CloseMark, CloseGoAway, CloseWake, CloseTransport, TransportFails, IInv,
     TypeOK
<1>2. /\ buf' \in SUBSET Writers /\ wire' \in SUBSET Writers /\ bufErr' \in {"nil", "set"}
      /\ wire \subseteq wire' /\ buf \cup wire \subseteq buf' \cup wire'
  <2>1. CASE CloseGoAway
    BY Zenon, <2>1, FlushOut DEF CloseGoAway, IInv, TypeOK
  <2> QED  BY Zenon, <2>1 DEF Close, CloseMark, CloseWake, CloseTransport, TransportFails,
              IInv, TypeOK
<1>3. /\ pc' \in [Writers -> States]
      /\ \A j \in Writers : pc'[j] = pc[j] \/ (pc[j] = "parked" /\ pc'[j] = "woken")
  BY Zenon DEF Close, CloseMark, CloseGoAway, CloseWake, CloseTransport, TransportFails, IInv,
         TypeOK, Broadcast, States
<1>4. TypeOK'
  BY Zenon, <1>1, <1>2, <1>3 DEF IInv, TypeOK
<1>5. SuccessIsOnWire'
  BY Zenon, <1>2, <1>3 DEF IInv, SuccessIsOnWire
<1>6. Convoy'
  BY Zenon, <1>1, <1>2, <1>3 DEF IInv, Convoy, Carried
<1> QED  BY Zenon, <1>4, <1>5, <1>6 DEF IInv

LEMMA NextKeeps == IInv /\ [Next]_vars => IInv'
<1> SUFFICES ASSUME IInv, [Next]_vars PROVE IInv'
  BY Zenon
<1>1. CASE Next
  BY Zenon, <1>1, CallKeeps, StartKeeps, CloseKeeps DEF Next
<1>2. CASE UNCHANGED vars
  BY Zenon, <1>2 DEF vars, IInv, TypeOK, SuccessIsOnWire, Convoy, Carried
<1> QED  BY Zenon, <1>1, <1>2

\* For any number of writers, any calls and any threshold: deferring a flush to
\* another writer never turns into a success whose frame was not handed to the
\* transport (commit, flushNowLocked).
THEOREM DeferredSuccessIsReal == Spec => [](TypeOK /\ SuccessIsOnWire)
<1>1. IInv => TypeOK /\ SuccessIsOnWire
  BY Zenon DEF IInv
<1> QED  BY <1>1, InitIInv, NextKeeps, PTL DEF Spec
-----------------------------------------------------------------------------
(***************************************************************************)
(* A convoy has a leader.                                                  *)
(***************************************************************************)

Leads(w) ==
  \/ w \in Waiters
  \/ closing = "open" /\ call[w] = "headers" /\ pc[w] = "idle"
  \/ call[w] \in {"fused", "batch"} /\ pc[w] = "failed"

Led == (\E w \in Writers : pc[w] = "parked") =>
         closing \in {"closed", "sent"} \/ \E w \in Writers : Leads(w)

LEMMA LedIsParkedHasSuccessor == Led <=> ParkedHasSuccessor
BY Zenon DEF Led, ParkedHasSuccessor, Leads, Deserted, Waiters

\* A broadcast leaves nobody parked.
LEMMA BroadcastLeads ==
  ASSUME NEW p, pc' = Broadcast(p)
  PROVE  Led'
BY Zenon DEF Broadcast, Led

\* A step of w that does not take the leader away.
LEMMA LeaderStays ==
  ASSUME Led, NEW w \in Writers, Leads(w) => Leads(w)', pc'[w] # "parked",
         \A j \in Writers \ {w} : pc'[j] = pc[j] /\ call'[j] = call[j],
         UNCHANGED closing
  PROVE  Led'
BY Zenon DEF Led, Leads, Waiters

\* commit by w: it parks behind another counted writer, or flushes.
LEMMA CommitLeads ==
  ASSUME TypeOK, NEW w \in Writers, NEW b, Commit(w, b)
  PROVE  Led'
<1>1. CASE FlushNow(w, b)
  BY Zenon, <1>1, BroadcastLeads DEF FlushNow
<1>2. CASE /\ Waiters \ {w} # {} /\ pc' = [pc EXCEPT ![w] = "parked"]
           /\ UNCHANGED call
  BY Zenon, <1>2 DEF Waiters, Led, Leads, TypeOK
<1> QED  BY Zenon, <1>1, <1>2 DEF Commit

\* w returns with an error and wakes nobody.
LEMMA FailedAlone ==
  ASSUME TypeOK, Led, NEW w \in Writers, pc' = Returned(w, TRUE), UNCHANGED <<call, closing>>,
         pc[w] = "queued", call[w] # "headers"
  PROVE  Led'
<1>1. pc'[w] = "failed" /\ \A j \in Writers \ {w} : pc'[j] = pc[j]
  BY Zenon DEF Returned, TypeOK
<1>2. Leads(w) => Leads(w)'
  BY Zenon, <1>1 DEF Leads, Waiters, Counted
<1> QED  BY Zenon, <1>1, <1>2, LeaderStays

LEMMA RunLeads ==
  ASSUME TypeOK, Led, NEW w \in Writers, Run(w)
  PROVE  Led'
<1>1. CASE WriteHeaders(w)
  BY Zenon, <1>1, CommitLeads, BroadcastLeads DEF WriteHeaders, WakeDeferred
<1>2. CASE FusedRefused(w)
  BY Zenon, <1>2, FailedAlone DEF FusedRefused, Locked, Bail
<1>3. CASE FusedSlow(w)
  <2>1. Leads(w)' /\ pc'[w] = "idle"
    BY Zenon, <1>3 DEF FusedSlow, Locked, Leads, TypeOK, closed
  <2>2. \A j \in Writers \ {w} : pc'[j] = pc[j] /\ call'[j] = call[j]
    BY Zenon, <1>3 DEF FusedSlow, TypeOK
  <2> QED  BY Zenon, <1>3, <2>1, <2>2, LeaderStays DEF FusedSlow, Locked
<1>4. CASE WriteFused(w)
  BY Zenon, <1>4, CommitLeads, BroadcastLeads, FailedAlone DEF WriteFused, WakeDeferred, Locked
<1>5. CASE SendBatch(w)
  <2>1. CASE Bail(w)
    BY Zenon, <1>5, <2>1, FailedAlone DEF SendBatch, Bail, Locked
  <2>2. CASE ~Bail(w)
    BY Zenon, <1>5, <2>2, BroadcastLeads DEF SendBatch, FlushNow
  <2> QED  BY Zenon, <2>1, <2>2
<1>6. CASE WriteControl(w)
  BY Zenon, <1>6, BroadcastLeads, FailedAlone DEF WriteControl, FlushNow, Locked
<1>7. CASE WriteData(w)
  <2>1. /\ pc[w] = "queued" /\ call[w] = "data" /\ UNCHANGED <<call, closing>>
        /\ \E f : pc' = Returned(w, f)
    BY Zenon, <1>7 DEF WriteData, Bail, Locked
  <2>2. pc'[w] # "parked" /\ \A j \in Writers \ {w} : pc'[j] = pc[j]
    BY Zenon, <2>1 DEF Returned, TypeOK
  <2>3. ~Leads(w)
    BY Zenon, <2>1 DEF Leads, Waiters, Counted
  <2> QED  BY Zenon, <2>1, <2>2, <2>3, LeaderStays
<1>8. CASE Resume(w)
  <2>1. CASE FlushNow(w, buf)
    BY Zenon, <2>1, BroadcastLeads DEF FlushNow
  <2>2. CASE pc' = Returned(w, err = "set") /\ UNCHANGED call
    <3>1. pc'[w] # "parked" /\ \A j \in Writers \ {w} : pc'[j] = pc[j]
      BY Zenon, <2>2 DEF Returned, TypeOK
    <3>2. ~Leads(w)
      BY Zenon, <1>8 DEF Leads, Waiters, Resume
    <3> QED  BY Zenon, <1>8, <2>2, <3>1, <3>2, LeaderStays DEF Resume
  <2> QED  BY Zenon, <1>8, <2>1, <2>2 DEF Resume
<1> QED  BY Zenon, <1>1, <1>2, <1>3, <1>4, <1>5, <1>6, <1>7, <1>8 DEF Run

\* A writer of the slow path enters the queue, or finds the connection closed
\* when Close is about to wake everyone.
LEMMA StartLeads ==
  ASSUME TypeOK, Led, NEW w \in Writers, NEW c \in Calls \cup {"headers"}, Start(w, c)
  PROVE  Led'
<1>1. /\ pc[w] = "idle" /\ call[w] \in {"none", c} /\ UNCHANGED closing
      /\ call'[w] = c /\ pc'[w] = IF closed THEN "failed" ELSE "queued"
      /\ \A j \in Writers \ {w} : pc'[j] = pc[j] /\ call'[j] = call[j]
  BY Zenon DEF Start, TypeOK
<1>2. Leads(w) => Leads(w)'
  BY Zenon, <1>1 DEF Leads, Waiters, Counted, closed
<1> QED  BY Zenon, <1>1, <1>2, LeaderStays

LEMMA CloseLeads ==
  ASSUME TypeOK, Led, Close \/ TransportFails
  PROVE  Led'
<1>1. CASE CloseWake
  BY Zenon, <1>1, BroadcastLeads DEF CloseWake
<1>2. CASE CloseMark \/ CloseGoAway
  BY Zenon, <1>2 DEF CloseMark, CloseGoAway, Led
<1>3. CASE CloseTransport \/ TransportFails
  BY Zenon, <1>3 DEF CloseTransport, TransportFails, Led, Leads, Waiters
<1> QED  BY Zenon, <1>1, <1>2, <1>3 DEF Close

LEMMA NextLeads ==
  ASSUME TypeOK, Led, [Next]_vars
  PROVE  Led'
<1>1. CASE UNCHANGED vars
  BY Zenon, <1>1 DEF Led, Leads, Waiters, vars
<1> QED  BY Zenon, <1>1, RunLeads, StartLeads, CloseLeads DEF Next

\* A writer never waits in commit without somebody bound to flush for it or to
\* wake it, unless a fused write or a SendBatch was refused.
THEOREM ConvoyHasLeader == Spec => []ParkedHasSuccessor
<1>1. Init => Led
  BY Zenon DEF Init, Led
<1>2. IInv /\ Led /\ [Next]_vars => Led'
  BY Zenon, NextLeads DEF IInv
<1> QED  BY <1>1, <1>2, LedIsParkedHasSuccessor, InitIInv, NextKeeps, PTL DEF Spec
=============================================================================
