------------------------------ MODULE GrpcSend ------------------------------
(***************************************************************************)
(* The sending side of a gRPC call (src/grpc/stream.go, openStream in      *)
(* conn.go): goroutines that Send, SendLast and CloseSend under sendMu,    *)
(* the receiving goroutine that may Close the stream under them, and a     *)
(* peer that may reset it.  A message goes out in Pieces DATA frames, and  *)
(* the writer waits for credit before each of them; a frame counts as sent *)
(* when its credit is granted.  The stream's buffers come from a pool and  *)
(* go back to it on Close.                                                 *)
(***************************************************************************)
EXTENDS Naturals, Sequences, FiniteSets

CONSTANTS Senders, Pieces

VARIABLES
  opened,    \* "no", "fused" for a unary call, "stream", or "failed"
  spc,       \* where each writer is: [at, op, piece]
  sendMu,     \* the writer that holds the mutex, or "free"
  sendErr, sentEnd,
  result,    \* what each writer's call returned
  carried,   \* the request as it went out: <<writer, piece>>, or "end"
  torn,      \* the peer reset the stream
  closedBy,  \* how far Close has come: "open", "latched", "closed", "released"
  bufs       \* the stream's buffers: "held", or "pooled"

rpcSendVars == <<opened, spc, sendMu, sendErr, sentEnd, result, carried, torn, closedBy, bufs>>

Ops == {"Send", "SendLast", "CloseSend"}
Benign == "ErrStreamClosed"
Final(op) == op \in {"SendLast", "CloseSend"}

\* openStream: the message of a unary call travels with the headers.
OpenStream(fuse) ==
  /\ opened = "no"
  /\ \/ /\ opened' = (IF fuse THEN "fused" ELSE "stream") /\ sentEnd' = fuse /\ UNCHANGED <<sendErr, bufs>>
        /\ carried' = IF fuse THEN [i \in 1..Pieces |-> <<"unary", i>>] \o <<"end">> ELSE <<>>
     \/ /\ torn /\ opened' = (IF fuse THEN "fused" ELSE "stream") /\ sendErr' = Benign
        /\ UNCHANGED <<sentEnd, carried, bufs>>
     \/ opened' = "failed" /\ bufs' = "pooled" /\ UNCHANGED <<sendErr, sentEnd, carried>>
  /\ UNCHANGED <<spc, sendMu, result, torn, closedBy>>

\* The guards before the lock.
Call(w, op) ==
  /\ opened \in {"fused", "stream"} /\ spc[w].at = "idle"
  /\ IF closedBy # "open" THEN result' = [result EXCEPT ![w] = "closed"] /\ spc' = [spc EXCEPT ![w].at = "done"]
     ELSE spc' = [spc EXCEPT ![w] = [at |-> "lock", op |-> op, piece |-> 1]] /\ UNCHANGED result
  /\ UNCHANGED <<opened, sendMu, sendErr, sentEnd, carried, torn, closedBy, bufs>>

Returns(w, r) ==
  /\ result' = [result EXCEPT ![w] = r] /\ spc' = [spc EXCEPT ![w].at = "done"] /\ sendMu' = "free"

\* Faulty variant: a failed send is forgotten.
EnterForgetful(w) ==
  /\ spc[w].at = "lock" /\ sendMu = "free"
  /\ IF sentEnd THEN Returns(w, IF spc[w].op = "CloseSend" THEN "nil" ELSE "ErrSendClosed")
     ELSE spc' = [spc EXCEPT ![w].at = "write"] /\ sendMu' = w /\ UNCHANGED result
  /\ UNCHANGED <<opened, sendErr, sentEnd, carried, torn, closedBy, bufs>>

\* The guards after it. Close may have taken the buffers: writeMessage then copies.
Enter(w) ==
  /\ spc[w].at = "lock" /\ sendMu = "free"
  /\ LET op == spc[w].op
     IN IF op = "CloseSend" /\ sentEnd THEN Returns(w, "nil")
        ELSE IF sendErr # "none" THEN Returns(w, IF op = "CloseSend" /\ sendErr = Benign THEN "nil" ELSE sendErr)
        ELSE IF sentEnd THEN Returns(w, "ErrSendClosed")
        ELSE /\ spc' = [spc EXCEPT ![w].at = IF op = "CloseSend" \/ bufs = "pooled" THEN "write" ELSE "vector"]
             /\ sendMu' = w /\ UNCHANGED result
  /\ UNCHANGED <<opened, sendErr, sentEnd, carried, torn, closedBy, bufs>>

Writing(w) == spc[w].at \in {"write", "vector"}
Gone == torn \/ closedBy \in {"closed", "released"}

\* writeMessage's SendData or SendDataV sends the next frame; CloseSend an empty one.
WritePiece(w) ==
  /\ Writing(w) /\ ~Gone
  /\ LET op    == spc[w].op
         final == op = "CloseSend" \/ spc[w].piece = Pieces
         frame == (IF op = "CloseSend" THEN <<>> ELSE <<<<w, spc[w].piece>>>>)
                  \o (IF final /\ Final(op) THEN <<"end">> ELSE <<>>)
     IN /\ carried' = carried \o frame
        /\ IF ~final THEN spc' = [spc EXCEPT ![w].piece = @ + 1] /\ UNCHANGED <<sendMu, sentEnd, result>>
           ELSE Returns(w, "nil") /\ sentEnd' = Final(op)
  /\ UNCHANGED <<opened, sendErr, torn, closedBy, bufs>>

\* It fails: the stream is gone, or the context or the connection ends first.
WriteFails(w) ==
  /\ Writing(w)
  /\ \E err \in {"ctx"} \cup (IF Gone THEN {Benign} ELSE {})
                       \cup (IF closedBy \in {"closed", "released"} THEN {"ErrStaleStream"} ELSE {}) :
       /\ sendErr' = err
       /\ Returns(w, IF spc[w].op = "CloseSend" /\ err = Benign THEN "nil" ELSE err)
  /\ UNCHANGED <<opened, sentEnd, carried, torn, closedBy, bufs>>

\* Close: the latch, the connection's stream, and then the buffers.
CloseRpcStep ==
  /\ opened \in {"fused", "stream"}
  /\ \/ closedBy = "open" /\ closedBy' = "latched" /\ bufs' = bufs
     \/ closedBy = "latched" /\ closedBy' = "closed" /\ bufs' = bufs
     \/ closedBy = "closed" /\ closedBy' = "released" /\ bufs' = "pooled"
  /\ UNCHANGED <<opened, spc, sendMu, sendErr, sentEnd, result, carried, torn>>

PeerResets ==
  /\ ~torn /\ torn' = TRUE
  /\ UNCHANGED <<opened, spc, sendMu, sendErr, sentEnd, result, carried, closedBy, bufs>>

RpcSendInit ==
  /\ opened = "no" /\ sendMu = "free" /\ sendErr = "none" /\ sentEnd = FALSE /\ carried = <<>>
  /\ spc = [w \in Senders |-> [at |-> "idle", op |-> "Send", piece |-> 1]]
  /\ result = [w \in Senders |-> "none"] /\ torn = FALSE /\ closedBy = "open" /\ bufs = "held"

RpcSendNext ==
  \/ \E fuse \in BOOLEAN : OpenStream(fuse)
  \/ \E w \in Senders : \/ \E op \in Ops : Call(w, op)
                        \/ Enter(w) \/ WritePiece(w) \/ WriteFails(w)
  \/ CloseRpcStep \/ PeerResets

-----------------------------------------------------------------------------
(***************************************************************************)
(* What the server reads is whole: messages of concurrent writers never    *)
(* mix, nothing follows a message that was cut short or the end of the     *)
(* request; a Send that returned nil went out completely, and a CloseSend  *)
(* that returned nil ended the request unless the peer reset the stream or *)
(* it was closed (src/grpc/stream.go:46-51, 205-228).                      *)
(***************************************************************************)
CallIsWhole ==
  /\ \A i \in 1..Len(carried) - 1 :
       /\ carried[i] # "end"
       /\ carried[i][2] # Pieces => carried[i + 1] = <<carried[i][1], carried[i][2] + 1>>
  /\ \A w \in Senders : result[w] = "nil" =>
       IF spc[w].op = "CloseSend" THEN (carried # <<>> /\ carried[Len(carried)] = "end") \/ Gone
       ELSE \E i \in DOMAIN carried : carried[i] = <<w, Pieces>>
=============================================================================
