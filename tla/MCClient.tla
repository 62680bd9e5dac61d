------------------------------ MODULE MCClient ------------------------------
(* What a caller of the library holds: the managed pool's registry, one call of
   the client, the transports that keep a single connection, and the two
   directions of a gRPC call. They share no state in these models, so the run
   explores them side by side: a behaviour is one of one part, and the others
   keep one fixed state. *)
EXTENDS ManagedCore, ClientCall, SingleConn, GrpcRecv, GrpcSend

VARIABLE side

clientVars == <<side, vars, callVars, singleVars, rpcRecvVars, rpcSendVars>>

ClientInit ==
    /\ Init /\ CallInit /\ SingleInit /\ RpcRecvInit /\ RpcSendInit
    /\ side \in {"registry", "call", "single", "answer", "request"}
    /\ side # "registry" => addrs = {}
    /\ side # "call" => req = [mode |-> "buffer", replay |-> FALSE,
                               timeout |-> FALSE]
    /\ side # "single" => proto = "h2"
    /\ side # "answer" => script = <<>> /\ unary

Rest(s) ==
    /\ s # "registry" => UNCHANGED vars
    /\ s # "call"     => UNCHANGED callVars
    /\ s # "single"   => UNCHANGED singleVars
    /\ s # "answer"   => UNCHANGED rpcRecvVars
    /\ s # "request"  => UNCHANGED rpcSendVars

ClientNext ==
    /\ \/ side = "registry" /\ Next
       \/ side = "call" /\ CallNext
       \/ side = "single" /\ SingleNext
       \/ side = "answer" /\ RpcRecvNext
       \/ side = "request" /\ RpcSendNext
    /\ Rest(side)
    /\ UNCHANGED side

ClientSpec ==
    /\ ClientInit /\ [][ClientNext]_clientVars
    /\ Fairness /\ CallFairness

-----------------------------------------------------------------------------
\* No message, one, an empty one before another, one past the limit, and one
\* with the compressed flag.
Message(n, f) == [size |-> n, flag |-> f]
MCResponses == {<<>>, <<Message(1, 0)>>, <<Message(0, 0), Message(1, 0)>>,
                <<Message(2, 0)>>, <<Message(1, 1)>>}
=============================================================================
