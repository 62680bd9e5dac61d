------------------------------ MODULE MCPools ------------------------------
(* The pools of multiplexed connections, HTTP/2 over TCP and HTTP/3 over QUIC,
   share no state: a behaviour is one of HostPool or one of H3Pool. *)
EXTENDS HostPool, H3Pool, TLC

VARIABLE side

poolsVars == <<side, vars, poolVars>>

MCInit == side \in {"h2", "h3"} /\ Init /\ PoolInit

MCNext ==
  \/ side = "h2" /\ Next /\ UNCHANGED <<side, poolVars>>
  \/ side = "h3" /\ PoolNext /\ UNCHANGED <<side, vars>>

MCSpec == MCInit /\ [][MCNext]_poolsVars

Symmetric ==
  Permutations(Callers) \cup Permutations(Conns) \cup Permutations(Askers) \cup Permutations(Quics)
=============================================================================
