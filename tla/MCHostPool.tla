----------------------------- MODULE MCHostPool -----------------------------
(* The instance of HostPool on which liveness is checked: two callers, two
   connections, and peers that keep the stream limit of their first SETTINGS
   (MCPools lets them change it). *)
EXTENDS HostPool

LiveNext == Next /\ \A c \in Conns : peerCap'[c] = 0

LiveSpec == Init /\ [][LiveNext]_vars /\ Fairness
=============================================================================
