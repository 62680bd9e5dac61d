------------------------------- MODULE MCFlow -------------------------------
(* What blocks and wakes the calls of one connection: the two directions of
   HTTP/2 flow control share no variable and no lock (fcOutMu and fcMu), and the
   HTTP/1.1 context watchdog belongs to another kind of connection, so the run
   explores them side by side. *)
EXTENDS H2SendFlow, H2RecvFlow, H1Watchdog

VARIABLE side

flowVars == <<side, sendVars, recvVars, watchVars>>

\* A side that does not move keeps one fixed state.
FlowInit ==
  /\ side \in {"send", "recv", "watch"} /\ SendInit /\ RecvInit /\ WatchInit
  /\ side # "send" => initial = CHOOSE v \in Initials : v <= MaxWindow
  /\ side # "watch" => ctx = [e \in Watched |-> CHOOSE c \in Fresh : TRUE]

FlowNext ==
  \/ side = "send" /\ SendNext /\ UNCHANGED <<side, recvVars, watchVars>>
  \/ side = "recv" /\ RecvNext /\ UNCHANGED <<side, sendVars, watchVars>>
  \/ side = "watch" /\ WatchNext /\ UNCHANGED <<side, sendVars, recvVars>>

\* WatchFairness, asked only of behaviours in which the watchdog's side moves: its
\* caller could take a step from the fixed state the other sides leave it in.
WatchSideFairness ==
  /\ WF_watchVars(side = "watch" /\ CallerSteps)
  /\ WF_watchVars(side = "watch" /\ WatchdogSteps)
  /\ WF_watchVars(side = "watch" /\ CloseSocket)

FlowSpec == FlowInit /\ [][FlowNext]_flowVars /\ SendFairness /\ WatchSideFairness
=============================================================================
