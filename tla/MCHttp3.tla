------------------------------ MODULE MCHttp3 ------------------------------
(* HTTP/3 and the QUIC transport below it.  Their parts share no state in the
   models, so one run explores them side by side: a behaviour is one of a
   request and its response, of the QPACK decoder's read loop and requests, of
   its dynamic table, of the QPACK encoder, or, below, of the stream transfer,
   of the received packet numbers, of the connection IDs, of the key updates,
   of the openers and the end of a connection, or of the server's listener. *)
EXTENDS QuicTransfer, QuicAckRanges, QuicConnIDs, QuicKeys, QuicLife, QuicListener,
        H3Exchange, H3Qpack, QpackEncoder

VARIABLE side

MCScenarios == {[body |-> 2, faults |-> 1], [body |-> 1, faults |-> 2]}

vars == <<side, xferVars, ackVars, cidVars, keyVars, lifeVars, lisVars, xvars, dvars, tblVars, encVars>>

\* A part with several initial states starts from one of them on the other sides.
Init ==
  /\ side \in {"transfer", "acks", "ids", "keys", "life", "listener", "exchange", "decoding", "table", "encoding"}
  /\ XferInit /\ AckInit /\ CidInit /\ KeyInit /\ LifeInit /\ LisInit /\ XInit /\ QpInit /\ TblInit /\ EncInit
  /\ side = "transfer" \/ faults = 1
  /\ side = "exchange" \/ mode = "do"

Next ==
  \/ /\ side = "transfer" /\ XferNext
     /\ UNCHANGED <<side, ackVars, cidVars, keyVars, lifeVars, lisVars, xvars, dvars, tblVars, encVars>>
  \/ /\ side = "acks" /\ AckNext
     /\ UNCHANGED <<side, xferVars, cidVars, keyVars, lifeVars, lisVars, xvars, dvars, tblVars, encVars>>
  \/ /\ side = "ids" /\ CidNext
     /\ UNCHANGED <<side, xferVars, ackVars, keyVars, lifeVars, lisVars, xvars, dvars, tblVars, encVars>>
  \/ /\ side = "keys" /\ KeyNext
     /\ UNCHANGED <<side, xferVars, ackVars, cidVars, lifeVars, lisVars, xvars, dvars, tblVars, encVars>>
  \/ /\ side = "life" /\ LifeNext
     /\ UNCHANGED <<side, xferVars, ackVars, cidVars, keyVars, lisVars, xvars, dvars, tblVars, encVars>>
  \/ /\ side = "listener" /\ LisNext
     /\ UNCHANGED <<side, xferVars, ackVars, cidVars, keyVars, lifeVars, xvars, dvars, tblVars, encVars>>
  \/ /\ side = "exchange" /\ XNext
     /\ UNCHANGED <<side, xferVars, ackVars, cidVars, keyVars, lifeVars, lisVars, dvars, tblVars, encVars>>
  \/ /\ side = "decoding" /\ QpNext
     /\ UNCHANGED <<side, xferVars, ackVars, cidVars, keyVars, lifeVars, lisVars, xvars, tblVars, encVars>>
  \/ /\ side = "table" /\ TblNext
     /\ UNCHANGED <<side, xferVars, ackVars, cidVars, keyVars, lifeVars, lisVars, xvars, dvars, encVars>>
  \/ /\ side = "encoding" /\ EncNext
     /\ UNCHANGED <<side, xferVars, ackVars, cidVars, keyVars, lifeVars, lisVars, xvars, dvars, tblVars>>

Spec == Init /\ [][Next]_vars
=============================================================================
