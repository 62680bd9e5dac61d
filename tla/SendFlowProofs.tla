--------------------------- MODULE SendFlowProofs ---------------------------
(* Proofs about H2SendFlow.  The account of a stream, the account of the connection
   and the wakeups are three inductions over one typing and locking invariant. *)
EXTENDS H2SendFlow, FiniteSetTheorems, TLAPS

\* fcOutMu is held by the writer between its reading and its decision; a stream
\* nobody registered has no account; a writer holds a grant only for the frame it
\* is about to write.
WriterShape ==
  \A s \in Streams :
    /\ wpc[s] = "decide" => fcOutMu = s
    /\ wpc[s] = "idle" => /\ s \notin open /\ spent[s] = 0 /\ grant[s] = 0
                          /\ credit[s] = 0 /\ rem[s] = Body
    /\ wpc[s] \in {"look", "decide", "parked"} => grant[s] = 0 /\ rem[s] > 0
    /\ wpc[s] = "write" => grant[s] > 0 /\ grant[s] <= rem[s]

Balance(s) == credit[s] - Debited(s)

\* A stream's window is its balance above some INITIAL_WINDOW_SIZE, the current one
\* unless the reader is dying with a SETTINGS half applied; what a writer read is
\* at most MaxWindow above the balance, so its debit takes the balance to
\* -MaxWindow at worst.
Accounts ==
  \A s \in open :
    /\ Balance(s) >= -MaxWindow /\ win[s] <= MaxWindow
    /\ win[s] - Balance(s) \in 0..MaxWindow
    /\ wpc[s] = "decide" => seen[s] <= MaxWindow + Balance(s)
    /\ reader \notin {"dying", "exited"} => win[s] = initial + Balance(s)

ConnAccount ==
  /\ connWin = ConnInitial + connCredit - Cardinality(DebitedBytes)
  /\ connWin \in 0..MaxWindow /\ IsFiniteSet(DebitedBytes)

\* What a writer read before it decides is stale only if a broadcast is to come.
DecideIsJustified ==
  \A s \in Streams :
    wpc[s] = "decide" /\ (down # {} \/ s \in gone \ overflown \/ win[s] > seen[s]) => WakePending

LEMMA FusedCostNat == FusedCost \in Nat /\ FusedCost > 0
<1> DEFINE k == (Body + FrameSize - 1) \div FrameSize
<1>1. k \in Nat
  BY SendAssumption
<1>2. PadOverhead * k \in Nat
  BY <1>1, SendAssumption
<1> HIDE DEF k
<1>3. FusedCost = Body + PadOverhead * k
  BY Zenon DEF k, FusedCost
<1> QED
  BY <1>2, <1>3, SendAssumption

LEMMA SendNextTypes ==
  ASSUME SendTypeOK, WriterShape, SendNext \/ UNCHANGED sendVars PROVE SendTypeOK'
<1>1. ASSUME NEW s \in Streams, SendHeadersFirst(s)
      PROVE  SendTypeOK'
  BY <1>1, SendAssumption
  DEF SendHeadersFirst, SendTypeOK, connVars, writerVars, envVars, ledger, AssignStreamID,
      AfterWrite
<1>2. ASSUME NEW s \in Streams, SendHeadersAndData(s)
      PROVE  SendTypeOK'
  BY <1>2, SendAssumption, FusedCostNat
  DEF SendHeadersAndData, SendTypeOK, connVars, writerVars, envVars, ledger,
      AssignStreamID, AfterWrite
<1>3. ASSUME NEW s \in Streams, Look(s)
      PROVE  SendTypeOK'
  BY Zenon, <1>3, SendAssumption
  DEF Look, SendTypeOK, connVars, writerVars, envVars, ledger
<1>4. ASSUME NEW s \in Streams, Decide(s)
      PROVE  SendTypeOK'
  BY <1>4, SendAssumption
  DEF Decide, SendTypeOK, WriterShape, connVars, writerVars, envVars, ledger, Least,
      HasCredit, FrameCost
<1>5. ASSUME NEW s \in Streams, WriteFrame(s)
      PROVE  SendTypeOK'
  BY <1>5, SendAssumption
  DEF WriteFrame, SendTypeOK, WriterShape, connVars, writerVars, envVars, ledger, AfterWrite
<1>6. ASSUME NEW s \in Streams, Cancel(s)
      PROVE  SendTypeOK'
  BY <1>6, SendAssumption
  DEF Cancel, SendTypeOK, connVars, writerVars, envVars, ledger, Outside
<1>7. ASSUME NEW s \in Streams, CancelWake(s)
      PROVE  SendTypeOK'
  BY Zenon, <1>7, SendAssumption
  DEF CancelWake, SendTypeOK, connVars, writerVars, envVars, ledger, FcBroadcast, AfterBroadcast
<1>8. ASSUME NEW s \in Streams, StreamClose(s)
      PROVE  SendTypeOK'
  BY <1>8, SendAssumption
  DEF StreamClose, SendTypeOK, connVars, writerVars, envVars, ledger, Outside
<1>9. ASSUME NEW s \in Streams, StreamCloseWake(s)
      PROVE  SendTypeOK'
  BY Zenon, <1>9, SendAssumption
  DEF StreamCloseWake, SendTypeOK, connVars, writerVars, envVars, ledger, FcBroadcast,
      AfterBroadcast
<1>10. ASSUME NEW s \in Streams, Overflow(s)
      PROVE  SendTypeOK'
  BY <1>10, SendAssumption
  DEF Overflow, SendTypeOK, connVars, writerVars, envVars, ledger, Outside, ReaderReads
<1>11. ASSUME NEW s \in Streams, BackgroundRST(s)
      PROVE  SendTypeOK'
  BY Zenon, <1>11, SendAssumption
  DEF BackgroundRST, SendTypeOK, connVars, writerVars, envVars, ledger
<1>12. ASSUME NEW inc \in Increments, OnConnWindowUpdate(inc)
      PROVE  SendTypeOK'
  BY <1>12, SendAssumption
  DEF OnConnWindowUpdate, SendTypeOK, connVars, writerVars, envVars, ledger, FcBroadcast,
      AfterBroadcast, Outside, ReaderReads
<1>13. ASSUME NEW s \in Streams, NEW inc \in Increments, OnStreamWindowUpdate(s, inc)
      PROVE  SendTypeOK'
  BY <1>13, SendAssumption
  DEF OnStreamWindowUpdate, SendTypeOK, connVars, writerVars, envVars, ledger, Outside,
      ReaderReads
<1>14. ASSUME NEW victims \in SUBSET open, OnReset(victims)
      PROVE  SendTypeOK'
  BY <1>14, SendAssumption
  DEF OnReset, SendTypeOK, connVars, writerVars, envVars, ledger, Outside, ReaderReads
<1>15. ASSUME NEW v \in Initials, NEW applied \in SUBSET open, ApplyPeerSettings(v, applied)
      PROVE  SendTypeOK'
  BY <1>15, SendAssumption
  DEF ApplyPeerSettings, SendTypeOK, connVars, writerVars, envVars, ledger, Outside, ReaderReads
<1>16. CASE ReaderWake
  BY Zenon, <1>16, SendAssumption
  DEF ReaderWake, SendTypeOK, connVars, writerVars, envVars, ledger, FcBroadcast, AfterBroadcast
<1>17. CASE SettingsWake
  BY Zenon, <1>17, SendAssumption
  DEF SettingsWake, SendTypeOK, connVars, writerVars, envVars, ledger, FcBroadcast,
      AfterBroadcast
<1>18. CASE SettingsAck
  BY Zenon, <1>18, SendAssumption
  DEF SettingsAck, SendTypeOK, connVars, writerVars, envVars, ledger
<1>19. CASE ReaderFails
  BY <1>19, SendAssumption
  DEF ReaderFails, SendTypeOK, connVars, writerVars, envVars, ledger, Outside, ReaderReads
<1>20. CASE ReaderExit
  BY Zenon, <1>20, SendAssumption
  DEF ReaderExit, SendTypeOK, connVars, writerVars, envVars, ledger, FcBroadcast, AfterBroadcast
<1>21. CASE ConnClose
  BY <1>21, SendAssumption
  DEF ConnClose, SendTypeOK, connVars, writerVars, envVars, ledger, Outside
<1>22. CASE ConnCloseWake
  BY Zenon, <1>22, SendAssumption
  DEF ConnCloseWake, SendTypeOK, connVars, writerVars, envVars, ledger, FcBroadcast,
      AfterBroadcast
<1>23. CASE UNCHANGED sendVars
  BY Zenon, <1>23 DEF SendTypeOK, sendVars, connVars, writerVars, envVars, ledger
<1> QED
  BY Zenon, <1>1, <1>2, <1>3, <1>4, <1>5, <1>6, <1>7, <1>8, <1>9, <1>10, <1>11, <1>12,
     <1>13, <1>14, <1>15, <1>16, <1>17, <1>18, <1>19, <1>20, <1>21, <1>22, <1>23 DEF SendNext

LEMMA SendNextShape ==
  ASSUME SendTypeOK, WriterShape, SendNext \/ UNCHANGED sendVars PROVE WriterShape'
<1>1. ASSUME NEW s \in Streams, SendHeadersFirst(s)
      PROVE  WriterShape'
  BY <1>1, SendAssumption
  DEF SendHeadersFirst, SendTypeOK, WriterShape, connVars, writerVars, envVars, ledger,
      AssignStreamID, AfterWrite
<1>2. ASSUME NEW s \in Streams, SendHeadersAndData(s)
      PROVE  WriterShape'
  BY <1>2, SendAssumption, FusedCostNat
  DEF SendHeadersAndData, SendTypeOK, WriterShape, connVars, writerVars, envVars, ledger,
      AssignStreamID, AfterWrite
<1>3. ASSUME NEW s \in Streams, Look(s)
      PROVE  WriterShape'
  BY <1>3, SendAssumption
  DEF Look, SendTypeOK, WriterShape, connVars, writerVars, envVars, ledger
<1>4. ASSUME NEW s \in Streams, Decide(s)
      PROVE  WriterShape'
  BY <1>4, SendAssumption
  DEF Decide, SendTypeOK, WriterShape, connVars, writerVars, envVars, ledger, Least,
      HasCredit, FrameCost
<1>5. ASSUME NEW s \in Streams, WriteFrame(s)
      PROVE  WriterShape'
  BY <1>5, SendAssumption
  DEF WriteFrame, SendTypeOK, WriterShape, connVars, writerVars, envVars, ledger, AfterWrite
<1>6. ASSUME NEW s \in Streams, Cancel(s)
      PROVE  WriterShape'
  BY Zenon, <1>6, SendAssumption
  DEF Cancel, SendTypeOK, WriterShape, connVars, writerVars, envVars, ledger, Outside
<1>7. ASSUME NEW s \in Streams, CancelWake(s)
      PROVE  WriterShape'
  BY Zenon, <1>7, SendAssumption
  DEF CancelWake, SendTypeOK, WriterShape, connVars, writerVars, envVars, ledger,
      FcBroadcast, AfterBroadcast
<1>8. ASSUME NEW s \in Streams, StreamClose(s)
      PROVE  WriterShape'
  BY Zenon, <1>8, SendAssumption
  DEF StreamClose, SendTypeOK, WriterShape, connVars, writerVars, envVars, ledger, Outside
<1>9. ASSUME NEW s \in Streams, StreamCloseWake(s)
      PROVE  WriterShape'
  BY Zenon, <1>9, SendAssumption
  DEF StreamCloseWake, SendTypeOK, WriterShape, connVars, writerVars, envVars, ledger,
      FcBroadcast, AfterBroadcast
<1>10. ASSUME NEW s \in Streams, Overflow(s)
      PROVE  WriterShape'
  BY Zenon, <1>10, SendAssumption
  DEF Overflow, SendTypeOK, WriterShape, connVars, writerVars, envVars, ledger, Outside,
      ReaderReads
<1>11. ASSUME NEW s \in Streams, BackgroundRST(s)
      PROVE  WriterShape'
  BY Zenon, <1>11, SendAssumption
  DEF BackgroundRST, SendTypeOK, WriterShape, connVars, writerVars, envVars, ledger
<1>12. ASSUME NEW inc \in Increments, OnConnWindowUpdate(inc)
      PROVE  WriterShape'
  BY <1>12, SendAssumption
  DEF OnConnWindowUpdate, SendTypeOK, WriterShape, connVars, writerVars, envVars, ledger,
      FcBroadcast, AfterBroadcast, Outside, ReaderReads
<1>13. ASSUME NEW s \in Streams, NEW inc \in Increments, OnStreamWindowUpdate(s, inc)
      PROVE  WriterShape'
  BY <1>13, SendAssumption
  DEF OnStreamWindowUpdate, SendTypeOK, WriterShape, connVars, writerVars, envVars, ledger,
      Outside, ReaderReads
<1>14. ASSUME NEW victims \in SUBSET open, OnReset(victims)
      PROVE  WriterShape'
  BY Zenon, <1>14, SendAssumption
  DEF OnReset, SendTypeOK, WriterShape, connVars, writerVars, envVars, ledger, Outside,
      ReaderReads
<1>15. ASSUME NEW v \in Initials, NEW applied \in SUBSET open, ApplyPeerSettings(v, applied)
      PROVE  WriterShape'
  BY Zenon, <1>15, SendAssumption
  DEF ApplyPeerSettings, SendTypeOK, WriterShape, connVars, writerVars, envVars, ledger,
      Outside, ReaderReads
<1>16. CASE ReaderWake
  BY Zenon, <1>16, SendAssumption
  DEF ReaderWake, SendTypeOK, WriterShape, connVars, writerVars, envVars, ledger,
      FcBroadcast, AfterBroadcast
<1>17. CASE SettingsWake
  BY Zenon, <1>17, SendAssumption
  DEF SettingsWake, SendTypeOK, WriterShape, connVars, writerVars, envVars, ledger,
      FcBroadcast, AfterBroadcast
<1>18. CASE SettingsAck
  BY Zenon, <1>18, SendAssumption
  DEF SettingsAck, SendTypeOK, WriterShape, connVars, writerVars, envVars, ledger
<1>19. CASE ReaderFails
  BY Zenon, <1>19, SendAssumption
  DEF ReaderFails, SendTypeOK, WriterShape, connVars, writerVars, envVars, ledger, Outside,
      ReaderReads
<1>20. CASE ReaderExit
  BY Zenon, <1>20, SendAssumption
  DEF ReaderExit, SendTypeOK, WriterShape, connVars, writerVars, envVars, ledger,
      FcBroadcast, AfterBroadcast
<1>21. CASE ConnClose
  BY Zenon, <1>21, SendAssumption
  DEF ConnClose, SendTypeOK, WriterShape, connVars, writerVars, envVars, ledger, Outside
<1>22. CASE ConnCloseWake
  BY Zenon, <1>22, SendAssumption
  DEF ConnCloseWake, SendTypeOK, WriterShape, connVars, writerVars, envVars, ledger,
      FcBroadcast, AfterBroadcast
<1>23. CASE UNCHANGED sendVars
  BY Zenon, <1>23 DEF SendTypeOK, WriterShape, sendVars, connVars, writerVars, envVars, ledger
<1> QED
  BY Zenon, <1>1, <1>2, <1>3, <1>4, <1>5, <1>6, <1>7, <1>8, <1>9, <1>10, <1>11, <1>12,
     <1>13, <1>14, <1>15, <1>16, <1>17, <1>18, <1>19, <1>20, <1>21, <1>22, <1>23 DEF SendNext

LEMMA DebitedNat ==
  ASSUME SendTypeOK PROVE \A s \in Streams : Debited(s) \in Nat
  BY SendAssumption DEF SendTypeOK, Debited

LEMMA BalanceInt ==
  ASSUME SendTypeOK PROVE \A s \in Streams : Balance(s) \in Int
<1> SUFFICES ASSUME NEW s \in Streams PROVE Balance(s) \in Int
  BY Zenon
<1>1. Debited(s) \in Nat /\ credit[s] \in Nat
  BY Zenon, DebitedNat DEF SendTypeOK
<1> QED
  BY <1>1 DEF Balance

\* A step that moves no window, debits nothing and reads no window.
LEMMA QuietAccounts ==
  ASSUME SendTypeOK, Accounts, open' \subseteq open, UNCHANGED <<initial, win, credit>>,
         \A t \in Streams : Debited(t)' = Debited(t),
         \A t \in Streams : wpc'[t] = "decide" => wpc[t] = "decide" /\ seen'[t] = seen[t],
         reader \in {"dying", "exited"} => reader' \in {"dying", "exited"}
  PROVE  Accounts'
<1>1. \A t \in Streams : Balance(t)' = Balance(t)
  BY Zenon DEF Balance
<1> QED
  BY <1>1 DEF Accounts, SendTypeOK

LEMMA SendNextAccounts ==
  ASSUME SendTypeOK, WriterShape, Accounts, SendNext \/ UNCHANGED sendVars PROVE Accounts'
<1>1. ASSUME NEW s \in Streams, SendHeadersFirst(s)
      PROVE  Accounts'
  <2>1. /\ UNCHANGED <<initial, spent, grant, credit, seen, reader>>
        /\ wpc[s] = "idle" /\ \A t \in Streams : wpc'[t] = "decide" => wpc[t] = "decide"
        /\ \/ open' = open /\ win' = win
           \/ open' = open \cup {s} /\ win' = [win EXCEPT ![s] = initial]
    BY <1>1 DEF SendHeadersFirst, AssignStreamID, AfterWrite, SendTypeOK, envVars, ledger
  <2>2. Debited(s) = 0 /\ credit[s] = 0 /\ wpc'[s] # "decide" /\ Balance(s) = 0
    BY <2>1 DEF WriterShape, Debited, Balance
  <2>3. \A t \in Streams : Debited(t)' = Debited(t) /\ Balance(t)' = Balance(t)
    BY Zenon, <2>1 DEF Debited, Balance
  <2> HIDE DEF Debited, Balance
  <2> QED
    BY <2>1, <2>2, <2>3, BalanceInt, SendAssumption DEF Accounts, SendTypeOK
<1>2. ASSUME NEW s \in Streams, SendHeadersAndData(s)
      PROVE  Accounts'
  <2>1. /\ UNCHANGED <<initial, grant, credit, seen, reader>>
        /\ wpc[s] = "idle" /\ \A t \in Streams : wpc'[t] = "decide" => wpc[t] = "decide"
        /\ \/ open' = open /\ win' = win /\ spent' = spent
           \/ open' = open \cup {s} /\ win' = [win EXCEPT ![s] = initial] /\ spent' = spent
           \/ /\ open' = open \cup {s} /\ win' = [win EXCEPT ![s] = initial - FusedCost]
              /\ spent' = [spent EXCEPT ![s] = FusedCost] /\ initial >= FusedCost
    BY Zenon, <1>2 DEF SendHeadersAndData, AssignStreamID, AfterWrite, SendTypeOK, envVars
  <2>2. grant[s] = 0 /\ Debited(s) = 0 /\ credit[s] = 0 /\ wpc'[s] # "decide" /\ Balance(s) = 0
    BY <2>1 DEF WriterShape, Debited, Balance
  <2>3. \A t \in Streams : t # s \/ spent' = spent => Balance(t)' = Balance(t)
    BY Zenon, <2>1 DEF Debited, Balance, SendTypeOK
  <2>4. spent'[s] = FusedCost => Balance(s)' = -FusedCost
    BY <2>1, <2>2, FusedCostNat DEF Debited, Balance
  <2> HIDE DEF Debited, Balance
  <2> QED
    BY <2>1, <2>2, <2>3, <2>4, BalanceInt, FusedCostNat, SendAssumption DEF Accounts, SendTypeOK
<1>3. ASSUME NEW s \in Streams, Look(s)
      PROVE  Accounts'
  <2>1. /\ UNCHANGED <<initial, win, open, spent, grant, credit, reader>>
        /\ \A t \in Streams : t # s => wpc'[t] = wpc[t] /\ seen'[t] = seen[t]
        /\ wpc'[s] = "decide" => seen'[s] = win[s]
    BY Zenon, <1>3 DEF Look, connVars, envVars, ledger, SendTypeOK
  <2>2. \A t \in Streams : Balance(t)' = Balance(t)
    BY Zenon, <2>1 DEF Debited, Balance
  <2> HIDE DEF Debited, Balance
  <2> QED
    BY <2>1, <2>2, BalanceInt, SendAssumption DEF Accounts, SendTypeOK
<1>4. ASSUME NEW s \in Streams, Decide(s)
      PROVE  Accounts'
  <2> DEFINE avail == Least(seen[s], connWin)
             n == Least(Least(rem[s], FrameSize), avail - PadOverhead)
  <2>1. /\ UNCHANGED <<initial, open, spent, credit, reader>> /\ wpc[s] = "decide"
        /\ wpc'[s] # "decide" /\ seen' = [seen EXCEPT ![s] = 0]
        /\ \A t \in Streams : t # s => wpc'[t] = wpc[t]
        /\ \/ win' = win /\ grant' = grant
           \/ /\ HasCredit(avail) /\ win' = [win EXCEPT ![s] = win[s] - FrameCost(n)]
              /\ grant' = [grant EXCEPT ![s] = n]
    BY Zenon, <1>4 DEF Decide, envVars, ledger, SendTypeOK
  <2>2. grant[s] = 0 /\ rem[s] > 0
    BY Zenon, <2>1 DEF WriterShape
  <2>3. CASE win' = win /\ grant' = grant
    <3>1. \A t \in Streams : Balance(t)' = Balance(t)
      BY Zenon, <2>1, <2>3 DEF Debited, Balance
    <3> HIDE DEF Debited, Balance
    <3> QED
      BY <2>1, <2>3, <3>1, BalanceInt, SendAssumption DEF Accounts, SendTypeOK
  <2>4. CASE /\ HasCredit(avail) /\ win' = [win EXCEPT ![s] = win[s] - FrameCost(n)]
             /\ grant' = [grant EXCEPT ![s] = n]
    <3>1. n \in Nat /\ n > 0 /\ FrameCost(n) = n + PadOverhead /\ FrameCost(n) <= seen[s]
      BY <2>2, <2>4, SendAssumption DEF SendTypeOK, HasCredit, FrameCost, Least
    <3> HIDE DEF n
    <3>2. Balance(s)' = Balance(s) - FrameCost(n)
      BY <2>1, <2>2, <2>4, <3>1, SendAssumption DEF Debited, Balance, SendTypeOK
    <3>3. \A t \in Streams : t # s => Balance(t)' = Balance(t) /\ win'[t] = win[t]
      BY Zenon, <2>1, <2>4 DEF Debited, Balance, SendTypeOK
    <3>4. win'[s] = win[s] - FrameCost(n)
      BY Zenon, <2>4 DEF SendTypeOK
    <3> HIDE DEF Debited, Balance
    <3> QED
      BY <2>1, <3>1, <3>2, <3>3, <3>4, BalanceInt, SendAssumption DEF Accounts, SendTypeOK
  <2> QED
    BY Zenon, <2>1, <2>3, <2>4
<1>5. ASSUME NEW s \in Streams, WriteFrame(s)
      PROVE  Accounts'
  <2>1. /\ open' \subseteq open /\ UNCHANGED <<initial, win, credit>>
        /\ \A t \in Streams : wpc'[t] = "decide" => wpc[t] = "decide" /\ seen'[t] = seen[t]
        /\ reader \in {"dying", "exited"} => reader' \in {"dying", "exited"}
    BY <1>5
    DEF WriteFrame, connVars, writerVars, envVars, ledger, SendTypeOK, AfterWrite,
        WriterShape
  <2>2. \A t \in Streams : Debited(t)' = Debited(t)
    BY <1>5, SendAssumption
    DEF WriteFrame, connVars, writerVars, envVars, ledger, Debited, SendTypeOK, AfterWrite,
        WriterShape
  <2> QED
    BY Zenon, <2>1, <2>2, QuietAccounts
<1>6. ASSUME NEW s \in Streams, Cancel(s)
      PROVE  Accounts'
  <2>1. /\ open' \subseteq open /\ UNCHANGED <<initial, win, credit>>
        /\ \A t \in Streams : wpc'[t] = "decide" => wpc[t] = "decide" /\ seen'[t] = seen[t]
        /\ reader \in {"dying", "exited"} => reader' \in {"dying", "exited"}
    BY Zenon, <1>6 DEF Cancel, connVars, writerVars, envVars, ledger, SendTypeOK
  <2>2. \A t \in Streams : Debited(t)' = Debited(t)
    BY Zenon, <1>6 DEF Cancel, connVars, writerVars, envVars, ledger, Debited, SendTypeOK
  <2> QED
    BY Zenon, <2>1, <2>2, QuietAccounts
<1>7. ASSUME NEW s \in Streams, CancelWake(s)
      PROVE  Accounts'
  <2>1. /\ open' \subseteq open /\ UNCHANGED <<initial, win, credit>>
        /\ \A t \in Streams : wpc'[t] = "decide" => wpc[t] = "decide" /\ seen'[t] = seen[t]
        /\ reader \in {"dying", "exited"} => reader' \in {"dying", "exited"}
    BY Zenon, <1>7
    DEF CancelWake, connVars, writerVars, envVars, ledger, SendTypeOK, FcBroadcast,
        AfterBroadcast
  <2>2. \A t \in Streams : Debited(t)' = Debited(t)
    BY Zenon, <1>7
    DEF CancelWake, connVars, writerVars, envVars, ledger, Debited, SendTypeOK,
        FcBroadcast, AfterBroadcast
  <2> QED
    BY Zenon, <2>1, <2>2, QuietAccounts
<1>8. ASSUME NEW s \in Streams, StreamClose(s)
      PROVE  Accounts'
  <2>1. /\ open' \subseteq open /\ UNCHANGED <<initial, win, credit>>
        /\ \A t \in Streams : wpc'[t] = "decide" => wpc[t] = "decide" /\ seen'[t] = seen[t]
        /\ reader \in {"dying", "exited"} => reader' \in {"dying", "exited"}
    BY Zenon, <1>8 DEF StreamClose, connVars, writerVars, envVars, ledger, SendTypeOK
  <2>2. \A t \in Streams : Debited(t)' = Debited(t)
    BY Zenon, <1>8 DEF StreamClose, connVars, writerVars, envVars, ledger, Debited, SendTypeOK
  <2> QED
    BY Zenon, <2>1, <2>2, QuietAccounts
<1>9. ASSUME NEW s \in Streams, StreamCloseWake(s)
      PROVE  Accounts'
  <2>1. /\ open' \subseteq open /\ UNCHANGED <<initial, win, credit>>
        /\ \A t \in Streams : wpc'[t] = "decide" => wpc[t] = "decide" /\ seen'[t] = seen[t]
        /\ reader \in {"dying", "exited"} => reader' \in {"dying", "exited"}
    BY Zenon, <1>9
    DEF StreamCloseWake, connVars, writerVars, envVars, ledger, SendTypeOK, FcBroadcast,
        AfterBroadcast
  <2>2. \A t \in Streams : Debited(t)' = Debited(t)
    BY Zenon, <1>9
    DEF StreamCloseWake, connVars, writerVars, envVars, ledger, Debited, SendTypeOK,
        FcBroadcast, AfterBroadcast
  <2> QED
    BY Zenon, <2>1, <2>2, QuietAccounts
<1>10. ASSUME NEW s \in Streams, Overflow(s)
      PROVE  Accounts'
  <2>1. /\ open' \subseteq open /\ UNCHANGED <<initial, win, credit>>
        /\ \A t \in Streams : wpc'[t] = "decide" => wpc[t] = "decide" /\ seen'[t] = seen[t]
        /\ reader \in {"dying", "exited"} => reader' \in {"dying", "exited"}
    BY Zenon, <1>10 DEF Overflow, connVars, writerVars, envVars, ledger, SendTypeOK, ReaderReads
  <2>2. \A t \in Streams : Debited(t)' = Debited(t)
    BY Zenon, <1>10
    DEF Overflow, connVars, writerVars, envVars, ledger, Debited, SendTypeOK, ReaderReads
  <2> QED
    BY Zenon, <2>1, <2>2, QuietAccounts
<1>11. ASSUME NEW s \in Streams, BackgroundRST(s)
      PROVE  Accounts'
  <2>1. /\ open' \subseteq open /\ UNCHANGED <<initial, win, credit>>
        /\ \A t \in Streams : wpc'[t] = "decide" => wpc[t] = "decide" /\ seen'[t] = seen[t]
        /\ reader \in {"dying", "exited"} => reader' \in {"dying", "exited"}
    BY Zenon, <1>11 DEF BackgroundRST, connVars, writerVars, envVars, ledger, SendTypeOK
  <2>2. \A t \in Streams : Debited(t)' = Debited(t)
    BY Zenon, <1>11 DEF BackgroundRST, connVars, writerVars, envVars, ledger, Debited, SendTypeOK
  <2> QED
    BY Zenon, <2>1, <2>2, QuietAccounts
<1>12. ASSUME NEW inc \in Increments, OnConnWindowUpdate(inc)
      PROVE  Accounts'
  <2>1. /\ open' \subseteq open /\ UNCHANGED <<initial, win, credit>>
        /\ \A t \in Streams : wpc'[t] = "decide" => wpc[t] = "decide" /\ seen'[t] = seen[t]
        /\ reader \in {"dying", "exited"} => reader' \in {"dying", "exited"}
    BY Zenon, <1>12
    DEF OnConnWindowUpdate, connVars, writerVars, envVars, ledger, SendTypeOK, FcBroadcast,
        AfterBroadcast, ReaderReads
  <2>2. \A t \in Streams : Debited(t)' = Debited(t)
    BY Zenon, <1>12
    DEF OnConnWindowUpdate, connVars, writerVars, envVars, ledger, Debited, SendTypeOK,
        FcBroadcast, AfterBroadcast, ReaderReads
  <2> QED
    BY Zenon, <2>1, <2>2, QuietAccounts
<1>13. ASSUME NEW s \in Streams, NEW inc \in Increments, OnStreamWindowUpdate(s, inc)
      PROVE  Accounts'
  <2>1. /\ UNCHANGED <<initial, wpc, seen, spent, grant>>
        /\ reader = "idle" /\ reader' = "wake" /\ inc \in Nat
    BY Zenon, <1>13, SendAssumption DEF OnStreamWindowUpdate, ReaderReads, writerVars
  <2>2. CASE win' = win /\ credit' = credit /\ open' = open \ {s}
    <3>1. \A t \in Streams : Balance(t)' = Balance(t)
      BY Zenon, <2>1, <2>2 DEF Debited, Balance
    <3> HIDE DEF Debited, Balance
    <3> QED
      BY <2>1, <2>2, <3>1, BalanceInt, SendAssumption DEF Accounts, SendTypeOK
  <2>3. CASE /\ win[s] + inc <= MaxWindow /\ win' = [win EXCEPT ![s] = win[s] + inc]
             /\ credit' = [credit EXCEPT ![s] = credit[s] + inc] /\ open' = open
    <3>1. Balance(s)' = Balance(s) + inc /\ win'[s] = win[s] + inc
      BY <2>1, <2>3, DebitedNat DEF Debited, Balance, SendTypeOK
    <3>2. \A t \in Streams : t # s => Balance(t)' = Balance(t) /\ win'[t] = win[t]
      BY Zenon, <2>1, <2>3 DEF Debited, Balance, SendTypeOK
    <3> HIDE DEF Debited, Balance
    <3> QED
      BY <2>1, <2>3, <3>1, <3>2, BalanceInt, SendAssumption DEF Accounts, SendTypeOK
  <2> QED
    BY <1>13, <2>1, <2>2, <2>3, SendAssumption DEF OnStreamWindowUpdate, SendTypeOK
<1>14. ASSUME NEW victims \in SUBSET open, OnReset(victims)
      PROVE  Accounts'
  <2>1. /\ open' \subseteq open /\ UNCHANGED <<initial, win, credit>>
        /\ \A t \in Streams : wpc'[t] = "decide" => wpc[t] = "decide" /\ seen'[t] = seen[t]
        /\ reader \in {"dying", "exited"} => reader' \in {"dying", "exited"}
    BY Zenon, <1>14 DEF OnReset, connVars, writerVars, envVars, ledger, SendTypeOK, ReaderReads
  <2>2. \A t \in Streams : Debited(t)' = Debited(t)
    BY Zenon, <1>14
    DEF OnReset, connVars, writerVars, envVars, ledger, Debited, SendTypeOK, ReaderReads
  <2> QED
    BY Zenon, <2>1, <2>2, QuietAccounts
<1>15. ASSUME NEW v \in Initials, NEW applied \in SUBSET open, ApplyPeerSettings(v, applied)
      PROVE  Accounts'
  <2>1. /\ UNCHANGED <<open, wpc, seen, spent, grant, credit>> /\ reader = "idle"
    BY Zenon, <1>15 DEF ApplyPeerSettings, ReaderReads, writerVars, ledger
  <2>2. \A t \in Streams : Balance(t)' = Balance(t)
    BY Zenon, <2>1 DEF Debited, Balance
  <2>3. CASE win' = win /\ initial' = initial /\ reader' = "dying"
    <3> HIDE DEF Debited, Balance
    <3> QED
      BY Zenon, <2>1, <2>2, <2>3, BalanceInt DEF Accounts, SendTypeOK
  <2>4. CASE /\ v <= MaxWindow /\ initial' = v
             /\ win' = [t \in Streams |-> IF t \in applied THEN win[t] + (v - initial) ELSE win[t]]
             /\ reader' = IF OverLimit(v) # {} THEN "dying"
                          ELSE IF v # initial THEN "settled" ELSE "ack"
    <3>1. v \in 0..MaxWindow /\ applied \subseteq open \ OverLimit(v)
      BY <1>15, <2>4, SendAssumption DEF ApplyPeerSettings
    <3>2. reader' # "dying" => applied = open
      BY Zenon, <1>15, <2>4 DEF ApplyPeerSettings
    <3>3. \A t \in applied : win'[t] = win[t] + (v - initial) /\ win'[t] <= MaxWindow
      BY <2>4, <3>1, SendAssumption DEF OverLimit, SendTypeOK
    <3>4. \A t \in open : t \notin applied => win'[t] = win[t]
      BY Zenon, <2>4 DEF SendTypeOK
    <3>5. \A t \in open : win[t] = initial + Balance(t)
      BY Zenon, <2>1 DEF Accounts
    <3> HIDE DEF Debited, Balance
    <3>6. ASSUME NEW t \in open
          PROVE  /\ Balance(t) >= -MaxWindow /\ win'[t] <= MaxWindow
                 /\ win'[t] - Balance(t) \in 0..MaxWindow
                 /\ wpc[t] = "decide" => seen[t] <= MaxWindow + Balance(t)
                 /\ reader' \notin {"dying", "exited"} => win'[t] = v + Balance(t)
      <4>1. Balance(t) \in Int /\ win[t] \in Int /\ initial \in 0..MaxWindow /\ MaxWindow \in Nat
        BY Zenon, BalanceInt, SendAssumption DEF SendTypeOK
      <4> QED
        BY <3>1, <3>2, <3>3, <3>4, <3>5, <4>1 DEF Accounts
    <3>7. \A t \in open : Balance(t)' = Balance(t)
      BY Zenon, <2>2 DEF SendTypeOK
    <3>8. initial' = v /\ open' = open /\ wpc' = wpc /\ seen' = seen
      BY Zenon, <2>1, <2>4
    <3> QED
      BY Zenon, <3>6, <3>7, <3>8 DEF Accounts
  <2> QED
    BY <1>15, <2>3, <2>4, SendAssumption DEF ApplyPeerSettings
<1>16. CASE ReaderWake
  <2>1. /\ open' \subseteq open /\ UNCHANGED <<initial, win, credit>>
        /\ \A t \in Streams : wpc'[t] = "decide" => wpc[t] = "decide" /\ seen'[t] = seen[t]
        /\ reader \in {"dying", "exited"} => reader' \in {"dying", "exited"}
    BY Zenon, <1>16
    DEF ReaderWake, connVars, writerVars, envVars, ledger, SendTypeOK, FcBroadcast,
        AfterBroadcast
  <2>2. \A t \in Streams : Debited(t)' = Debited(t)
    BY Zenon, <1>16
    DEF ReaderWake, connVars, writerVars, envVars, ledger, Debited, SendTypeOK,
        FcBroadcast, AfterBroadcast
  <2> QED
    BY Zenon, <2>1, <2>2, QuietAccounts
<1>17. CASE SettingsWake
  <2>1. /\ open' \subseteq open /\ UNCHANGED <<initial, win, credit>>
        /\ \A t \in Streams : wpc'[t] = "decide" => wpc[t] = "decide" /\ seen'[t] = seen[t]
        /\ reader \in {"dying", "exited"} => reader' \in {"dying", "exited"}
    BY Zenon, <1>17
    DEF SettingsWake, connVars, writerVars, envVars, ledger, SendTypeOK, FcBroadcast,
        AfterBroadcast
  <2>2. \A t \in Streams : Debited(t)' = Debited(t)
    BY Zenon, <1>17
    DEF SettingsWake, connVars, writerVars, envVars, ledger, Debited, SendTypeOK,
        FcBroadcast, AfterBroadcast
  <2> QED
    BY Zenon, <2>1, <2>2, QuietAccounts
<1>18. CASE SettingsAck
  <2>1. /\ open' \subseteq open /\ UNCHANGED <<initial, win, credit>>
        /\ \A t \in Streams : wpc'[t] = "decide" => wpc[t] = "decide" /\ seen'[t] = seen[t]
        /\ reader \in {"dying", "exited"} => reader' \in {"dying", "exited"}
    BY Zenon, <1>18 DEF SettingsAck, connVars, writerVars, envVars, ledger, SendTypeOK
  <2>2. \A t \in Streams : Debited(t)' = Debited(t)
    BY Zenon, <1>18 DEF SettingsAck, connVars, writerVars, envVars, ledger, Debited, SendTypeOK
  <2> QED
    BY Zenon, <2>1, <2>2, QuietAccounts
<1>19. CASE ReaderFails
  <2>1. /\ open' \subseteq open /\ UNCHANGED <<initial, win, credit>>
        /\ \A t \in Streams : wpc'[t] = "decide" => wpc[t] = "decide" /\ seen'[t] = seen[t]
        /\ reader \in {"dying", "exited"} => reader' \in {"dying", "exited"}
    BY Zenon, <1>19 DEF ReaderFails, connVars, writerVars, envVars, ledger, SendTypeOK, ReaderReads
  <2>2. \A t \in Streams : Debited(t)' = Debited(t)
    BY Zenon, <1>19
    DEF ReaderFails, connVars, writerVars, envVars, ledger, Debited, SendTypeOK,
        ReaderReads
  <2> QED
    BY Zenon, <2>1, <2>2, QuietAccounts
<1>20. CASE ReaderExit
  <2>1. /\ open' \subseteq open /\ UNCHANGED <<initial, win, credit>>
        /\ \A t \in Streams : wpc'[t] = "decide" => wpc[t] = "decide" /\ seen'[t] = seen[t]
        /\ reader \in {"dying", "exited"} => reader' \in {"dying", "exited"}
    BY Zenon, <1>20
    DEF ReaderExit, connVars, writerVars, envVars, ledger, SendTypeOK, FcBroadcast,
        AfterBroadcast
  <2>2. \A t \in Streams : Debited(t)' = Debited(t)
    BY Zenon, <1>20
    DEF ReaderExit, connVars, writerVars, envVars, ledger, Debited, SendTypeOK,
        FcBroadcast, AfterBroadcast
  <2> QED
    BY Zenon, <2>1, <2>2, QuietAccounts
<1>21. CASE ConnClose
  <2>1. /\ open' \subseteq open /\ UNCHANGED <<initial, win, credit>>
        /\ \A t \in Streams : wpc'[t] = "decide" => wpc[t] = "decide" /\ seen'[t] = seen[t]
        /\ reader \in {"dying", "exited"} => reader' \in {"dying", "exited"}
    BY Zenon, <1>21 DEF ConnClose, connVars, writerVars, envVars, ledger, SendTypeOK
  <2>2. \A t \in Streams : Debited(t)' = Debited(t)
    BY Zenon, <1>21 DEF ConnClose, connVars, writerVars, envVars, ledger, Debited, SendTypeOK
  <2> QED
    BY Zenon, <2>1, <2>2, QuietAccounts
<1>22. CASE ConnCloseWake
  <2>1. /\ open' \subseteq open /\ UNCHANGED <<initial, win, credit>>
        /\ \A t \in Streams : wpc'[t] = "decide" => wpc[t] = "decide" /\ seen'[t] = seen[t]
        /\ reader \in {"dying", "exited"} => reader' \in {"dying", "exited"}
    BY Zenon, <1>22
    DEF ConnCloseWake, connVars, writerVars, envVars, ledger, SendTypeOK, FcBroadcast,
        AfterBroadcast
  <2>2. \A t \in Streams : Debited(t)' = Debited(t)
    BY Zenon, <1>22
    DEF ConnCloseWake, connVars, writerVars, envVars, ledger, Debited, SendTypeOK,
        FcBroadcast, AfterBroadcast
  <2> QED
    BY Zenon, <2>1, <2>2, QuietAccounts
<1>23. CASE UNCHANGED sendVars
  <2>1. /\ open' \subseteq open /\ UNCHANGED <<initial, win, credit>>
        /\ \A t \in Streams : wpc'[t] = "decide" => wpc[t] = "decide" /\ seen'[t] = seen[t]
        /\ reader \in {"dying", "exited"} => reader' \in {"dying", "exited"}
    BY Zenon, <1>23 DEF sendVars, connVars, writerVars, envVars, ledger
  <2>2. \A t \in Streams : Debited(t)' = Debited(t)
    BY Zenon, <1>23 DEF sendVars, connVars, writerVars, envVars, ledger, Debited
  <2> QED
    BY Zenon, <2>1, <2>2, QuietAccounts
<1> QED
  BY Zenon, <1>1, <1>2, <1>3, <1>4, <1>5, <1>6, <1>7, <1>8, <1>9, <1>10, <1>11, <1>12,
     <1>13, <1>14, <1>15, <1>16, <1>17, <1>18, <1>19, <1>20, <1>21, <1>22, <1>23 DEF SendNext

Tagged(x, a, k) == {x} \X ((a + 1)..(a + k))

LEMMA TaggedInterval ==
  ASSUME NEW x, NEW a \in Nat, NEW k \in Nat
  PROVE  IsFiniteSet(Tagged(x, a, k)) /\ Cardinality(Tagged(x, a, k)) = k
<1> DEFINE lo == a + 1
           hi == a + k
           I == lo..hi
<1>1. lo \in Int /\ hi \in Int /\ (IF lo > hi THEN 0 ELSE hi - lo + 1) = k
  OBVIOUS
<1> HIDE DEF lo, hi
<1>2. IsFiniteSet(I) /\ Cardinality(I) = IF lo > hi THEN 0 ELSE hi - lo + 1
  BY Zenon, <1>1, FS_Interval
<1>3. IsFiniteSet(I) /\ Cardinality(I) = k
  BY Zenon, <1>1, <1>2
<1>4. IsFiniteSet({x}) /\ Cardinality({x}) = 1
  BY Zenon, FS_Singleton
<1> HIDE DEF I
<1>5. IsFiniteSet({x} \X I) /\ Cardinality({x} \X I) = 1 * k
  <2>1. /\ IsFiniteSet({x} \X I)
        /\ Cardinality({x} \X I) = Cardinality({x}) * Cardinality(I)
    BY Zenon, <1>3, <1>4, FS_Product
  <2> QED
    BY Zenon, <1>3, <1>4, <2>1
<1>6. 1 * k = k
  OBVIOUS
<1>7. Tagged(x, a, k) = {x} \X I
  BY Zenon DEF I, lo, hi, Tagged
<1> QED
  BY <1>5, <1>6, <1>7, Zenon

\* A step that debits k bytes for one stream adds k to the bytes debited.
LEMMA TakeBytes ==
  ASSUME SendTypeOK, IsFiniteSet(DebitedBytes), NEW s \in Streams, NEW k \in Nat,
         Debited(s)' = Debited(s) + k,
         \A t \in Streams : t # s => Debited(t)' = Debited(t)
  PROVE  /\ IsFiniteSet(DebitedBytes')
         /\ Cardinality(DebitedBytes') = Cardinality(DebitedBytes) + k
<1> DEFINE d == Debited(s)
           more == Tagged(s, d, k)
<1>1. d \in Nat /\ \A t \in Streams : Debited(t) \in Nat
  BY Zenon, DebitedNat
<1>2. IsFiniteSet(more) /\ Cardinality(more) = k
  <2> HIDE DEF d
  <2> QED
    BY Zenon, <1>1, TaggedInterval
<1>3. DebitedBytes = {p \in Streams \X Nat : p[2] \in 1..Debited(p[1])}
  BY <1>1 DEF DebitedBytes
<1>4. DebitedBytes' = {p \in Streams \X Nat : p[2] \in 1..(IF p[1] = s THEN d + k ELSE Debited(p[1]))}
  <2>1. DebitedBytes' = UNION {{t} \X (1..(IF t = s THEN d + k ELSE Debited(t))) : t \in Streams}
    BY Zenon DEF DebitedBytes
  <2> HIDE DEF d
  <2> QED
    BY <1>1, <2>1
<1> HIDE DEF d
<1>5. DebitedBytes' = DebitedBytes \cup more
  <2>1. \A t \in Streams, i \in Nat :
          i \in 1..(IF t = s THEN d + k ELSE Debited(t))
            <=> i \in 1..Debited(t) \/ (t = s /\ i \in (d + 1)..(d + k))
    BY <1>1 DEF d
  <2>2. \A i \in (d + 1)..(d + k) : i \in Nat
    BY <1>1
  <2> QED
    BY Zenon, <1>3, <1>4, <2>1, <2>2 DEF Tagged
<1>6. DebitedBytes \cap more = {}
  <2>1. \A i \in (d + 1)..(d + k) : i \notin 1..d
    BY <1>1
  <2> QED
    BY Zenon, <1>3, <2>1 DEF d, Tagged
<1>7. Cardinality(DebitedBytes \cap more) = 0 /\ Cardinality(DebitedBytes) \in Nat
  BY Zenon, <1>6, FS_EmptySet, FS_CardinalityType
<1> HIDE DEF more
<1> QED
  BY <1>2, <1>5, <1>7, FS_Union

LEMMA ConnTakes ==
  ASSUME SendTypeOK, ConnAccount, NEW s \in Streams, NEW k \in Nat, k <= connWin,
         connWin' = connWin - k, UNCHANGED connCredit,
         Debited(s)' = Debited(s) + k,
         \A t \in Streams : t # s => Debited(t)' = Debited(t)
  PROVE  ConnAccount'
<1>1. /\ IsFiniteSet(DebitedBytes')
      /\ Cardinality(DebitedBytes') = Cardinality(DebitedBytes) + k
  BY Zenon, TakeBytes DEF ConnAccount
<1>2. Cardinality(DebitedBytes) \in Nat
  BY Zenon, FS_CardinalityType DEF ConnAccount
<1> QED
  BY <1>1, <1>2, SendAssumption DEF ConnAccount, SendTypeOK

LEMMA QuietConn ==
  ASSUME ConnAccount, UNCHANGED <<connWin, connCredit>>,
         \A t \in Streams : Debited(t)' = Debited(t)
  PROVE  ConnAccount'
<1>1. DebitedBytes' = DebitedBytes
  BY Zenon DEF DebitedBytes
<1> QED
  BY Zenon, <1>1 DEF ConnAccount

LEMMA SendNextConn ==
  ASSUME SendTypeOK, WriterShape, ConnAccount, SendNext \/ UNCHANGED sendVars PROVE ConnAccount'
<1>1. ASSUME NEW s \in Streams, SendHeadersFirst(s)
      PROVE  ConnAccount'
  <2>1. UNCHANGED <<connWin, connCredit>>
    BY Zenon, <1>1 DEF SendHeadersFirst, connVars, writerVars, envVars, ledger
  <2>2. \A t \in Streams : Debited(t)' = Debited(t)
    BY Zenon, <1>1 DEF SendHeadersFirst, connVars, writerVars, envVars, ledger, Debited
  <2> QED
    BY Zenon, <2>1, <2>2, QuietConn
<1>2. ASSUME NEW s \in Streams, SendHeadersAndData(s)
      PROVE  ConnAccount'
  <2>1. /\ UNCHANGED <<grant, credit, connCredit>> /\ wpc[s] = "idle"
        /\ \/ connWin' = connWin /\ spent' = spent
           \/ /\ connWin' = connWin - FusedCost /\ connWin >= FusedCost
              /\ spent' = [spent EXCEPT ![s] = FusedCost]
    BY Zenon, <1>2 DEF SendHeadersAndData
  <2>2. grant[s] = 0 /\ spent[s] = 0
    BY Zenon, <2>1 DEF WriterShape
  <2>3. CASE connWin' = connWin /\ spent' = spent
    <3>1. \A t \in Streams : Debited(t)' = Debited(t)
      BY Zenon, <2>1, <2>3 DEF Debited
    <3> QED
      BY Zenon, <2>1, <2>3, <3>1, QuietConn
  <2>4. CASE /\ connWin' = connWin - FusedCost /\ connWin >= FusedCost
             /\ spent' = [spent EXCEPT ![s] = FusedCost]
    <3>1. Debited(s)' = Debited(s) + FusedCost
      BY <2>1, <2>2, <2>4, FusedCostNat DEF Debited, SendTypeOK
    <3>2. \A t \in Streams : t # s => Debited(t)' = Debited(t)
      BY Zenon, <2>1, <2>4 DEF Debited, SendTypeOK
    <3> QED
      BY Zenon, <2>1, <2>4, <3>1, <3>2, FusedCostNat, ConnTakes
  <2> QED
    BY Zenon, <2>1, <2>3, <2>4
<1>3. ASSUME NEW s \in Streams, Look(s)
      PROVE  ConnAccount'
  <2>1. UNCHANGED <<connWin, connCredit>>
    BY Zenon, <1>3 DEF Look, connVars, writerVars, envVars, ledger
  <2>2. \A t \in Streams : Debited(t)' = Debited(t)
    BY Zenon, <1>3 DEF Look, connVars, writerVars, envVars, ledger, Debited
  <2> QED
    BY Zenon, <2>1, <2>2, QuietConn
<1>4. ASSUME NEW s \in Streams, Decide(s)
      PROVE  ConnAccount'
  <2> DEFINE avail == Least(seen[s], connWin)
             n == Least(Least(rem[s], FrameSize), avail - PadOverhead)
  <2>1. /\ UNCHANGED <<spent, connCredit>> /\ wpc[s] = "decide"
        /\ \/ connWin' = connWin /\ grant' = grant
           \/ /\ HasCredit(avail) /\ connWin' = connWin - FrameCost(n)
              /\ grant' = [grant EXCEPT ![s] = n]
    BY Zenon, <1>4 DEF Decide, ledger
  <2>2. grant[s] = 0 /\ rem[s] > 0
    BY Zenon, <2>1 DEF WriterShape
  <2>3. CASE connWin' = connWin /\ grant' = grant
    <3>1. \A t \in Streams : Debited(t)' = Debited(t)
      BY Zenon, <2>1, <2>3 DEF Debited
    <3> QED
      BY Zenon, <2>1, <2>3, <3>1, QuietConn
  <2>4. CASE /\ HasCredit(avail) /\ connWin' = connWin - FrameCost(n)
             /\ grant' = [grant EXCEPT ![s] = n]
    <3>1. /\ n \in Nat /\ n > 0 /\ FrameCost(n) \in Nat /\ FrameCost(n) = n + PadOverhead
          /\ FrameCost(n) <= connWin
      BY <2>2, <2>4, SendAssumption DEF SendTypeOK, HasCredit, FrameCost, Least
    <3> HIDE DEF n
    <3>2. Debited(s)' = Debited(s) + FrameCost(n)
      BY <2>1, <2>2, <2>4, <3>1, SendAssumption DEF Debited, SendTypeOK
    <3>3. \A t \in Streams : t # s => Debited(t)' = Debited(t)
      BY Zenon, <2>1, <2>4 DEF Debited, SendTypeOK
    <3> QED
      BY Zenon, <2>1, <2>4, <3>1, <3>2, <3>3, ConnTakes
  <2> QED
    BY Zenon, <2>1, <2>3, <2>4
<1>5. ASSUME NEW s \in Streams, WriteFrame(s)
      PROVE  ConnAccount'
  <2>1. UNCHANGED <<connWin, connCredit>>
    BY Zenon, <1>5 DEF WriteFrame, connVars, writerVars, envVars, ledger
  <2>2. \A t \in Streams : Debited(t)' = Debited(t)
    BY <1>5, SendAssumption
    DEF WriteFrame, connVars, writerVars, envVars, ledger, Debited, SendTypeOK, WriterShape
  <2> QED
    BY Zenon, <2>1, <2>2, QuietConn
<1>6. ASSUME NEW s \in Streams, Cancel(s)
      PROVE  ConnAccount'
  <2>1. UNCHANGED <<connWin, connCredit>>
    BY Zenon, <1>6 DEF Cancel, connVars, writerVars, envVars, ledger
  <2>2. \A t \in Streams : Debited(t)' = Debited(t)
    BY Zenon, <1>6 DEF Cancel, connVars, writerVars, envVars, ledger, Debited
  <2> QED
    BY Zenon, <2>1, <2>2, QuietConn
<1>7. ASSUME NEW s \in Streams, CancelWake(s)
      PROVE  ConnAccount'
  <2>1. UNCHANGED <<connWin, connCredit>>
    BY Zenon, <1>7 DEF CancelWake, connVars, writerVars, envVars, ledger
  <2>2. \A t \in Streams : Debited(t)' = Debited(t)
    BY Zenon, <1>7 DEF CancelWake, connVars, writerVars, envVars, ledger, Debited
  <2> QED
    BY Zenon, <2>1, <2>2, QuietConn
<1>8. ASSUME NEW s \in Streams, StreamClose(s)
      PROVE  ConnAccount'
  <2>1. UNCHANGED <<connWin, connCredit>>
    BY Zenon, <1>8 DEF StreamClose, connVars, writerVars, envVars, ledger
  <2>2. \A t \in Streams : Debited(t)' = Debited(t)
    BY Zenon, <1>8 DEF StreamClose, connVars, writerVars, envVars, ledger, Debited
  <2> QED
    BY Zenon, <2>1, <2>2, QuietConn
<1>9. ASSUME NEW s \in Streams, StreamCloseWake(s)
      PROVE  ConnAccount'
  <2>1. UNCHANGED <<connWin, connCredit>>
    BY Zenon, <1>9 DEF StreamCloseWake, connVars, writerVars, envVars, ledger
  <2>2. \A t \in Streams : Debited(t)' = Debited(t)
    BY Zenon, <1>9 DEF StreamCloseWake, connVars, writerVars, envVars, ledger, Debited
  <2> QED
    BY Zenon, <2>1, <2>2, QuietConn
<1>10. ASSUME NEW s \in Streams, Overflow(s)
      PROVE  ConnAccount'
  <2>1. UNCHANGED <<connWin, connCredit>>
    BY Zenon, <1>10 DEF Overflow, connVars, writerVars, envVars, ledger
  <2>2. \A t \in Streams : Debited(t)' = Debited(t)
    BY Zenon, <1>10 DEF Overflow, connVars, writerVars, envVars, ledger, Debited
  <2> QED
    BY Zenon, <2>1, <2>2, QuietConn
<1>11. ASSUME NEW s \in Streams, BackgroundRST(s)
      PROVE  ConnAccount'
  <2>1. UNCHANGED <<connWin, connCredit>>
    BY Zenon, <1>11 DEF BackgroundRST, connVars, writerVars, envVars, ledger
  <2>2. \A t \in Streams : Debited(t)' = Debited(t)
    BY Zenon, <1>11 DEF BackgroundRST, connVars, writerVars, envVars, ledger, Debited
  <2> QED
    BY Zenon, <2>1, <2>2, QuietConn
<1>12. ASSUME NEW inc \in Increments, OnConnWindowUpdate(inc)
      PROVE  ConnAccount'
  <2>1. UNCHANGED <<spent, grant>> /\ inc \in Nat
    BY Zenon, <1>12, SendAssumption DEF OnConnWindowUpdate
  <2>2. \A t \in Streams : Debited(t)' = Debited(t)
    BY Zenon, <2>1 DEF Debited
  <2>3. DebitedBytes' = DebitedBytes
    BY <2>2, Zenon DEF DebitedBytes
  <2>4. \/ connWin' = connWin /\ connCredit' = connCredit
        \/ /\ connWin' = connWin + inc /\ connCredit' = connCredit + inc
           /\ ~(connWin + inc > MaxWindow)
    BY Zenon, <1>12 DEF OnConnWindowUpdate
  <2>5. Cardinality(DebitedBytes) \in Nat
    BY Zenon, FS_CardinalityType DEF ConnAccount
  <2> QED
    BY <2>1, <2>3, <2>4, <2>5, SendAssumption DEF ConnAccount, SendTypeOK
<1>13. ASSUME NEW s \in Streams, NEW inc \in Increments, OnStreamWindowUpdate(s, inc)
      PROVE  ConnAccount'
  <2>1. UNCHANGED <<connWin, connCredit>>
    BY Zenon, <1>13 DEF OnStreamWindowUpdate, connVars, writerVars, envVars, ledger
  <2>2. \A t \in Streams : Debited(t)' = Debited(t)
    BY Zenon, <1>13 DEF OnStreamWindowUpdate, connVars, writerVars, envVars, ledger, Debited
  <2> QED
    BY Zenon, <2>1, <2>2, QuietConn
<1>14. ASSUME NEW victims \in SUBSET open, OnReset(victims)
      PROVE  ConnAccount'
  <2>1. UNCHANGED <<connWin, connCredit>>
    BY Zenon, <1>14 DEF OnReset, connVars, writerVars, envVars, ledger
  <2>2. \A t \in Streams : Debited(t)' = Debited(t)
    BY Zenon, <1>14 DEF OnReset, connVars, writerVars, envVars, ledger, Debited
  <2> QED
    BY Zenon, <2>1, <2>2, QuietConn
<1>15. ASSUME NEW v \in Initials, NEW applied \in SUBSET open, ApplyPeerSettings(v, applied)
      PROVE  ConnAccount'
  <2>1. UNCHANGED <<connWin, connCredit>>
    BY Zenon, <1>15 DEF ApplyPeerSettings, connVars, writerVars, envVars, ledger
  <2>2. \A t \in Streams : Debited(t)' = Debited(t)
    BY Zenon, <1>15 DEF ApplyPeerSettings, connVars, writerVars, envVars, ledger, Debited
  <2> QED
    BY Zenon, <2>1, <2>2, QuietConn
<1>16. CASE ReaderWake
  <2>1. UNCHANGED <<connWin, connCredit>>
    BY Zenon, <1>16 DEF ReaderWake, connVars, writerVars, envVars, ledger
  <2>2. \A t \in Streams : Debited(t)' = Debited(t)
    BY Zenon, <1>16 DEF ReaderWake, connVars, writerVars, envVars, ledger, Debited
  <2> QED
    BY Zenon, <2>1, <2>2, QuietConn
<1>17. CASE SettingsWake
  <2>1. UNCHANGED <<connWin, connCredit>>
    BY Zenon, <1>17 DEF SettingsWake, connVars, writerVars, envVars, ledger
  <2>2. \A t \in Streams : Debited(t)' = Debited(t)
    BY Zenon, <1>17 DEF SettingsWake, connVars, writerVars, envVars, ledger, Debited
  <2> QED
    BY Zenon, <2>1, <2>2, QuietConn
<1>18. CASE SettingsAck
  <2>1. UNCHANGED <<connWin, connCredit>>
    BY Zenon, <1>18 DEF SettingsAck, connVars, writerVars, envVars, ledger
  <2>2. \A t \in Streams : Debited(t)' = Debited(t)
    BY Zenon, <1>18 DEF SettingsAck, connVars, writerVars, envVars, ledger, Debited
  <2> QED
    BY Zenon, <2>1, <2>2, QuietConn
<1>19. CASE ReaderFails
  <2>1. UNCHANGED <<connWin, connCredit>>
    BY Zenon, <1>19 DEF ReaderFails, connVars, writerVars, envVars, ledger
  <2>2. \A t \in Streams : Debited(t)' = Debited(t)
    BY Zenon, <1>19 DEF ReaderFails, connVars, writerVars, envVars, ledger, Debited
  <2> QED
    BY Zenon, <2>1, <2>2, QuietConn
<1>20. CASE ReaderExit
  <2>1. UNCHANGED <<connWin, connCredit>>
    BY Zenon, <1>20 DEF ReaderExit, connVars, writerVars, envVars, ledger
  <2>2. \A t \in Streams : Debited(t)' = Debited(t)
    BY Zenon, <1>20 DEF ReaderExit, connVars, writerVars, envVars, ledger, Debited
  <2> QED
    BY Zenon, <2>1, <2>2, QuietConn
<1>21. CASE ConnClose
  <2>1. UNCHANGED <<connWin, connCredit>>
    BY Zenon, <1>21 DEF ConnClose, connVars, writerVars, envVars, ledger
  <2>2. \A t \in Streams : Debited(t)' = Debited(t)
    BY Zenon, <1>21 DEF ConnClose, connVars, writerVars, envVars, ledger, Debited
  <2> QED
    BY Zenon, <2>1, <2>2, QuietConn
<1>22. CASE ConnCloseWake
  <2>1. UNCHANGED <<connWin, connCredit>>
    BY Zenon, <1>22 DEF ConnCloseWake, connVars, writerVars, envVars, ledger
  <2>2. \A t \in Streams : Debited(t)' = Debited(t)
    BY Zenon, <1>22 DEF ConnCloseWake, connVars, writerVars, envVars, ledger, Debited
  <2> QED
    BY Zenon, <2>1, <2>2, QuietConn
<1>23. CASE UNCHANGED sendVars
  <2>1. UNCHANGED <<connWin, connCredit>>
    BY Zenon, <1>23 DEF sendVars, connVars, writerVars, envVars, ledger
  <2>2. \A t \in Streams : Debited(t)' = Debited(t)
    BY Zenon, <1>23 DEF sendVars, connVars, writerVars, envVars, ledger, Debited
  <2> QED
    BY Zenon, <2>1, <2>2, QuietConn
<1> QED
  BY Zenon, <1>1, <1>2, <1>3, <1>4, <1>5, <1>6, <1>7, <1>8, <1>9, <1>10, <1>11, <1>12,
     <1>13, <1>14, <1>15, <1>16, <1>17, <1>18, <1>19, <1>20, <1>21, <1>22, <1>23 DEF SendNext

\* A broadcast needs fcOutMu, so it finds nobody between reading and deciding, and
\* it leaves nobody parked.
LEMMA BroadcastSettles ==
  ASSUME SendTypeOK, WriterShape, FcBroadcast
  PROVE  ParkedIsJustified' /\ DecideIsJustified'
<1>1. \A t \in Streams : wpc[t] # "decide"
  BY Zenon, SendAssumption DEF FcBroadcast, WriterShape
<1>2. \A t \in Streams : wpc'[t] \notin {"parked", "decide"}
  BY Zenon, <1>1 DEF FcBroadcast, AfterBroadcast
<1> QED
  BY Zenon, <1>2 DEF ParkedIsJustified, DecideIsJustified

LEMMA WakeToCome ==
  ASSUME WakePending' PROVE ParkedIsJustified' /\ DecideIsJustified'
  BY Zenon DEF ParkedIsJustified, DecideIsJustified

\* A step that gives no waiting writer a reason to go on.
LEMMA QuietWaits ==
  ASSUME SendTypeOK, ParkedIsJustified, DecideIsJustified, WakePending => WakePending',
         down' = down, gone' \ overflown' \subseteq gone \ overflown,
         connWin' \in Int, connWin' <= connWin,
         \A t \in Streams : /\ wpc'[t] = "parked" => wpc[t] = "parked"
                            /\ wpc'[t] = "decide" => wpc[t] = "decide" /\ seen'[t] = seen[t]
                            /\ wpc'[t] \in {"parked", "decide"} => win'[t] = win[t]
  PROVE  ParkedIsJustified' /\ DecideIsJustified'
<1>1. DecideIsJustified'
  BY Zenon DEF DecideIsJustified
<1>2. ASSUME NEW t \in Streams, wpc'[t] = "parked", MayProceed(t)'
      PROVE  WakePending'
  <2>1. wpc[t] = "parked" /\ win'[t] = win[t] /\ win[t] \in Int
    BY Zenon, <1>2 DEF SendTypeOK
  <2>2. Least(win'[t], connWin') > PadOverhead => Least(win[t], connWin) > PadOverhead
    BY <2>1, SendAssumption DEF Least, SendTypeOK
  <2>3. MayProceed(t)
    BY Zenon, <1>2, <2>2 DEF MayProceed
  <2> QED
    BY Zenon, <2>1, <2>3 DEF ParkedIsJustified
<1> QED
  BY Zenon, <1>1, <1>2 DEF ParkedIsJustified

LEMMA SendNextWaits ==
  ASSUME SendTypeOK, WriterShape, ParkedIsJustified, DecideIsJustified,
         SendNext \/ UNCHANGED sendVars
  PROVE  ParkedIsJustified' /\ DecideIsJustified'
<1>1. ASSUME NEW s \in Streams, SendHeadersFirst(s)
      PROVE  ParkedIsJustified' /\ DecideIsJustified'
  <2>1. /\ down' = down /\ gone' \ overflown' \subseteq gone \ overflown
        /\ connWin' \in Int /\ connWin' <= connWin
        /\ \A t \in Streams : /\ wpc'[t] = "parked" => wpc[t] = "parked"
                              /\ wpc'[t] = "decide" => wpc[t] = "decide" /\ seen'[t] = seen[t]
                              /\ wpc'[t] \in {"parked", "decide"} => win'[t] = win[t]
    BY <1>1
    DEF SendHeadersFirst, connVars, writerVars, envVars, SendTypeOK, AssignStreamID,
        AfterWrite
  <2>2. WakePending => WakePending'
    BY Zenon, <1>1 DEF SendHeadersFirst, connVars, writerVars, envVars, WakePending
  <2> QED
    BY Zenon, <2>1, <2>2, QuietWaits
<1>2. ASSUME NEW s \in Streams, SendHeadersAndData(s)
      PROVE  ParkedIsJustified' /\ DecideIsJustified'
  <2>1. /\ down' = down /\ gone' \ overflown' \subseteq gone \ overflown
        /\ connWin' \in Int /\ connWin' <= connWin
        /\ \A t \in Streams : /\ wpc'[t] = "parked" => wpc[t] = "parked"
                              /\ wpc'[t] = "decide" => wpc[t] = "decide" /\ seen'[t] = seen[t]
                              /\ wpc'[t] \in {"parked", "decide"} => win'[t] = win[t]
    BY <1>2, FusedCostNat
    DEF SendHeadersAndData, connVars, writerVars, envVars, SendTypeOK, AssignStreamID,
        AfterWrite
  <2>2. WakePending => WakePending'
    BY Zenon, <1>2 DEF SendHeadersAndData, connVars, writerVars, envVars, WakePending
  <2> QED
    BY Zenon, <2>1, <2>2, QuietWaits
<1>3. ASSUME NEW s \in Streams, Look(s)
      PROVE  ParkedIsJustified' /\ DecideIsJustified'
  <2>1. /\ UNCHANGED <<connWin, win, gone, overflown, down, reader, closingStreams, shutting>>
        /\ \A t \in Streams : t # s => wpc'[t] = wpc[t] /\ seen'[t] = seen[t]
        /\ wpc'[s] # "parked"
        /\ wpc'[s] = "decide" => down = {} /\ s \notin gone /\ seen'[s] = win[s]
    BY <1>3 DEF Look, connVars, envVars, SendTypeOK
  <2>2. (WakePending' <=> WakePending) /\ ~(win[s] > win[s])
    BY <2>1 DEF WakePending, SendTypeOK
  <2>3. \A t \in Streams : MayProceed(t)' => MayProceed(t)
    BY Zenon, <2>1 DEF MayProceed
  <2>4. ParkedIsJustified'
    BY Zenon, <2>1, <2>2, <2>3 DEF ParkedIsJustified
  <2>5. DecideIsJustified'
    BY Zenon, <2>1, <2>2 DEF DecideIsJustified
  <2> QED
    BY Zenon, <2>4, <2>5
<1>4. ASSUME NEW s \in Streams, Decide(s)
      PROVE  ParkedIsJustified' /\ DecideIsJustified'
  <2> DEFINE avail == Least(seen[s], connWin)
             n == Least(Least(rem[s], FrameSize), avail - PadOverhead)
  <2>1. /\ UNCHANGED <<gone, overflown, down, reader, closingStreams, shutting>>
        /\ wpc[s] = "decide" /\ wpc'[s] # "decide"
        /\ \A t \in Streams : t # s => wpc'[t] = wpc[t] /\ win'[t] = win[t] /\ seen'[t] = seen[t]
        /\ wpc'[s] = "parked" => ~HasCredit(avail) /\ connWin' = connWin /\ win' = win
        /\ HasCredit(avail) => connWin' = connWin - FrameCost(n)
        /\ ~HasCredit(avail) => connWin' = connWin
    BY Zenon, <1>4 DEF Decide, envVars, SendTypeOK
  <2>2. connWin' \in Int /\ connWin' <= connWin
    BY <2>1, SendAssumption DEF SendTypeOK, HasCredit, FrameCost, Least, WriterShape
  <2>3. \A t \in Streams : t # s => wpc[t] # "decide"
    BY Zenon, <2>1 DEF WriterShape
  <2>4. WakePending' <=> WakePending
    BY Zenon, <2>1 DEF WakePending
  <2>5. DecideIsJustified'
    BY Zenon, <2>1, <2>3 DEF DecideIsJustified
  <2>6. ASSUME NEW t \in Streams, wpc'[t] = "parked", MayProceed(t)'
        PROVE  WakePending
    <3>1. CASE t = s
      <4>1. /\ ~(Least(seen[s], connWin) > PadOverhead) /\ connWin' = connWin /\ win' = win
        BY Zenon, <2>1, <2>6, <3>1 DEF HasCredit
      <4>2. down # {} \/ s \in gone \ overflown \/ Least(win[s], connWin) > PadOverhead
        BY Zenon, <2>1, <2>6, <3>1, <4>1 DEF MayProceed
      <4>3. Least(win[s], connWin) > PadOverhead => win[s] > seen[s]
        BY <4>1, SendAssumption DEF Least, SendTypeOK
      <4> QED
        BY Zenon, <2>1, <4>2, <4>3 DEF DecideIsJustified
    <3>2. CASE t # s
      <4>1. wpc[t] = "parked" /\ win'[t] = win[t] /\ win[t] \in Int
        BY Zenon, <2>1, <2>6, <3>2 DEF SendTypeOK
      <4>2. Least(win'[t], connWin') > PadOverhead => Least(win[t], connWin) > PadOverhead
        BY <2>2, <4>1, SendAssumption DEF Least, SendTypeOK
      <4>3. MayProceed(t)
        BY Zenon, <2>1, <2>6, <4>2 DEF MayProceed
      <4> QED
        BY Zenon, <4>1, <4>3 DEF ParkedIsJustified
    <3> QED
      BY Zenon, <3>1, <3>2
  <2> QED
    BY Zenon, <2>4, <2>5, <2>6 DEF ParkedIsJustified
<1>5. ASSUME NEW s \in Streams, WriteFrame(s)
      PROVE  ParkedIsJustified' /\ DecideIsJustified'
  <2>1. /\ down' = down /\ gone' \ overflown' \subseteq gone \ overflown
        /\ connWin' \in Int /\ connWin' <= connWin
        /\ \A t \in Streams : /\ wpc'[t] = "parked" => wpc[t] = "parked"
                              /\ wpc'[t] = "decide" => wpc[t] = "decide" /\ seen'[t] = seen[t]
                              /\ wpc'[t] \in {"parked", "decide"} => win'[t] = win[t]
    BY <1>5 DEF WriteFrame, connVars, writerVars, envVars, SendTypeOK, AfterWrite
  <2>2. WakePending => WakePending'
    BY Zenon, <1>5 DEF WriteFrame, connVars, writerVars, envVars, WakePending
  <2> QED
    BY Zenon, <2>1, <2>2, QuietWaits
<1>6. ASSUME NEW s \in Streams, Cancel(s)
      PROVE  ParkedIsJustified' /\ DecideIsJustified'
  <2>1. /\ down' = down /\ gone' \ overflown' \subseteq gone \ overflown
        /\ connWin' \in Int /\ connWin' <= connWin
        /\ \A t \in Streams : /\ wpc'[t] = "parked" => wpc[t] = "parked"
                              /\ wpc'[t] = "decide" => wpc[t] = "decide" /\ seen'[t] = seen[t]
                              /\ wpc'[t] \in {"parked", "decide"} => win'[t] = win[t]
    BY <1>6 DEF Cancel, connVars, writerVars, envVars, SendTypeOK
  <2>2. WakePending => WakePending'
    BY Zenon, <1>6 DEF Cancel, connVars, writerVars, envVars, WakePending
  <2> QED
    BY Zenon, <2>1, <2>2, QuietWaits
<1>7. ASSUME NEW s \in Streams, CancelWake(s)
      PROVE  ParkedIsJustified' /\ DecideIsJustified'
  BY Zenon, <1>7, BroadcastSettles DEF CancelWake
<1>8. ASSUME NEW s \in Streams, StreamClose(s)
      PROVE  ParkedIsJustified' /\ DecideIsJustified'
  BY Zenon, <1>8, WakeToCome DEF StreamClose, WakePending
<1>9. ASSUME NEW s \in Streams, StreamCloseWake(s)
      PROVE  ParkedIsJustified' /\ DecideIsJustified'
  BY Zenon, <1>9, BroadcastSettles DEF StreamCloseWake
<1>10. ASSUME NEW s \in Streams, Overflow(s)
      PROVE  ParkedIsJustified' /\ DecideIsJustified'
  <2>1. /\ down' = down /\ gone' \ overflown' \subseteq gone \ overflown
        /\ connWin' \in Int /\ connWin' <= connWin
        /\ \A t \in Streams : /\ wpc'[t] = "parked" => wpc[t] = "parked"
                              /\ wpc'[t] = "decide" => wpc[t] = "decide" /\ seen'[t] = seen[t]
                              /\ wpc'[t] \in {"parked", "decide"} => win'[t] = win[t]
    BY <1>10 DEF Overflow, connVars, writerVars, envVars, SendTypeOK, ReaderReads
  <2>2. WakePending => WakePending'
    BY Zenon, <1>10 DEF Overflow, connVars, writerVars, envVars, ReaderReads, WakePending
  <2> QED
    BY Zenon, <2>1, <2>2, QuietWaits
<1>11. ASSUME NEW s \in Streams, BackgroundRST(s)
      PROVE  ParkedIsJustified' /\ DecideIsJustified'
  <2>1. /\ down' = down /\ gone' \ overflown' \subseteq gone \ overflown
        /\ connWin' \in Int /\ connWin' <= connWin
        /\ \A t \in Streams : /\ wpc'[t] = "parked" => wpc[t] = "parked"
                              /\ wpc'[t] = "decide" => wpc[t] = "decide" /\ seen'[t] = seen[t]
                              /\ wpc'[t] \in {"parked", "decide"} => win'[t] = win[t]
    BY <1>11 DEF BackgroundRST, connVars, writerVars, envVars, SendTypeOK
  <2>2. WakePending => WakePending'
    BY Zenon, <1>11 DEF BackgroundRST, connVars, writerVars, envVars, WakePending
  <2> QED
    BY Zenon, <2>1, <2>2, QuietWaits
<1>12. ASSUME NEW inc \in Increments, OnConnWindowUpdate(inc)
      PROVE  ParkedIsJustified' /\ DecideIsJustified'
  <2>1. CASE FcBroadcast
    BY Zenon, <2>1, BroadcastSettles
  <2>2. CASE reader' = "dying"
    BY Zenon, <2>2, WakeToCome DEF WakePending
  <2> QED
    BY Zenon, <1>12, <2>1, <2>2 DEF OnConnWindowUpdate
<1>13. ASSUME NEW s \in Streams, NEW inc \in Increments, OnStreamWindowUpdate(s, inc)
      PROVE  ParkedIsJustified' /\ DecideIsJustified'
  BY Zenon, <1>13, WakeToCome DEF OnStreamWindowUpdate, WakePending
<1>14. ASSUME NEW victims \in SUBSET open, OnReset(victims)
      PROVE  ParkedIsJustified' /\ DecideIsJustified'
  BY Zenon, <1>14, WakeToCome DEF OnReset, WakePending
<1>15. ASSUME NEW v \in Initials, NEW applied \in SUBSET open, ApplyPeerSettings(v, applied)
      PROVE  ParkedIsJustified' /\ DecideIsJustified'
  <2>1. CASE reader' \in {"dying", "settled"}
    BY Zenon, <2>1, WakeToCome DEF WakePending
  <2>2. CASE reader' \notin {"dying", "settled"}
    <3>1. /\ v = initial /\ reader = "idle" /\ reader' = "ack"
          /\ win' = [t \in Streams |-> IF t \in applied THEN win[t] + (v - initial) ELSE win[t]]
          /\ UNCHANGED <<connWin, gone, overflown, down, wpc, seen, closingStreams, shutting>>
      BY Zenon, <1>15, <2>2 DEF ApplyPeerSettings, ReaderReads, writerVars
    <3>2. \A t \in Streams : win'[t] = win[t]
      BY <3>1 DEF SendTypeOK
    <3> QED
      BY <3>1, <3>2, QuietWaits DEF WakePending, SendTypeOK
  <2> QED
    BY Zenon, <2>1, <2>2
<1>16. CASE ReaderWake
  BY Zenon, <1>16, BroadcastSettles DEF ReaderWake
<1>17. CASE SettingsWake
  BY Zenon, <1>17, BroadcastSettles DEF SettingsWake
<1>18. CASE SettingsAck
  <2>1. /\ down' = down /\ gone' \ overflown' \subseteq gone \ overflown
        /\ connWin' \in Int /\ connWin' <= connWin
        /\ \A t \in Streams : /\ wpc'[t] = "parked" => wpc[t] = "parked"
                              /\ wpc'[t] = "decide" => wpc[t] = "decide" /\ seen'[t] = seen[t]
                              /\ wpc'[t] \in {"parked", "decide"} => win'[t] = win[t]
    BY <1>18 DEF SettingsAck, connVars, writerVars, envVars, SendTypeOK
  <2>2. WakePending => WakePending'
    BY Zenon, <1>18 DEF SettingsAck, connVars, writerVars, envVars, WakePending
  <2> QED
    BY Zenon, <2>1, <2>2, QuietWaits
<1>19. CASE ReaderFails
  BY Zenon, <1>19, WakeToCome DEF ReaderFails, WakePending
<1>20. CASE ReaderExit
  BY Zenon, <1>20, BroadcastSettles DEF ReaderExit
<1>21. CASE ConnClose
  BY Zenon, <1>21, WakeToCome DEF ConnClose, WakePending
<1>22. CASE ConnCloseWake
  BY Zenon, <1>22, BroadcastSettles DEF ConnCloseWake
<1>23. CASE UNCHANGED sendVars
  <2>1. /\ down' = down /\ gone' \ overflown' \subseteq gone \ overflown
        /\ connWin' \in Int /\ connWin' <= connWin
        /\ \A t \in Streams : /\ wpc'[t] = "parked" => wpc[t] = "parked"
                              /\ wpc'[t] = "decide" => wpc[t] = "decide" /\ seen'[t] = seen[t]
                              /\ wpc'[t] \in {"parked", "decide"} => win'[t] = win[t]
    BY <1>23 DEF sendVars, connVars, writerVars, envVars, SendTypeOK
  <2>2. WakePending => WakePending'
    BY Zenon, <1>23 DEF sendVars, connVars, writerVars, envVars, WakePending
  <2> QED
    BY Zenon, <2>1, <2>2, QuietWaits
<1> QED
  BY Zenon, <1>1, <1>2, <1>3, <1>4, <1>5, <1>6, <1>7, <1>8, <1>9, <1>10, <1>11, <1>12,
     <1>13, <1>14, <1>15, <1>16, <1>17, <1>18, <1>19, <1>20, <1>21, <1>22, <1>23 DEF SendNext

SendIInv ==
  /\ SendTypeOK /\ WriterShape /\ Accounts /\ ConnAccount
  /\ ParkedIsJustified /\ DecideIsJustified

LEMMA SendInitIInv == SendInit => SendIInv
<1> SUFFICES ASSUME SendInit PROVE SendIInv
  BY Zenon
<1>1. SendTypeOK
  BY SendAssumption DEF SendInit, SendTypeOK
<1>2. WriterShape /\ Accounts /\ ParkedIsJustified /\ DecideIsJustified
  BY Zenon DEF SendInit, WriterShape, Accounts, ParkedIsJustified, DecideIsJustified
<1>3. \A s \in Streams : Debited(s) = 0
  BY DEF SendInit, Debited
<1>4. 1..0 = {}
  OBVIOUS
<1>5. DebitedBytes = {}
  BY Zenon, <1>3, <1>4 DEF DebitedBytes
<1>6. ConnAccount
  BY <1>5, FS_EmptySet, SendAssumption DEF SendInit, ConnAccount
<1> QED
  BY Zenon, <1>1, <1>2, <1>6 DEF SendIInv

LEMMA SendNextIInv == SendIInv /\ [SendNext]_sendVars => SendIInv'
  BY SendNextTypes, SendNextShape, SendNextAccounts, SendNextConn, SendNextWaits, Zenon
  DEF SendIInv

LEMMA SendAlways == SendSpec => []SendIInv
  BY SendInitIInv, SendNextIInv, PTL DEF SendSpec

\* Send credit is exact for every stream and for the connection, and no window
\* leaves the range of an int32, however stream creation, SETTINGS, WINDOW_UPDATE
\* and the writers of acquireSendCredits interleave.
THEOREM SendCreditExact == SendSpec => []CreditExact
<1>1. SendIInv => CreditExact
  <2> SUFFICES ASSUME SendIInv PROVE CreditExact
    BY Zenon
  <2>1. ASSUME NEW s \in open
        PROVE  /\ win[s] \in -MaxWindow..MaxWindow
               /\ reader \notin {"dying", "exited"} => win[s] = initial + credit[s] - Debited(s)
    <3>1. /\ credit[s] \in Nat /\ Debited(s) \in Nat /\ win[s] \in Int
          /\ initial \in Nat /\ MaxWindow \in Nat
      BY DebitedNat, SendAssumption DEF SendIInv, SendTypeOK
    <3> QED
      BY <3>1 DEF SendIInv, Accounts, Balance
  <2> QED
    BY Zenon, <2>1 DEF SendIInv, ConnAccount, CreditExact
<1> QED
  BY <1>1, SendAlways, PTL

\* No wakeup of fcOutCond is lost: whoever is parked in acquireSendCredits has
\* nothing to go on with, or a broadcast is still to come.
THEOREM NoLostWakeup == SendSpec => []ParkedIsJustified
<1>1. SendIInv => ParkedIsJustified
  BY Zenon DEF SendIInv
<1> QED
  BY <1>1, SendAlways, PTL
=============================================================================
