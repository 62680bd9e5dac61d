----------------------------- MODULE H2SendFlow -----------------------------
(* Outbound flow control of one HTTP/2 connection (conn/conn.go, conn/datav.go):
   the windows the peer granted us, the writers that spend and wait for them, and
   the goroutines that change what a waiting writer waits for.

   A stream is named by its request; each has one writer, which sends a body of
   Body bytes, either after its HEADERS (SendHeaders, SendData) or fused with
   them (SendHeadersAndData).  Every frame costs PadOverhead bytes more than its
   data.  Windows are signed 32-bit integers in the code; MaxWindow stands for
   2^31-1 and WindowsFit says that no window leaves -MaxWindow .. MaxWindow, so
   that no conversion to int32 wraps.

   fcOutMu is modelled as a lock, because the reader changes a stream's window
   under the stream's own mutex and takes fcOutMu only to broadcast: a writer
   reads its window (Look), and parks or debits (Decide), in one fcOutMu section
   that those changes can fall into.  psMu makes the seed of a new stream and
   the settings change atomic; wmu makes a fused write atomic. *)
EXTENDS Integers, FiniteSets

CONSTANTS Streams, MaxWindow, ConnInitial, Initials, Increments,
          Body, FrameSize, PadOverhead, MaxEvents, Free

ASSUME SendAssumption ==
  /\ MaxWindow \in Nat /\ ConnInitial \in 0..MaxWindow
  /\ Initials \subseteq Nat /\ Increments \subseteq (Nat \ {0})
  /\ \E v \in Initials : v <= MaxWindow
  /\ Body \in Nat \ {0} /\ FrameSize \in Nat \ {0} /\ PadOverhead \in Nat
  /\ MaxEvents \in Nat
  /\ Free \notin Streams

VARIABLES
  initial,    \* peerSettings: INITIAL_WINDOW_SIZE as last applied
  acked,      \* the value our last SETTINGS ACK confirmed
  connWin,    \* peerConnSendWindow
  win,        \* sendWindow of each stream
  open,       \* the keys of c.streams
  gone,       \* streams with s.closed set
  overflown,  \* of those, the ones pushLocked closed
  down,       \* subset of {"closed", "readerGone"}
  wpc, rem, seen, grant,  \* each writer's place, bytes left, window read, bytes debited
  fcOutMu,    \* Free or the stream whose writer holds it
  cancelled,  \* streams whose writer's context is done
  reader,     \* where the reader goroutine is
  closingStreams,    \* streams inside Close, before its broadcast
  shutting,   \* {"conn"} while Conn.Close is before its broadcast
  happened,   \* events from outside (frames, cancellations, closes), at most MaxEvents
  credit, connCredit, spent  \* history: increments applied, bytes framed (with padding)

connVars   == <<initial, acked, connWin, win, open, gone, overflown, down>>
writerVars == <<wpc, rem, seen, grant, fcOutMu, cancelled>>
envVars    == <<reader, closingStreams, shutting, happened>>
ledger     == <<credit, connCredit, spent>>
sendVars   == <<connVars, writerVars, envVars, ledger>>

\* What the peer, the callers and the network do is bounded together.
Outside == happened < MaxEvents /\ happened' = happened + 1

Least(a, b) == IF a < b THEN a ELSE b
Done == {"sent", "failed"}

SendInit ==
  /\ initial \in {v \in Initials : v <= MaxWindow} /\ acked = initial
  /\ connWin = ConnInitial
  /\ win = [s \in Streams |-> 0]
  /\ open = {} /\ gone = {} /\ overflown = {} /\ down = {}
  /\ wpc = [s \in Streams |-> "idle"]
  /\ rem = [s \in Streams |-> Body]
  /\ seen = [s \in Streams |-> 0]
  /\ grant = [s \in Streams |-> 0]
  /\ fcOutMu = Free /\ cancelled = {}
  /\ reader = "idle" /\ closingStreams = {} /\ shutting = {} /\ happened = 0
  /\ credit = [s \in Streams |-> 0] /\ connCredit = 0
  /\ spent = [s \in Streams |-> 0]

-----------------------------------------------------------------------------
(* The condition variable.  Broadcast moves every parked writer to the top of
   its loop; the caller needs fcOutMu. *)
AfterSignal ==
  LET first == CHOOSE s \in Streams : wpc[s] = "parked" IN
  [s \in Streams |-> IF wpc[s] = "parked" /\ s = first THEN "look" ELSE wpc[s]]
AfterBroadcast == [s \in Streams |-> IF wpc[s] = "parked" THEN "look" ELSE wpc[s]]

FcBroadcast ==
  /\ fcOutMu = Free
  /\ wpc' = AfterBroadcast

-----------------------------------------------------------------------------
(* Writers. *)

\* HEADERS give the stream its identity: registered and seeded from the peer's
\* current INITIAL_WINDOW_SIZE in one psMu section.
AssignStreamIDStale(s) ==
  /\ open' = open \cup {s}
  /\ win' = [win EXCEPT ![s] = acked]
AssignStreamID(s) ==
  /\ open' = open \cup {s}
  /\ win' = [win EXCEPT ![s] = initial]

\* After a write the writer goes on, or the transport failed it.
AfterWrite(s, next) == \E p \in {next, "failed"} : wpc' = [wpc EXCEPT ![s] = p]

\* SendHeaders, then the first iteration of the DATA loop.
SendHeadersFirst(s) ==
  /\ wpc[s] = "idle" /\ s \notin gone
  /\ IF "closed" \in down
     THEN wpc' = [wpc EXCEPT ![s] = "failed"] /\ UNCHANGED <<open, win>>
     ELSE AssignStreamID(s) /\ AfterWrite(s, "look")
  /\ UNCHANGED <<initial, acked, connWin, gone, overflown, down, rem, seen, grant,
                 fcOutMu, cancelled, envVars, ledger>>

\* The cost of the whole body in frames of at most FrameSize bytes.
FusedCost == Body + PadOverhead * ((Body + FrameSize - 1) \div FrameSize)

\* The fused write: id, all the credit or none, and the bytes, under wmu.
SendHeadersAndData(s) ==
  LET fits == initial >= FusedCost /\ connWin >= FusedCost IN
  /\ wpc[s] = "idle" /\ s \notin gone /\ fcOutMu = Free
  /\ \/ /\ "closed" \in down
        /\ wpc' = [wpc EXCEPT ![s] = "failed"]
        /\ UNCHANGED <<open, win, connWin, rem, spent>>
     \/ /\ "closed" \notin down /\ "readerGone" \in down
        /\ AssignStreamID(s)
        /\ wpc' = [wpc EXCEPT ![s] = "failed"]
        /\ UNCHANGED <<connWin, rem, spent>>
     \/ /\ down = {} /\ ~fits
        /\ AssignStreamID(s)
        /\ AfterWrite(s, "look")
        /\ UNCHANGED <<connWin, rem, spent>>
     \/ /\ down = {} /\ fits
        /\ open' = open \cup {s}
        /\ win' = [win EXCEPT ![s] = initial - FusedCost]
        /\ connWin' = connWin - FusedCost
        /\ spent' = [spent EXCEPT ![s] = FusedCost]
        /\ rem' = [rem EXCEPT ![s] = 0]
        /\ AfterWrite(s, "sent")
  /\ UNCHANGED <<initial, acked, gone, overflown, down, seen, grant, fcOutMu,
                 cancelled, envVars, credit, connCredit>>

\* One pass of acquireSendCredits up to its reading of the stream's window.
Look(s) ==
  /\ wpc[s] = "look" /\ fcOutMu = Free
  /\ IF down # {} \/ s \in cancelled \/ s \in gone
     THEN wpc' = [wpc EXCEPT ![s] = "failed"] /\ UNCHANGED <<seen, fcOutMu>>
     ELSE /\ wpc' = [wpc EXCEPT ![s] = "decide"]
          /\ seen' = [seen EXCEPT ![s] = win[s]]
          /\ fcOutMu' = s
  /\ UNCHANGED <<connVars, rem, grant, cancelled, envVars, ledger>>

\* A frame of n bytes costs its padding too, and needs room for a byte beside it.
FrameCost(n) == n + PadOverhead
HasCredit(avail) == avail > PadOverhead

\* The rest of the pass: debit both windows by one frame, or wait.
Decide(s) ==
  LET avail == Least(seen[s], connWin)
      n     == Least(Least(rem[s], FrameSize), avail - PadOverhead) IN
  /\ wpc[s] = "decide"
  /\ fcOutMu' = Free /\ seen' = [seen EXCEPT ![s] = 0]
  /\ IF HasCredit(avail)
     THEN /\ connWin' = connWin - FrameCost(n)
          /\ win' = [win EXCEPT ![s] = @ - FrameCost(n)]
          /\ grant' = [grant EXCEPT ![s] = n]
          /\ wpc' = [wpc EXCEPT ![s] = "write"]
     ELSE /\ wpc' = [wpc EXCEPT ![s] = "parked"]
          /\ UNCHANGED <<connWin, win, grant>>
  /\ UNCHANGED <<initial, acked, open, gone, overflown, down, rem, cancelled,
                 envVars, ledger>>

\* The DATA frame, under wmu.
WriteFrame(s) ==
  /\ wpc[s] = "write"
  /\ IF "closed" \in down
     THEN wpc' = [wpc EXCEPT ![s] = "failed"] /\ UNCHANGED <<rem, grant, spent>>
     ELSE /\ spent' = [spent EXCEPT ![s] = @ + grant[s] + PadOverhead]
          /\ rem' = [rem EXCEPT ![s] = @ - grant[s]]
          /\ grant' = [grant EXCEPT ![s] = 0]
          /\ AfterWrite(s, IF rem[s] = grant[s] THEN "sent" ELSE "look")
  /\ UNCHANGED <<connVars, seen, fcOutMu, cancelled, envVars, credit, connCredit>>

\* The caller's context ends.
Cancel(s) ==
  /\ Outside /\ wpc[s] \notin Done /\ s \notin cancelled
  /\ cancelled' = cancelled \cup {s}
  /\ UNCHANGED <<connVars, wpc, rem, seen, grant, fcOutMu, reader, closingStreams, shutting, ledger>>

\* The watcher registered before the wait (context.AfterFunc) broadcasts.
CancelWake(s) ==
  /\ s \in cancelled /\ wpc[s] = "parked"
  /\ FcBroadcast
  /\ UNCHANGED <<connVars, rem, seen, grant, fcOutMu, cancelled, envVars, ledger>>

\* Close of the stream while its writer may be parked: the flag first, the
\* broadcast and the RST_STREAM after.
StreamClose(s) ==
  /\ Outside /\ s \in open \ gone /\ wpc[s] \notin Done
  /\ gone' = gone \cup {s}
  /\ closingStreams' = closingStreams \cup {s}
  /\ UNCHANGED <<initial, acked, connWin, win, open, overflown, down, writerVars,
                 reader, shutting, ledger>>

StreamCloseWake(s) ==
  /\ s \in closingStreams
  /\ FcBroadcast
  /\ closingStreams' = closingStreams \ {s}
  /\ open' = open \ {s}
  /\ UNCHANGED <<initial, acked, connWin, win, gone, overflown, down, rem, seen, grant,
                 fcOutMu, cancelled, reader, shutting, happened, ledger>>

-----------------------------------------------------------------------------
(* The reader goroutine. *)

ReaderReads == reader = "idle" /\ Outside

OnConnWindowUpdate(inc) ==
  /\ ReaderReads
  /\ IF connWin + inc > MaxWindow
     THEN reader' = "dying" /\ UNCHANGED <<connWin, connCredit, wpc>>
     ELSE /\ FcBroadcast
          /\ connWin' = connWin + inc
          /\ connCredit' = connCredit + inc
          /\ UNCHANGED reader
  /\ UNCHANGED <<initial, acked, win, open, gone, overflown, down, rem, seen, grant,
                 fcOutMu, cancelled, closingStreams, shutting, credit, spent>>

\* The window under s.mu, the broadcast later; above the limit the stream is reset.
OnStreamWindowUpdate(s, inc) ==
  /\ ReaderReads /\ s \in open
  /\ reader' = "wake"
  /\ IF win[s] + inc > MaxWindow
     THEN /\ gone' = gone \cup {s} /\ open' = open \ {s}
          /\ UNCHANGED <<win, credit>>
     ELSE /\ win' = [win EXCEPT ![s] = @ + inc]
          /\ credit' = [credit EXCEPT ![s] = @ + inc]
          /\ UNCHANGED <<gone, open>>
  /\ UNCHANGED <<initial, acked, connWin, overflown, down, writerVars, closingStreams, shutting,
                 connCredit, spent>>

\* RST_STREAM for one stream, or a GOAWAY whose last-stream-id leaves several behind.
OnReset(victims) ==
  /\ ReaderReads /\ victims # {}
  /\ gone' = gone \cup victims /\ open' = open \ victims
  /\ reader' = "wake"
  /\ UNCHANGED <<initial, acked, connWin, win, overflown, down, writerVars, closingStreams,
                 shutting, ledger>>

ReaderWake ==
  /\ reader = "wake"
  /\ FcBroadcast
  /\ reader' = "idle"
  /\ UNCHANGED <<connVars, rem, seen, grant, fcOutMu, cancelled, closingStreams, shutting,
                 happened, ledger>>

\* The open streams a new INITIAL_WINDOW_SIZE would push past the limit.
OverLimit(v) == {s \in open : win[s] + (v - initial) > MaxWindow}

\* SETTINGS with INITIAL_WINDOW_SIZE: range check, merge, and the difference added
\* to the open streams, in map order until one would pass the limit.
ApplyPeerSettings(v, applied) ==
  /\ ReaderReads
  /\ applied \subseteq open \ OverLimit(v)
  /\ OverLimit(v) = {} => applied = open
  /\ IF v > MaxWindow
     THEN reader' = "dying" /\ UNCHANGED <<initial, win>>
     ELSE /\ initial' = v
          /\ win' = [s \in Streams |-> IF s \in applied THEN win[s] + (v - initial) ELSE win[s]]
          /\ reader' = IF OverLimit(v) # {} THEN "dying"
                       ELSE IF v # initial THEN "settled" ELSE "ack"
  /\ UNCHANGED <<acked, connWin, open, gone, overflown, down, writerVars, closingStreams, shutting,
                 ledger>>

SettingsWake ==
  /\ reader = "settled"
  /\ FcBroadcast
  /\ reader' = "ack"
  /\ UNCHANGED <<connVars, rem, seen, grant, fcOutMu, cancelled, closingStreams, shutting,
                 happened, ledger>>

SettingsAck ==
  /\ reader = "ack"
  /\ IF "closed" \in down
     THEN reader' = "dying" /\ UNCHANGED acked
     ELSE reader' = "idle" /\ acked' = initial
  /\ UNCHANGED <<initial, connWin, win, open, gone, overflown, down, writerVars, closingStreams,
                 shutting, happened, ledger>>

\* pushLocked on a full event buffer: the flag, and a goroutine for the RST_STREAM.
Overflow(s) ==
  /\ ReaderReads /\ s \in open \ gone
  /\ gone' = gone \cup {s} /\ overflown' = overflown \cup {s}
  /\ UNCHANGED <<initial, acked, connWin, win, open, down, writerVars, reader, closingStreams,
                 shutting, ledger>>

BackgroundRST(s) ==
  /\ s \in overflown \cap open
  /\ open' = open \ {s}
  /\ UNCHANGED <<initial, acked, connWin, win, gone, overflown, down, writerVars, envVars,
                 ledger>>

\* A transport error, a connection error, or the transport closed under the reader.
ReaderFails ==
  /\ ReaderReads
  /\ reader' = "dying"
  /\ UNCHANGED <<connVars, writerVars, closingStreams, shutting, ledger>>

ReaderExit ==
  /\ reader = "dying"
  /\ FcBroadcast
  /\ down' = down \cup {"readerGone"}
  /\ reader' = "exited"
  /\ UNCHANGED <<initial, acked, connWin, win, open, gone, overflown, rem, seen, grant,
                 fcOutMu, cancelled, closingStreams, shutting, happened, ledger>>

-----------------------------------------------------------------------------
(* Conn.Close: the flag, the broadcast, then the transport. *)
ConnClose ==
  /\ Outside /\ "closed" \notin down
  /\ down' = down \cup {"closed"}
  /\ shutting' = {"conn"}
  /\ UNCHANGED <<initial, acked, connWin, win, open, gone, overflown, writerVars, reader,
                 closingStreams, ledger>>

ConnCloseQuiet ==
  /\ shutting # {}
  /\ shutting' = {}
  /\ UNCHANGED <<connVars, writerVars, reader, closingStreams, happened, ledger>>
ConnCloseWake ==
  /\ shutting # {}
  /\ FcBroadcast
  /\ shutting' = {}
  /\ UNCHANGED <<connVars, rem, seen, grant, fcOutMu, cancelled, reader, closingStreams, happened,
                 ledger>>

-----------------------------------------------------------------------------
ReaderTail == ReaderWake \/ SettingsWake \/ SettingsAck \/ ReaderExit

SendNext ==
  \/ \E s \in Streams : \/ SendHeadersFirst(s) \/ SendHeadersAndData(s)
                        \/ Look(s) \/ Decide(s) \/ WriteFrame(s)
                        \/ Cancel(s) \/ CancelWake(s)
                        \/ StreamClose(s) \/ StreamCloseWake(s)
                        \/ Overflow(s) \/ BackgroundRST(s)
  \/ \E inc \in Increments : OnConnWindowUpdate(inc)
  \/ \E s \in Streams, inc \in Increments : OnStreamWindowUpdate(s, inc)
  \/ \E victims \in SUBSET open : OnReset(victims)
  \/ \E v \in Initials, applied \in SUBSET open : ApplyPeerSettings(v, applied)
  \/ ReaderWake \/ SettingsWake \/ SettingsAck \/ ReaderFails \/ ReaderExit
  \/ ConnClose \/ ConnCloseWake

SendSpec == SendInit /\ [][SendNext]_sendVars

\* A runnable goroutine runs: the writers' loops, the reader finishing the frame it
\* handles, and Close getting to its broadcast.
SendFairness ==
  /\ \A s \in Streams : /\ WF_sendVars(Look(s)) /\ WF_sendVars(Decide(s))
                        /\ WF_sendVars(WriteFrame(s)) /\ WF_sendVars(CancelWake(s))
                        /\ WF_sendVars(StreamCloseWake(s))
  /\ WF_sendVars(ReaderTail) /\ WF_sendVars(ConnCloseWake)

-----------------------------------------------------------------------------
(* What the code promises. *)

\* The types of the windows, the writers' places and the flags.
SendTypeOK ==
  /\ initial \in 0..MaxWindow /\ acked \in 0..MaxWindow /\ connWin \in Int
  /\ win \in [Streams -> Int]
  /\ open \subseteq Streams /\ gone \subseteq Streams /\ overflown \subseteq gone
  /\ down \subseteq {"closed", "readerGone"}
  /\ wpc \in [Streams -> {"idle", "look", "decide", "parked", "write", "sent", "failed"}]
  /\ rem \in [Streams -> 0..Body] /\ seen \in [Streams -> Int]
  /\ grant \in [Streams -> 0..Body]
  /\ fcOutMu \in Streams \cup {Free} /\ cancelled \subseteq Streams
  /\ reader \in {"idle", "wake", "settled", "ack", "dying", "exited"}
  /\ closingStreams \subseteq Streams /\ shutting \subseteq {"conn"} /\ happened \in Nat
  /\ credit \in [Streams -> Nat] /\ connCredit \in Nat /\ spent \in [Streams -> Nat]

\* What a writer has debited: the frames it wrote and the one it is about to write.
Debited(s) == spent[s] + (IF grant[s] > 0 THEN grant[s] + PadOverhead ELSE 0)

\* Every byte debited, so that its cardinality is the sum over the streams.
DebitedBytes == UNION {{s} \X (1..Debited(s)) : s \in Streams}

\* The window of every registered stream is the peer's INITIAL_WINDOW_SIZE plus the
\* increments received for it minus what was debited, however stream creation,
\* SETTINGS, WINDOW_UPDATE and the writers interleave: a new stream is seeded with
\* the old value and given the difference, or seeded with the new one, never both.
\* The connection's window loses what all the writers took.  And no window leaves
\* the range of a flow-control window (the connection's is never negative), so no
\* int32 conversion in the window arithmetic can wrap.
CreditExact ==
  /\ reader \notin {"dying", "exited"} =>
       \A s \in open : win[s] = initial + credit[s] - Debited(s)
  /\ connWin = ConnInitial + connCredit - Cardinality(DebitedBytes)
  /\ connWin \in 0..MaxWindow
  /\ \A s \in open : win[s] \in -MaxWindow..MaxWindow

\* Somebody is bound to broadcast fcOutCond.
WakePending == reader \in {"wake", "settled", "dying"} \/ closingStreams # {} \/ shutting # {}

\* What ends a writer's wait, a stream closed by a full event buffer apart.
MayProceed(s) ==
  \/ down # {} \/ s \in gone \ overflown
  \/ Least(win[s], connWin) > PadOverhead

\* No lost wakeup: a writer is parked in acquireSendCredits only while nothing it
\* waits for has happened, or a broadcast is still to come.
ParkedIsJustified ==
  \A s \in Streams : wpc[s] = "parked" /\ MayProceed(s) => WakePending

\* Once the connection is closed or its reader is gone, every send returns.
CloseEndsSends ==
  (down # {}) ~> (\A s \in Streams : wpc[s] \in Done \cup {"idle"})

\* A writer parked on a stream that was closed under it is woken: the bail-out of
\* acquireSendCredits, "only as live as its broadcasts" (conn/stream.go).
ParkedSeesClose ==
  \A s \in Streams : wpc[s] = "parked" /\ s \in gone => WakePending
=============================================================================
