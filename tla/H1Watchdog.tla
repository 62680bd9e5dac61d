----------------------------- MODULE H1Watchdog -----------------------------
(***************************************************************************)
(* The context watchdog of an HTTP/1.1 connection (http1.ctxWatchdog): one *)
(* goroutine per connection, bound to a context around each blocking read  *)
(* or write, that releases the call by moving a socket deadline into the   *)
(* past.  The deadlines belong to the socket and the socket outlives the   *)
(* exchange, so the question is whose deadline a blocked call runs under.  *)
(*                                                                         *)
(* The caller's goroutine, the watchdog, cancellations, timers and         *)
(* Conn.Close interleave; armCh and disarmCh are rendezvous.               *)
(***************************************************************************)
EXTENDS Integers

CONSTANTS
    NRequests,  \* bound on the exchanges carried one after the other
    BodyReads   \* bound on the ReadBodyChunk calls of one exchange

ASSUME WatchAssumption == NRequests \in Nat \ {0} /\ BodyReads \in Nat

Watched == 1..NRequests

VARIABLES
    cur,      \* the exchange in progress
    ctx,      \* ctx[e]: its context
    blocking, \* the blocking call in progress: write, response or body
    callAt,   \* where in it the caller is
    armed,    \* what armWatch returned
    reads,    \* ReadBodyChunk calls made
    result,   \* how the I/O of the current call ended
    deadline, \* the socket's read and write deadlines
    wd,       \* the watchdog goroutine
    watched,  \* the arming it is bound to
    quit,     \* wd.quit is closed
    watchSocket \* "open" or "closed"

watchVars == <<cur, ctx, blocking, callAt, armed, reads, result, deadline, wd, watched,
               quit, watchSocket>>

Kind(c) == IF c = "write" THEN "write" ELSE "read"

\* A deadline is none, the deadline of an exchange's context, or an instant in
\* the past put there on behalf of an exchange (0: by a probe).
NoDeadline == [of |-> 0, past |-> FALSE]
Contexts   == [done : {FALSE}, due : {FALSE},
               timed : BOOLEAN, cancellable : BOOLEAN]
               \* a context with a deadline is always cancellable
Fresh      == {c \in Contexts : c.timed => c.cancellable}

WatchInit ==
    /\ cur = 1 /\ ctx \in [Watched -> Fresh]
    /\ blocking = "write" /\ callAt = "start" /\ armed = FALSE /\ reads = 0
    /\ result = "none"
    /\ deadline = [k \in {"read", "write"} |-> NoDeadline]
    /\ wd = "none" /\ watched = [of |-> 0, kind |-> "read"]
    /\ quit = FALSE /\ watchSocket = "open"

-----------------------------------------------------------------------------
(* The caller.                                                             *)

OwnDeadline == IF ctx[cur].timed THEN [of |-> cur, past |-> FALSE] ELSE NoDeadline

\* armDeadline for a write, ReadResponse's unconditional install for a
\* response; a body read runs under what ReadResponse installed.
Install == IF blocking = "body" THEN deadline
           ELSE [deadline EXCEPT ![Kind(blocking)] = OwnDeadline]

SetDeadline ==
    /\ callAt = "start"
    /\ callAt' = "arm"
    /\ deadline' = Install
    /\ result' = "none"
    /\ UNCHANGED <<cur, ctx, blocking, armed, reads, wd, watched, quit, watchSocket>>

\* armWatch watches a context that has a Done channel, deadline or not.
WatchableUntimed(c) == c.cancellable /\ ~c.timed
Watchable(c) == c.cancellable

ArmNothing ==
    /\ callAt = "arm" /\ ~Watchable(ctx[cur])
    /\ callAt' = "io" /\ armed' = FALSE
    /\ UNCHANGED <<cur, ctx, blocking, reads, result, deadline, wd, watched, quit, watchSocket>>

StartWatch ==
    /\ callAt = "arm" /\ Watchable(ctx[cur]) /\ wd = "none"
    /\ wd' = "idle"
    /\ UNCHANGED <<cur, ctx, blocking, callAt, armed, reads, result, deadline, watched, quit, watchSocket>>

Req == [of |-> cur, kind |-> Kind(blocking)]

ArmRendezvous ==
    /\ callAt = "arm" /\ Watchable(ctx[cur]) /\ wd = "idle"
    /\ callAt' = "io" /\ armed' = TRUE
    /\ wd' = "watching" /\ watched' = Req
    /\ UNCHANGED <<cur, ctx, blocking, reads, result, deadline, quit, watchSocket>>

ArmGone ==
    /\ callAt = "arm" /\ Watchable(ctx[cur]) /\ wd = "gone"
    /\ callAt' = "io" /\ armed' = FALSE
    /\ UNCHANGED <<cur, ctx, blocking, reads, result, deadline, wd, watched, quit, watchSocket>>

Elapsed(d) == d.past \/ (d.of # 0 /\ ctx[d.of].due)

\* The blocked call returns: the peer let it, its deadline elapsed, or the
\* socket was closed.
IOReturns(r) ==
    /\ callAt = "io"
    /\ r = "ok"      => watchSocket = "open"
    /\ r = "timeout" => watchSocket = "open" /\ Elapsed(deadline[Kind(blocking)])
    /\ r = "closed"  => watchSocket = "closed"
    /\ callAt' = "disarm" /\ result' = r
    /\ UNCHANGED <<cur, ctx, blocking, armed, reads, deadline, wd, watched, quit, watchSocket>>

\* disarmWatch: a rendezvous, so it waits while the watchdog is about to move
\* the deadline.
AfterDisarmAsync(w) == {IF w = "tripping" THEN w ELSE "idle"}
AfterDisarm(w) == IF w \in {"watching", "tripped"} THEN {"idle"} ELSE {}
Disarm ==
    /\ callAt = "disarm"
    /\ IF armed THEN wd' \in AfterDisarm(wd) ELSE UNCHANGED wd
    /\ callAt' = "clear"
    /\ UNCHANGED <<cur, ctx, blocking, armed, reads, result, deadline, watched, quit, watchSocket>>

\* releaseDeadline clears the write deadline; a read leaves its own in place.
\* The exchange goes on to its next call, or ends: a failure closes the
\* connection, a complete response returns it to the pool.
Return ==
    /\ callAt = "clear"
    /\ deadline' = IF blocking = "write" THEN [deadline EXCEPT !["write"] = NoDeadline]
                   ELSE deadline
    /\ \/ result # "ok" /\ callAt' = "failed" /\ UNCHANGED <<blocking, reads>>
       \/ /\ result = "ok" /\ blocking = "write"
          /\ blocking' \in {"write", "response"} /\ callAt' = "start" /\ UNCHANGED reads
       \/ /\ result = "ok" /\ blocking # "write" /\ reads < BodyReads
          /\ blocking' = "body" /\ reads' = reads + 1 /\ callAt' = "start"
       \/ /\ result = "ok" /\ blocking # "write"
          /\ callAt' = "pooled" /\ UNCHANGED <<blocking, reads>>
    /\ UNCHANGED <<cur, ctx, armed, result, wd, watched, quit, watchSocket>>

\* peekUnder, between exchanges: a bounded read deadline, removed again.
ProbeDeadline ==
    /\ callAt = "pooled"
    /\ callAt' = "probing"
    /\ deadline' = [deadline EXCEPT !["read"] = [of |-> 0, past |-> TRUE]]
    /\ UNCHANGED <<cur, ctx, blocking, armed, reads, result, wd, watched, quit, watchSocket>>

ProbeEnds ==
    /\ callAt = "probing"
    /\ callAt' = "pooled"
    /\ deadline' = [deadline EXCEPT !["read"] = NoDeadline]
    /\ UNCHANGED <<cur, ctx, blocking, armed, reads, result, wd, watched, quit, watchSocket>>

NextExchange ==
    /\ callAt = "pooled" /\ cur + 1 \in Watched
    /\ cur' = cur + 1
    /\ blocking' = "write" /\ callAt' = "start" /\ reads' = 0 /\ armed' = FALSE
    /\ result' = "none"
    /\ UNCHANGED <<ctx, deadline, wd, watched, quit, watchSocket>>

-----------------------------------------------------------------------------
(* The watchdog goroutine.                                                 *)

SeeDone ==
    /\ wd = "watching" /\ ctx[watched.of].done
    /\ wd' = "tripping"
    /\ UNCHANGED <<cur, ctx, blocking, callAt, armed, reads, result, deadline, watched, quit, watchSocket>>

Trip ==
    /\ wd = "tripping"
    /\ wd' = "tripped"
    /\ deadline' = [deadline EXCEPT ![watched.kind] = [of |-> watched.of, past |-> TRUE]]
    /\ UNCHANGED <<cur, ctx, blocking, callAt, armed, reads, result, watched, quit, watchSocket>>

SeeQuit ==
    /\ wd = "idle" /\ quit
    /\ wd' = "gone"
    /\ UNCHANGED <<cur, ctx, blocking, callAt, armed, reads, result, deadline, watched, quit, watchSocket>>

-----------------------------------------------------------------------------
(* Contexts end, and the connection is closed, at any time.                *)

CancelContext(e) ==
    /\ ctx[e].cancellable /\ ~ctx[e].done
    /\ ctx' = [ctx EXCEPT ![e].done = TRUE]
    /\ UNCHANGED <<cur, blocking, callAt, armed, reads, result, deadline, wd, watched, quit, watchSocket>>

\* The deadline of a context passes; the context's own timer reports it later
\* (as a Cancel), the socket's timer at once.
FallDue(e) ==
    /\ ctx[e].timed /\ ~ctx[e].due
    /\ ctx' = [ctx EXCEPT ![e].due = TRUE]
    /\ UNCHANGED <<cur, blocking, callAt, armed, reads, result, deadline, wd, watched, quit, watchSocket>>

CloseQuit ==
    /\ ~quit
    /\ quit' = TRUE
    /\ UNCHANGED <<cur, ctx, blocking, callAt, armed, reads, result, deadline, wd, watched, watchSocket>>

CloseSocket ==
    /\ quit /\ watchSocket = "open"
    /\ watchSocket' = "closed"
    /\ UNCHANGED <<cur, ctx, blocking, callAt, armed, reads, result, deadline, wd, watched, quit>>

Ended == callAt = "failed" \/ (callAt = "pooled" /\ cur + 1 \notin Watched)
Rests == Ended /\ UNCHANGED watchVars

CallerSteps ==
    \/ SetDeadline \/ ArmNothing \/ StartWatch \/ ArmRendezvous \/ ArmGone
    \/ IOReturns("timeout") \/ IOReturns("closed") \/ Disarm \/ Return
    \/ ProbeEnds

WatchdogSteps == SeeDone \/ Trip \/ SeeQuit

WatchNext ==
    \/ CallerSteps
    \/ WatchdogSteps
    \/ IOReturns("ok") \/ ProbeDeadline \/ NextExchange
    \/ \E e \in Watched : CancelContext(e) \/ FallDue(e)
    \/ CloseQuit \/ CloseSocket
    \/ Rests

\* The Go scheduler runs every goroutine that can run, and Conn.Close goes on
\* to close the socket.  Nothing makes the peer answer or a context end.
WatchFairness ==
    WF_watchVars(CallerSteps) /\ WF_watchVars(WatchdogSteps) /\ WF_watchVars(CloseSocket)

WatchSpec == WatchInit /\ [][WatchNext]_watchVars /\ WatchFairness

-----------------------------------------------------------------------------
\* The states of the caller and of the watchdog; while a call is blocked the
\* watchdog it armed is bound to it and to the deadline it runs under.
WatchTypeOK ==
    /\ cur \in Watched
    /\ callAt \in {"start", "arm", "io", "disarm", "clear", "failed", "pooled", "probing"}
    /\ wd \in {"none", "idle", "watching", "tripping", "tripped", "gone"}
    /\ \A k \in {"read", "write"} :
         deadline[k].of \in {0} \cup Watched /\ deadline[k].past \in BOOLEAN
    /\ callAt = "io" /\ armed =>
         /\ wd \in {"watching", "tripping", "tripped"}
         /\ watched = [of |-> cur, kind |-> Kind(blocking)]

\* A call that times out does so on its own account: its context has ended or
\* its deadline has passed (deadlineCause relies on it).  No deadline of an
\* earlier exchange, of a probe or of a late watchdog is left for it: between
\* exchanges the watchdog is bound to nothing, and the socket a pooled connection
\* is handed out with has no write deadline.
TimeoutIsOwn ==
    /\ result = "timeout" => ctx[cur].done \/ ctx[cur].due
    /\ callAt \in {"pooled", "probing", "start"} =>
         /\ wd \notin {"watching", "tripping", "tripped"}
         /\ deadline["write"] = NoDeadline

\* Ending the context of a blocked call releases it, whatever the peer does, and
\* arming and disarming never block for good, even when Conn.Close retires the
\* watchdog at the same moment.
CallsEnd ==
    /\ \A e \in Watched : (callAt = "io" /\ cur = e /\ ctx[e].done) ~> ~(callAt = "io" /\ cur = e)
    /\ callAt \in {"arm", "disarm"} ~> callAt \notin {"arm", "disarm"}
=============================================================================
