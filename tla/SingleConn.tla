----------------------------- MODULE SingleConn -----------------------------
(* The transports that keep one connection per client: singleConn (HTTP/2),
   h1singleConn, singleH3Conn, and alpnSingleConn, which dials once to learn
   the protocol and then delegates to one of the first two. They share one
   shape: a cached connection, one dial at a time whose waiters sleep on a
   channel, a backoff after a failed dial, a warm-up goroutine and a Close
   that may come at any point. What a request does on its exchange is
   ClientCall; here it ends by giving the connection back. *)
EXTENDS Integers, FiniteSets

CONSTANTS
    Openers,    \* goroutines that call openExchange
    Links,      \* connections, numbered in the order they are dialled
    Protocols,  \* protocols the client may be configured with
    MaxCalls    \* bound on the calls of openExchange and of warmup

ASSUME SingleBounds ==
    /\ Links = 1..Cardinality(Links) /\ MaxCalls \in Nat
    /\ "warmup" \notin Openers
    /\ Protocols \subseteq {"h1", "h2", "h3", "alpn"}

VARIABLES
    proto,     \* the transport; "alpn" until a protocol has been detected
    front,     \* alpnSingleConn: whether there is one, detects, is closed
    cache,     \* cur, dialing, backoff (a failed dial not long ago), closed,
               \* warm (warmupCancel is set)
    link,      \* per connection: its state
    at,        \* per goroutine: where it is
    mine,      \* per goroutine: the connection it uses, 0 for none
    inFlight,  \* h1singleConn.inFlight: who holds it
    ghosts,    \* goroutines waiting for inFlight whose caller has gone
    shut,      \* the goroutine in close: where it is, what it took to close
    calls      \* number of calls made

singleVars ==
    <<proto, front, cache, link, at, mine, inFlight, ghosts, shut, calls>>

Warm == "warmup"
Goroutines == Openers \cup {Warm}

SingleInit ==
    /\ proto \in Protocols
    /\ front = [used |-> proto = "alpn", detecting |-> FALSE, closed |-> FALSE]
    /\ cache = [cur |-> 0, dialing |-> FALSE, backoff |-> FALSE,
                closed |-> FALSE, warm |-> FALSE]
    /\ link = [c \in Links |-> "new"]
    /\ at = [k \in Goroutines |-> "out"]
    /\ mine = [k \in Goroutines |-> 0]
    /\ inFlight = "free" /\ ghosts = 0
    /\ shut = [at |-> "open", took |-> 0]
    /\ calls = 0

-----------------------------------------------------------------------------
\* HTTP/2 IsAlive is false after a GOAWAY as well as after the socket's death;
\* singleH3Conn does not ask.
IsAlive(c) == link[c] \in {"up", "residue"}

NextLink == CHOOSE c \in Links : link[c] = "new"
                 /\ \A d \in Links : link[d] = "new" => c <= d
CanDial  == \E c \in Links : link[c] = "new"

Goes(k, where) == at' = [at EXCEPT ![k] = where]

\* An openExchange that ends without an exchange, or an exchange that ends: an
\* HTTP/1.1 caller lets the next one in. The warm-up clears its latch too.
Leaves(k) ==
    /\ Goes(k, "out")
    /\ mine' = [mine EXCEPT ![k] = 0]
    /\ inFlight' = IF inFlight = k THEN "free" ELSE inFlight

Unlatched(k, c) == IF k = Warm THEN [c EXCEPT !.warm = FALSE] ELSE c

\* The connection k goes on with; the warm-up only wanted it dialled.
Uses(k, c) ==
    IF k = Warm THEN Leaves(k)
    ELSE Goes(k, "use") /\ mine' = [mine EXCEPT ![k] = c] /\ UNCHANGED inFlight

\* Where an openExchange of the detected protocol starts.
Entry(p) == IF p = "h1" THEN "queue" ELSE "look"

OpenSingle(k) ==
    /\ k # Warm /\ at[k] = "out" /\ calls < MaxCalls
    /\ calls' = calls + 1
    /\ Goes(k, IF front.used THEN "front" ELSE Entry(proto))
    /\ UNCHANGED <<proto, front, cache, link, mine, inFlight, ghosts, shut>>

(* alpnSingleConn. *)

Delegate(k) ==
    /\ at[k] = "front" /\ ~front.closed /\ proto # "alpn"
    /\ Goes(k, Entry(proto))
    /\ UNCHANGED <<proto, front, cache, link, mine, inFlight, ghosts, shut, calls>>

FrontClosed(k) ==
    /\ at[k] = "front" /\ front.closed
    /\ Leaves(k)
    /\ UNCHANGED <<proto, front, cache, link, ghosts, shut, calls>>

Detect(k) ==
    /\ at[k] = "front" /\ ~front.closed /\ proto = "alpn" /\ ~front.detecting
    /\ front' = [front EXCEPT !.detecting = TRUE]
    /\ Goes(k, "detect")
    /\ UNCHANGED <<proto, cache, link, mine, inFlight, ghosts, shut, calls>>

\* Detection ends: a delegate holding the first connection, closed at once when
\* the client was closed meanwhile.
Detected(k, p) ==
    /\ at[k] = "detect" /\ CanDial
    /\ front' = [front EXCEPT !.detecting = FALSE]
    /\ IF front.closed
       THEN /\ link' = [link EXCEPT ![NextLink] = "closed"]
            /\ Leaves(k)
            /\ UNCHANGED <<proto, cache>>
       ELSE /\ link' = [link EXCEPT ![NextLink] = "up"]
            /\ cache' = [cache EXCEPT !.cur = NextLink]
            /\ proto' = p
            /\ Goes(k, Entry(p))
            /\ UNCHANGED <<mine, inFlight>>
    /\ UNCHANGED <<ghosts, shut, calls>>

DetectFails(k) ==
    /\ at[k] = "detect"
    /\ front' = [front EXCEPT !.detecting = FALSE]
    /\ Leaves(k)
    /\ UNCHANGED <<proto, cache, link, ghosts, shut, calls>>

(* h1singleConn.inFlight: one exchange at a time. *)

LockInFlight(k) ==
    /\ at[k] = "queue" /\ inFlight = "free"
    /\ inFlight' = k
    /\ Goes(k, "look")
    /\ UNCHANGED <<proto, front, cache, link, mine, ghosts, shut, calls>>

\* The caller's context ends while its goroutine queues for the lock: the
\* goroutine stays, takes the lock in its turn and drops it.
GiveUpQueue(k) ==
    /\ at[k] = "queue" /\ k # Warm
    /\ ghosts' = ghosts + 1
    /\ Leaves(k)
    /\ UNCHANGED <<proto, front, cache, link, shut, calls>>

GhostLocks ==
    /\ ghosts > 0 /\ inFlight = "free"
    /\ inFlight' = "ghost" /\ ghosts' = ghosts - 1
    /\ UNCHANGED <<proto, front, cache, link, at, mine, shut, calls>>

GhostUnlocks ==
    /\ inFlight = "ghost" /\ inFlight' = "free"
    /\ UNCHANGED <<proto, front, cache, link, at, mine, ghosts, shut, calls>>

-----------------------------------------------------------------------------
(* acquireConn, one turn of its loop under the mutex. *)

AcquireRest == UNCHANGED <<proto, front, ghosts, shut, calls>>

AcquireClosed(k) ==
    /\ at[k] = "look" /\ cache.closed
    /\ cache' = Unlatched(k, cache)
    /\ Leaves(k)
    /\ UNCHANGED link /\ AcquireRest

Reuse(k, usable) ==
    /\ at[k] = "look" /\ ~cache.closed /\ usable
    /\ cache' = Unlatched(k, cache)
    /\ Uses(k, cache.cur)
    /\ UNCHANGED link /\ AcquireRest

\* A connection that is no longer alive is forgotten, not closed.
Forget(c) == [c EXCEPT !.cur = 0]

WaitForDial(k, usable) ==
    /\ at[k] = "look" /\ ~cache.closed /\ ~usable /\ cache.dialing
    /\ cache' = Forget(cache)
    /\ Goes(k, "wait")
    /\ UNCHANGED <<link, mine, inFlight>> /\ AcquireRest

RefuseInBackoff(k, usable) ==
    /\ at[k] = "look" /\ ~cache.closed /\ ~usable
    /\ ~cache.dialing /\ cache.backoff
    /\ cache' = Unlatched(k, Forget(cache))
    /\ Leaves(k)
    /\ UNCHANGED link /\ AcquireRest

StartDial(k, usable) ==
    /\ at[k] = "look" /\ ~cache.closed /\ ~usable
    /\ ~cache.dialing /\ ~cache.backoff
    /\ cache' = [Forget(cache) EXCEPT !.dialing = TRUE]
    /\ Goes(k, "dial")
    /\ UNCHANGED <<link, mine, inFlight>> /\ AcquireRest

AcquireTurn(k, usable) ==
    \/ AcquireClosed(k) \/ Reuse(k, usable) \/ WaitForDial(k, usable)
    \/ RefuseInBackoff(k, usable) \/ StartDial(k, usable)

AcquireConn(k) == proto = "h2" /\ AcquireTurn(k, cache.cur # 0 /\ IsAlive(cache.cur))

\* Octets nobody asked for make an HTTP/1.1 connection unusable: it is closed
\* and the loop goes round.
Residue == cache.cur # 0 /\ link[cache.cur] = "residue"

DropResidue(k) ==
    /\ proto = "h1" /\ at[k] = "look" /\ ~cache.closed
    /\ Residue
    /\ link' = [link EXCEPT ![cache.cur] = "closed"]
    /\ cache' = Forget(cache)
    /\ UNCHANGED <<at, mine, inFlight>> /\ AcquireRest

H1AcquireConn(k) ==
    /\ proto = "h1"
    /\ \/ DropResidue(k)
       \/ /\ ~(Residue /\ ~cache.closed)
          /\ AcquireTurn(k, cache.cur # 0 /\ IsAlive(cache.cur))

\* An HTTP/3 client is reused for as long as there is one.
H3AcquireClient(k) == proto = "h3" /\ AcquireTurn(k, cache.cur # 0)

GiveUpWait(k) ==
    /\ at[k] = "wait" \/ (at[k] = "front" /\ front.detecting)
    /\ cache' = Unlatched(k, cache)
    /\ Leaves(k)
    /\ UNCHANGED link /\ AcquireRest

\* The dial is over: everybody who slept on its channel looks again.
Woken(k, where) ==
    [g \in Goroutines |-> IF g = k THEN where ELSE IF at[g] = "wait" THEN "look"
                                                    ELSE at[g]]

EndDial(k, where) ==
    /\ at' = Woken(k, where)
    /\ inFlight' = IF where = "out" /\ inFlight = k THEN "free" ELSE inFlight

Settled == Unlatched(CHOOSE g \in Goroutines : at[g] = "dial",
                     [cache EXCEPT !.dialing = FALSE])

DialedBlind(k) ==
    /\ at[k] = "dial" /\ CanDial
    /\ link' = [link EXCEPT ![NextLink] = "up"]
    /\ cache' = [Settled EXCEPT !.cur = NextLink, !.backoff = FALSE]
    /\ IF k = Warm THEN EndDial(k, "out") /\ UNCHANGED mine
       ELSE EndDial(k, "use") /\ mine' = [mine EXCEPT ![k] = NextLink]

\* A connection dialled while the client was being closed is closed by the one
\* who dialled it.
Dialed(k) ==
    /\ at[k] = "dial" /\ CanDial
    /\ IF cache.closed
       THEN /\ link' = [link EXCEPT ![NextLink] = "closed"]
            /\ cache' = Settled
            /\ EndDial(k, "out") /\ UNCHANGED mine
       ELSE /\ link' = [link EXCEPT ![NextLink] = "up"]
            /\ cache' = [Settled EXCEPT !.cur = NextLink, !.backoff = FALSE]
            /\ IF k = Warm THEN EndDial(k, "out") /\ UNCHANGED mine
               ELSE EndDial(k, "use") /\ mine' = [mine EXCEPT ![k] = NextLink]

\* The dial failed, the dialling caller's own context included, or an HTTP/1.1
\* dial negotiated something else.
DialFailed(k, refused) ==
    /\ at[k] = "dial" /\ (refused => CanDial)
    /\ link' = IF refused THEN [link EXCEPT ![NextLink] = "closed"] ELSE link
    /\ cache' = [Settled EXCEPT !.backoff = @ \/ ~cache.closed]
    /\ EndDial(k, "out") /\ UNCHANGED mine

DialEnds(k)   == proto = "h2" /\ (Dialed(k) \/ DialFailed(k, FALSE)) /\ AcquireRest
H1DialEnds(k) == /\ proto = "h1"
                 /\ Dialed(k) \/ \E refused \in BOOLEAN : DialFailed(k, refused)
                 /\ AcquireRest
H3DialEnds(k) == proto = "h3" /\ (Dialed(k) \/ DialFailed(k, FALSE)) /\ AcquireRest

BackoffElapses ==
    /\ cache.backoff
    /\ cache' = [cache EXCEPT !.backoff = FALSE]
    /\ UNCHANGED <<proto, front, link, at, mine, inFlight, ghosts, shut, calls>>

-----------------------------------------------------------------------------
(* The end of an exchange. *)

Done(k) ==
    /\ at[k] = "use" /\ proto # "h1"
    /\ Leaves(k)
    /\ UNCHANGED <<proto, front, cache, link, ghosts, shut, calls>>

\* An HTTP/1.1 exchange that does not end well takes its connection with it.
H1Done(k, keepAlive) ==
    /\ at[k] = "use" /\ proto = "h1"
    /\ keepAlive => IsAlive(mine[k])
    /\ Leaves(k)
    /\ IF keepAlive THEN UNCHANGED <<cache, link>>
       ELSE /\ link' = [link EXCEPT ![mine[k]] = "closed"]
            /\ cache' = IF cache.cur = mine[k] THEN Forget(cache) ELSE cache
    /\ UNCHANGED <<proto, front, ghosts, shut, calls>>

(* warmup. The HTTP/1.1 one queues behind the exchange in flight, whose octets
   it would otherwise take for residue. *)

WarmupTo(where) ==
    /\ proto # "alpn" /\ calls < MaxCalls
    /\ ~cache.closed /\ ~cache.warm /\ at[Warm] = "out"
    /\ calls' = calls + 1
    /\ cache' = [cache EXCEPT !.warm = TRUE]
    /\ Goes(Warm, where)
    /\ UNCHANGED <<proto, front, link, mine, inFlight, ghosts, shut>>

H2Warmup == proto = "h2" /\ WarmupTo("look")
H1Warmup == proto = "h1" /\ WarmupTo("queue")
H3Warmup == proto = "h3" /\ WarmupTo("look")

(* close. singleConn.close looks for the connection in a second critical
   section, its shutdown and the other transports in the first. *)

Closable == IF front.used THEN "delegate" ELSE "open"

CloseMark ==
    /\ proto # "alpn" /\ ~cache.closed
    /\ shut.at = Closable
    /\ shut' = [shut EXCEPT !.at = "marked"]
    /\ cache' = [cache EXCEPT !.closed = TRUE, !.warm = FALSE]
    /\ UNCHANGED <<proto, front, link, at, mine, inFlight, ghosts, calls>>

CloseTake ==
    /\ shut.at = "marked" /\ proto = "h2"
    /\ shut' = [at |-> "taken", took |-> cache.cur]
    /\ cache' = Forget(cache)
    /\ UNCHANGED <<proto, front, link, at, mine, inFlight, ghosts, calls>>

MarkAndTake ==
    /\ proto # "alpn" /\ ~cache.closed
    /\ shut.at = Closable
    /\ shut' = [at |-> "taken", took |-> cache.cur]
    /\ cache' = [Forget(cache) EXCEPT !.closed = TRUE, !.warm = FALSE]
    /\ UNCHANGED <<proto, front, link, at, mine, inFlight, ghosts, calls>>

Close    == proto = "h2" /\ CloseMark
Shutdown == proto = "h2" /\ MarkAndTake
H1Close  == proto = "h1" /\ MarkAndTake
H3Close  == proto = "h3" /\ MarkAndTake

CloseConn ==
    /\ shut.at = "taken"
    /\ link' = [c \in Links |-> IF c = shut.took THEN "closed" ELSE link[c]]
    /\ shut' = [at |-> "done", took |-> 0]
    /\ UNCHANGED <<proto, front, cache, at, mine, inFlight, ghosts, calls>>

\* alpnSingleConn.close: the delegate is closed next, if there is one.
FrontClose ==
    /\ front.used /\ shut.at = "open"
    /\ front' = [front EXCEPT !.closed = TRUE]
    /\ shut' = [shut EXCEPT !.at = IF proto = "alpn" THEN "done" ELSE "delegate"]
    /\ UNCHANGED <<proto, cache, link, at, mine, inFlight, ghosts, calls>>

\* The peer: a lost socket, GOAWAY on HTTP/2 (the socket stays open until the
\* peer closes it), octets after the end of an HTTP/1.1 response.
Spoil(c, how) ==
    /\ link[c] = "up"
    /\ how = "away" => proto = "h2"
    /\ how = "residue" => proto = "h1" /\ \A k \in Openers : mine[k] # c
    /\ link' = [link EXCEPT ![c] = how]
    /\ UNCHANGED <<proto, front, cache, at, mine, inFlight, ghosts, shut, calls>>

-----------------------------------------------------------------------------
CallStep(k) ==
    \/ Delegate(k) \/ FrontClosed(k) \/ Detect(k) \/ DetectFails(k)
    \/ \E p \in {"h1", "h2"} : Detected(k, p)
    \/ AcquireConn(k) \/ H1AcquireConn(k) \/ H3AcquireClient(k)
    \/ DialEnds(k) \/ H1DialEnds(k) \/ H3DialEnds(k)
    \/ Done(k)
    \/ \E keepAlive \in BOOLEAN : H1Done(k, keepAlive)

CloseStep == CloseTake \/ CloseConn

SingleNext ==
    \/ \E k \in Goroutines : CallStep(k) \/ LockInFlight(k) \/ GiveUpWait(k)
    \/ \E k \in Openers : OpenSingle(k) \/ GiveUpQueue(k)
    \/ GhostLocks \/ GhostUnlocks \/ BackoffElapses
    \/ H2Warmup \/ H1Warmup \/ H3Warmup
    \/ FrontClose \/ Close \/ Shutdown \/ H1Close \/ H3Close \/ CloseStep
    \/ \E c \in Links, how \in {"dead", "away", "residue"} : Spoil(c, how)

SingleSpec == SingleInit /\ [][SingleNext]_singleVars

-----------------------------------------------------------------------------
\* One connection, one dial, one HTTP/1.1 exchange. Nobody dials while somebody
\* dials or detects; a connection that works is the cached one or the one Close
\* is closing, so that none is left behind by a Close, a failed detection or a
\* dial that ends after it; on HTTP/1.1 nobody looks at the connection, the
\* warm-up included, while another goroutine uses it. And nobody waits for
\* nothing: who sleeps on a dial has one to sleep on, the holder of inFlight is
\* on its way to drop it, and until Close the warm-up latch is set exactly while
\* a warm-up runs (client/single_conn.go:107, client/h1_transport.go:439).
SingleConnSound ==
    /\ Cardinality({k \in Goroutines : at[k] \in {"dial", "detect"}})
         = (IF cache.dialing \/ front.detecting THEN 1 ELSE 0)
    /\ \A c \in Links : link[c] \in {"up", "residue"} =>
         c = shut.took \/ (c = cache.cur /\ shut.at # "done")
    /\ proto = "h1" => \A j, k \in Goroutines :
         at[j] \in {"look", "wait", "dial", "use"}
         /\ at[k] \in {"look", "wait", "dial", "use"} => j = k
    /\ (\E k \in Goroutines : at[k] = "wait") => cache.dialing
    /\ \A k \in Goroutines : inFlight = k => at[k] \in {"look", "dial", "use"}
    /\ ~cache.closed => (cache.warm <=> at[Warm] # "out")
=============================================================================
