----------------------------- MODULE MCExchanges -----------------------------
(* Streams and connections that are handed from one exchange to the next: the
   HTTP/2 stream structs, the HTTP/1.1 pool, and the framing of the exchanges on
   one HTTP/1.1 connection. They share no variable in these models, so the run
   explores them side by side: a behaviour is one of H2Streams, of H1Pool or of
   H1Exchange. *)
EXTENDS H2Streams, H1Pool, H1Exchange, TLC

VARIABLE side

exchangesVars == <<side, streamsVars, vars, exchangeVars>>

\* A side that does not move keeps one fixed state.
ExchangesInit ==
    /\ StreamsInit /\ Init /\ ExchangeInit
    /\ side \in {"streams", "pool", "framing"}
    /\ side # "framing" => ex = NewExchange(CHOOSE m \in Methods : TRUE)

ExchangesNext ==
    \/ side = "streams" /\ StreamsNext /\ UNCHANGED <<side, vars, exchangeVars>>
    \/ side = "pool" /\ Next /\ UNCHANGED <<side, streamsVars, exchangeVars>>
    \/ side = "framing" /\ ExchangeNext /\ UNCHANGED <<side, streamsVars, vars>>

ExchangesSpec == ExchangesInit /\ [][ExchangesNext]_exchangesVars

\* Requests, callers and the pool's connections are interchangeable.
Symmetric == Permutations(Requests) \cup Permutations(Callers) \cup Permutations(Conns)

-----------------------------------------------------------------------------
Line(name, value) == [name |-> name, value |-> value]

FieldLines ==
    {Line("connection", v) : v \in {"close", "keep-alive"}}
    \cup {Line("content-length", v) : v \in {"0", "1", "bad"}}
    \cup {Line("transfer-encoding", v) : v \in {"chunked", "gzip", "open", ""}}

FinalHeads ==
    {[code |-> c, minor |-> m, lines |-> ls] :
        c \in {200, 204, 304}, m \in {0, 1},
        ls \in UNION {[1..k -> FieldLines] : k \in 0..2}}

Plain(ls) == [code |-> 200, minor |-> 1, lines |-> ls]
Sized     == Plain(<<Line("content-length", "1")>>)
Interims  == {[code |-> 100, minor |-> 1, lines |-> <<>>],
              [code |-> 103, minor |-> 1, lines |-> <<Line("connection", "close")>>],
              [code |-> 101, minor |-> 1, lines |-> <<>>]}

\* Every head of up to two framing lines answers a first request without a
\* body; uploads and later requests get an ordinary answer.
MCAnswers(k, m) ==
    IF k > 1 THEN {<<Sized>>}
    ELSE IF m \in Uploads
    THEN {<<Sized>>, <<Plain(<<Line("connection", "close")>>)>>}
         \cup {<<i, Sized>> : i \in Interims}
    ELSE {<<hd>> : hd \in {h \in FinalHeads : h.minor = 1 \/ h.code = 200}}
         \cup {<<Plain(<<Line("invalid", "")>>)>>}
         \cup {<<i, j, Sized>> : i, j \in Interims}

MCTrailers == {<<>>, <<Line("connection", "close")>>, <<Line("invalid", "")>>}
=============================================================================
