---------------------------- MODULE MCWritePath ----------------------------
(* What an HTTP/2 connection writes and what it makes of the header blocks it
   reads: the write batcher and the header path share no variable in these
   models, so the run explores them side by side. A behaviour is one of
   WriteBatcher or one of H2Headers. *)
EXTENDS WriteBatcher, H2Headers

VARIABLE side

pathVars == <<side, vars, headerVars>>

PathInit == side \in {"batch", "headers"} /\ Init /\ HeadersInit

\* To keep the instance small, one of the writers at most is not a request's HEADERS.
OneOther == Cardinality({w \in Writers : call'[w] \in {"control", "data"}}) <= 1

PathNext ==
  \/ side = "batch" /\ Next /\ OneOther /\ UNCHANGED <<side, headerVars>>
  \/ side = "headers" /\ HeadersNext /\ UNCHANGED <<side, vars>>

PathSpec == PathInit /\ [][PathNext]_pathVars /\ Fairness

-----------------------------------------------------------------------------
\* Two names with one hash, and two values; a value that fills most of a table;
\* one static entry. A block refers to what it evicts, to a name only, to the
\* static table, or to nothing.
Field(n, v, m) == [n |-> n, v |-> v, mode |-> m]
MCStatic == <<[n |-> "st", v |-> "s"]>>
MCSize == [v \in {"s", "x", "y", "b"} |-> IF v = "b" THEN 2 ELSE 1]
MCHash == [s \in {"st", "s", "x", "y", "b", "a", "c"} |->
             IF s \in {"a", "c"} THEN 1 ELSE IF s \in {"x", "b"} THEN 2 ELSE 3]
MCBlocks ==
  {<<Field("a", "y", "incremental"), Field("st", "y", "never")>>,
   <<Field("a", "x", "incremental"), Field("c", "b", "incremental")>>,
   <<Field("c", "x", "incremental"), Field("st", "s", "without")>>}

\* One more block, whose single entry a later block refers to and then evicts.
MCAliasedBlocks == MCBlocks \cup {<<Field("a", "x", "incremental")>>}
=============================================================================
