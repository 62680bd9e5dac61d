----------------------------- MODULE QpackEncoder -----------------------------
(***************************************************************************)
(* The encoder half of QPACK: the client's own dynamic table               *)
(* (qpack/encoder.go) as http3/client.go drives it.  SETTINGS install the  *)
(* encoder; every request is encoded under encMu, may insert fields, and   *)
(* refers only to entries the server has acknowledged; the insertions go   *)
(* to the encoder stream, which flow control may stop half way, while the  *)
(* requests travel on streams of their own and arrive in any order.        *)
(***************************************************************************)
EXTENDS QpackTable

CONSTANTS
  Fields,       \* header fields, all of one size
  Secret,       \* those among them that are Sensitive
  EncMax,       \* the server's SETTINGS_QPACK_MAX_TABLE_CAPACITY, in entries
  OwnMax,       \* qpackDynamicTableCapacity, in entries
  MaxRequests   \* bound: requests encoded

VARIABLES
  encOn,      \* qpackEncoder is installed
  mine,       \* the encoder's table: entry i has absolute index i - 1
  encKnown,   \* known
  encBuf,     \* encWriteBuf
  encResidue, \* encHasResidue
  encWire,    \* insertions on their way to the server
  theirs,     \* the table the server keeps
  reported,   \* the insertions the server has acknowledged
  incWire,    \* Insert Count Increments on their way back
  requests    \* encoded requests, with what each line is meant to be

encVars == <<encOn, mine, encKnown, encBuf, encResidue, encWire, theirs, reported, incWire, requests>>

EncCap == IF EncMax < OwnMax THEN EncMax ELSE OwnMax

Literal == -1

\* Faulty variant: an entry may be referred to as soon as it is inserted.
EncodeFieldEagerly(st, f) ==
  LET hits == {i \in DOMAIN st.tab : st.tab[i] = f}
  IN IF f \in Secret THEN [st EXCEPT !.lines = Append(@, <<f, Literal>>)]
     ELSE IF hits # {} THEN [st EXCEPT !.lines = Append(@, <<f, Max(hits) - 1>>)]
     ELSE [tab |-> IF Len(st.tab) < EncCap THEN Append(st.tab, f) ELSE st.tab,
           lines |-> Append(st.lines, <<f, Literal>>)]

\* encodeDynamicFieldSection on one field: a reference, an insertion, or neither.
EncodeField(st, f) ==
  LET hits == {i \in DOMAIN st.tab : st.tab[i] = f}
      abs  == Max(hits) - 1
  IN IF f \in Secret THEN [st EXCEPT !.lines = Append(@, <<f, Literal>>)]
     ELSE IF hits # {}
     THEN [st EXCEPT !.lines = Append(@, <<f, IF abs < encKnown THEN abs ELSE Literal>>)]
     ELSE [tab |-> IF Len(st.tab) < EncCap THEN Append(st.tab, f) ELSE st.tab,
           lines |-> Append(st.lines, <<f, Literal>>)]

\* appendSectionPrefix and the lines: references relative to a base that is the count.
Section(lines) ==
  LET refs == {lines[i][2] : i \in DOMAIN lines} \ {Literal}
      ric  == IF refs = {} THEN 0 ELSE Max(refs) + 1
  IN [enc |-> EncodeRIC(ric, EncMax), ric |-> ric,
      lines |-> [i \in DOMAIN lines |->
                   [f |-> lines[i][1], ref |-> lines[i][2] # Literal,
                    idx |-> IF lines[i][2] = Literal THEN 0 ELSE ric - lines[i][2] - 1]]]

\* flushEncWriteLocked: k of the buffered insertions are accepted.
EncFlush(buf, k) ==
  /\ k <= Len(buf)
  /\ encWire' = encWire \o SubSeq(buf, 1, k)
  /\ encBuf' = SubSeq(buf, k + 1, Len(buf))
  /\ encResidue' = IF buf = <<>> THEN encResidue ELSE k < Len(buf)

-----------------------------------------------------------------------------
\* applyServerSettings, enableEncoderDynamic: once, and only for a table with room.
EnableEncoder ==
  /\ ~encOn /\ EncMax >= 1 /\ encOn' = TRUE
  /\ UNCHANGED <<mine, encKnown, encBuf, encResidue, encWire, theirs, reported, incWire, requests>>

\* encodeRequestHeaders
EncodeRequest(fs, k) ==
  /\ Cardinality(requests) < MaxRequests
  /\ IF ~encOn
     THEN /\ k = 0 /\ UNCHANGED <<mine, encBuf, encResidue, encWire>>
          /\ requests' = requests \cup {Section([i \in DOMAIN fs |-> <<fs[i], Literal>>])}
     ELSE LET st    == FoldLeft(EncodeField, [tab |-> mine, lines |-> <<>>], fs)
              fresh == SubSeq(st.tab, Len(mine) + 1, Len(st.tab))
          IN /\ mine' = st.tab /\ requests' = requests \cup {Section(st.lines)}
             /\ IF fresh # <<>> THEN EncFlush(encBuf \o fresh, k)
                ELSE k = 0 /\ UNCHANGED <<encBuf, encResidue, encWire>>
  /\ UNCHANGED <<encOn, encKnown, theirs, reported, incWire>>

\* flushQPACKEncoderStream, when the read loop finds a residue.
FlushInserts(k) ==
  /\ encResidue /\ k > 0 /\ EncFlush(encBuf, k)
  /\ UNCHANGED <<encOn, mine, encKnown, theirs, reported, incWire, requests>>

ServerTakesInsert ==
  /\ encWire # <<>> /\ theirs' = Append(theirs, Head(encWire)) /\ encWire' = Tail(encWire)
  /\ UNCHANGED <<encOn, mine, encKnown, encBuf, encResidue, reported, incWire, requests>>

ServerReports ==
  /\ reported < Len(theirs) /\ incWire' = Append(incWire, Len(theirs) - reported)
  /\ reported' = Len(theirs)
  /\ UNCHANGED <<encOn, mine, encKnown, encBuf, encResidue, encWire, theirs, requests>>

\* readQPACKDecoder and ParseDecoderInstructions: only an increment changes state.
ReadIncrement ==
  /\ incWire # <<>> /\ incWire' = Tail(incWire)
  /\ Head(incWire) > 0 /\ encKnown + Head(incWire) <= Len(mine)
  /\ encKnown' = encKnown + Head(incWire)
  /\ UNCHANGED <<encOn, mine, encBuf, encResidue, encWire, theirs, reported, requests>>

EncInit ==
  /\ encOn = FALSE /\ mine = <<>> /\ encKnown = 0 /\ encBuf = <<>> /\ encResidue = FALSE
  /\ encWire = <<>> /\ theirs = <<>> /\ reported = 0 /\ incWire = <<>> /\ requests = {}

EncNext ==
  \/ EnableEncoder \/ ServerTakesInsert \/ ServerReports \/ ReadIncrement
  \/ \E k \in 0..EncCap : FlushInserts(k)
       \/ \E f, g \in Fields : EncodeRequest(<<f, g>>, k)

(***************************************************************************)
(* No request can block at the server or name the wrong field: whatever    *)
(* part of the encoder stream has arrived, every reference of every        *)
(* encoded request is to an entry the server already holds, its prefix     *)
(* decodes to the count it was built from, and the entry is the field that *)
(* was meant; sensitive fields never enter the table (src/qpack/encoder.go:*)
(* 181, src/http3/client.go:781).                                          *)
(***************************************************************************)
RequestsNeverBlock ==
  /\ theirs \o encWire \o encBuf = mine
  /\ encBuf # <<>> => encResidue
  /\ Secret \cap Range(mine) = {}
  /\ \A q \in requests :
       /\ DecodeRIC(q.enc, EncMax, Len(theirs)) = q.ric /\ q.ric <= Len(theirs)
       /\ \A i \in DOMAIN q.lines :
            q.lines[i].ref => theirs[q.ric - q.lines[i].idx] = q.lines[i].f
=============================================================================
