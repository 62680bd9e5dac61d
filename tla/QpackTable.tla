----------------------------- MODULE QpackTable -----------------------------
(***************************************************************************)
(* The QPACK dynamic table a client keeps as decoder                       *)
(* (qpack/dynamic_table.go, instructions.go, decoder.go), fed by a server  *)
(* that keeps to RFC 9204: it evicts only entries that are acknowledged    *)
(* and no longer referenced.  The server's instructions arrive in order,   *)
(* its field sections at any time after them or before.  An entry is the   *)
(* insertion its name and its value were first written by, and a size; a   *)
(* field section is one reference, relative to a base, behind a prefix     *)
(* that carries the Required Insert Count modulo twice the table.          *)
(***************************************************************************)
EXTENDS Integers, Sequences, FiniteSets, FiniteSetsExt, SequencesExt

CONSTANTS
  TableMax,       \* maxCapacity, with entryOverhead as the unit
  MaxInserts,     \* bound: insertions
  MaxInstrs,      \* bound: instructions under way
  MaxSections     \* bound: field sections under way

VARIABLES
  log,       \* every entry the server inserted: log[i] has absolute index i - 1
  evicted,   \* how many of them the server has dropped
  cap,       \* the capacity the server set
  instrs,    \* encoder instructions under way
  sections,  \* field sections sent and not yet acknowledged
  known,     \* the server's Known Received Count
  acked,     \* decoded, with the acknowledgement under way
  dt         \* the client's DynamicTable

tblVars == <<log, evicted, cap, instrs, sections, known, acked, dt>>

SizeOf(es) == MapThenSumSet(LAMBDA i : es[i].size, DOMAIN es)

\* maxEntries
MaxEntries == TableMax

\* evictOldest until the size fits: the longest suffix that does.
EvictTo(es, room) ==
  LET k == Min({j \in 1..Len(es) + 1 :
                  j = Len(es) + 1 \/ SizeOf(SubSeq(es, j, Len(es))) <= room})
  IN SubSeq(es, k, Len(es))

\* Faulty variant: >= for > in the loop that makes room.
DtInsertTight(t, e) ==
  [t EXCEPT !.entries = Append(EvictTo(t.entries, t.capacity - e.size - 1), e),
            !.insertCount = @ + 1]

\* insert; an entry that can never fit is refused by its callers.
DtInsert(t, e) ==
  [t EXCEPT !.entries = Append(EvictTo(t.entries, t.capacity - e.size), e),
            !.insertCount = @ + 1]

\* at: an absolute index that is live, or none.
NoEntry == [name |-> -1, val |-> -1, size |-> 0]
At(t, abs) ==
  LET oldest == t.insertCount - Len(t.entries)
  IN IF abs >= oldest /\ abs < t.insertCount THEN t.entries[abs - oldest + 1] ELSE NoEntry

\* atInsertCountRelative
AtRelative(t, rel) == IF rel >= t.insertCount THEN NoEntry ELSE At(t, t.insertCount - rel - 1)

\* parseOneEncoderInstruction: the table after it, or the table marked bad.
Bad(t) == [t EXCEPT !.bad = TRUE]
ApplyInstr(t, x) ==
  IF x.op = "capacity"
  THEN IF x.n > TableMax THEN Bad(t)
       ELSE [t EXCEPT !.capacity = x.n, !.entries = EvictTo(@, x.n)]
  ELSE LET from  == IF x.op = "literal" THEN NoEntry ELSE AtRelative(t, x.rel)
           entry == IF x.op = "literal" THEN [name |-> x.val, val |-> x.val, size |-> x.size]
                    ELSE IF x.op = "nameref" THEN [name |-> from.name, val |-> x.val, size |-> x.size]
                    ELSE from
       IN IF (x.op # "literal" /\ from = NoEntry) \/ entry.size > t.capacity THEN Bad(t)
          ELSE DtInsert(t, entry)

\* encodeRequiredInsertCount
EncodeRIC(ric, maxEntries) == IF ric = 0 THEN 0 ELSE (ric % (2 * maxEntries)) + 1

\* reqInsertCountFromEncoded; -1 is ErrDecompressionFailed.
Undecodable == -1
DecodeRIC(enc, maxEntries, total) ==
  LET full == 2 * maxEntries
      top  == total + maxEntries
      ric  == (top \div full) * full + enc - 1
      low  == IF ric > top THEN ric - full ELSE ric
  IN IF enc = 0 THEN 0
     ELSE IF full = 0 \/ enc > full \/ (ric > top /\ ric <= full) \/ low = 0 THEN Undecodable
     ELSE low

\* parsePrefix: the base from the sign and the delta.
BaseOf(ric, s) == IF s.sign THEN ric - s.delta - 1 ELSE ric + s.delta

\* decodeIndexed and decodePostBaseIndexed: both stay below the Required Insert Count.
Resolve(t, ric, base, s) ==
  IF s.post
  THEN IF base + s.idx < ric THEN At(t, base + s.idx) ELSE NoEntry
  ELSE IF s.idx < base /\ base - s.idx - 1 < ric THEN At(t, base - s.idx - 1) ELSE NoEntry

-----------------------------------------------------------------------------
\* The server: what it may evict, and its three ways to insert.
Live == evicted..(Len(log) - 1)
Referenced(abs) == \E s \in sections : s.abs = abs
MayEvict(upTo) == \A abs \in evicted..(upTo - 1) : abs < known /\ ~Referenced(abs)
OldestThatFits(es, from, room) ==
  Min({k \in from..Len(es) : SizeOf(SubSeq(es, k + 1, Len(es))) <= room})

ServerAdds(entry, instr) ==
  LET keep == OldestThatFits(log, evicted, cap - entry.size)
  IN /\ Len(log) < MaxInserts /\ Len(instrs) < MaxInstrs /\ entry.size <= cap
     /\ MayEvict(keep)
     /\ log' = Append(log, entry) /\ evicted' = keep
     /\ instrs' = Append(instrs, instr)
     /\ UNCHANGED <<cap, sections, known, acked, dt>>

InsertLiteral(size) ==
  ServerAdds([name |-> Len(log), val |-> Len(log), size |-> size],
             [op |-> "literal", val |-> Len(log), size |-> size])

InsertNameRef(abs, size) ==
  /\ abs \in Live
  /\ ServerAdds([name |-> log[abs + 1].name, val |-> Len(log), size |-> size],
                [op |-> "nameref", rel |-> Len(log) - abs - 1, val |-> Len(log), size |-> size])

Duplicate(abs) ==
  /\ abs \in Live
  /\ ServerAdds(log[abs + 1], [op |-> "duplicate", rel |-> Len(log) - abs - 1])

SetCapacity(n) ==
  LET keep == OldestThatFits(log, evicted, n)
  IN /\ n # cap /\ Len(log) < MaxInserts /\ Len(instrs) < MaxInstrs
     /\ MayEvict(keep)
     /\ cap' = n /\ evicted' = keep
     /\ instrs' = Append(instrs, [op |-> "capacity", n |-> n])
     /\ UNCHANGED <<log, sections, known, acked, dt>>

\* A field section refers to one live entry, from a base below, at or above it.
SendSection(abs, base) ==
  /\ abs \in Live /\ Cardinality(sections) < MaxSections
  /\ LET ric == abs + 1
         s   == [abs |-> abs, enc |-> EncodeRIC(ric, MaxEntries), sign |-> base < ric,
                 delta |-> IF base < ric THEN ric - base - 1 ELSE base - ric,
                 post |-> abs >= base, idx |-> IF abs >= base THEN abs - base ELSE base - abs - 1]
     IN s \notin sections /\ sections' = sections \cup {s}
  /\ UNCHANGED <<log, evicted, cap, instrs, known, acked, dt>>

\* A Section Acknowledgment or an Insert Count Increment arrives at the server.
AckArrives(s) ==
  /\ s \in acked
  /\ acked' = acked \ {s} /\ sections' = sections \ {s}
  /\ known' = IF s.abs + 1 > known THEN s.abs + 1 ELSE known
  /\ UNCHANGED <<log, evicted, cap, instrs, dt>>

IncrementArrives ==
  /\ known < dt.insertCount
  /\ known' = dt.insertCount
  /\ UNCHANGED <<log, evicted, cap, instrs, sections, acked, dt>>

-----------------------------------------------------------------------------
\* readQPACKEncoder applies what has arrived, one instruction at a time.
ReadInstruction ==
  /\ instrs # <<>> /\ ~dt.bad
  /\ instrs' = Tail(instrs)
  /\ dt' = ApplyInstr(dt, Head(instrs))
  /\ UNCHANGED <<log, evicted, cap, sections, known, acked>>

\* DecodeFieldSection, once the table has what the section requires.
DecodeSection(s) ==
  /\ s \in sections \ acked
  /\ DecodeRIC(s.enc, MaxEntries, dt.insertCount) \in 0..dt.insertCount
  /\ acked' = acked \cup {s}
  /\ UNCHANGED <<log, evicted, cap, instrs, sections, known, dt>>

TblInit ==
  /\ log = <<>> /\ evicted = 0 /\ cap = 0 /\ instrs = <<>> /\ sections = {} /\ known = 0
  /\ acked = {} /\ dt = [entries |-> <<>>, insertCount |-> 0, capacity |-> 0, bad |-> FALSE]

TblNext ==
  \/ \E size \in 1..2 : InsertLiteral(size)
  \/ \E abs \in 0..MaxInserts : InsertNameRef(abs, 1) \/ Duplicate(abs)
  \/ \E n \in 0..TableMax : SetCapacity(n)
  \/ \E abs \in 0..MaxInserts : \E base \in (abs - 1)..(abs + 2) \cap Nat : SendSection(abs, base)
  \/ \E s \in sections : AckArrives(s) \/ DecodeSection(s)
  \/ IncrementArrives \/ ReadInstruction

(***************************************************************************)
(* The two tables stay in step: whatever the server inserts, duplicates,   *)
(* resizes and evicts, the client never refuses an instruction, its table  *)
(* is the part of the server's log its own evictions leave, and every      *)
(* field section under way, decoded now or later, yields the Required      *)
(* Insert Count it was sent with and, once that is reached, the very entry *)
(* the server meant (src/qpack/decoder.go:281, src/qpack/dynamic_table.go: *)
(* 200).                                                                   *)
(***************************************************************************)
TablesInStep ==
  /\ ~dt.bad /\ SizeOf(dt.entries) <= dt.capacity
  /\ \A i \in DOMAIN dt.entries : dt.entries[i] = log[dt.insertCount - Len(dt.entries) + i]
  /\ \A s \in sections \ acked :
       LET ric == DecodeRIC(s.enc, MaxEntries, dt.insertCount)
       IN /\ ric = s.abs + 1
          /\ ric <= dt.insertCount => Resolve(dt, ric, BaseOf(ric, s), s) = log[s.abs + 1]
=============================================================================
