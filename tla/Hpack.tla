------------------------------- MODULE Hpack -------------------------------
(***************************************************************************)
(* The HPACK codec of package hpack: the dynamic table, the hash index the *)
(* encoder finds its entries by, the encoder and the decoder.              *)
(*                                                                         *)
(* A table keeps its entries' bytes in one arena, and an entry is a place  *)
(* in it: at() hands out slices of the arena.  Units stand for bytes; a    *)
(* field is its name and its value, as long as the value's Size, and fills *)
(* each of its units.  The 32 octets of overhead are part of that size.    *)
(***************************************************************************)
EXTENDS Integers, SequencesExt

CONSTANTS Static,       \* the static table, a sequence of fields
          Size,         \* Size[v]: the length of an entry with value v
          Hash,         \* Hash[s]: what maphash gives for a name or a value
          CallerLimit,  \* the encoder's own cap on its table
          MaxLocal      \* SETTINGS_HEADER_TABLE_SIZE of the decoder's side

NoIndex == [newest |-> -1]
NoHashes == [h \in {} |-> 0]
EmptyIndex == [newest |-> 0, byName |-> NoHashes, byNameValue |-> NoHashes]

(* newDynamicTable. "epoch" counts the arenas one block has gone through. *)
NewTable(max, index) ==
  [entries |-> <<>>, arena |-> <<>>, alen |-> 0, used |-> 0, size |-> 0,
   max |-> max, index |-> index, epoch |-> 0]

Count(t) == Len(t.entries)

(* at(i): entry 1 is the newest. *)
At(t, i) == t.arena[t.entries[Count(t) - i + 1].off + 1]

-----------------------------------------------------------------------------
(* dynamicTableIndex: ids number the insertions, and a hash keeps the newest. *)
Key(f) == <<Hash[f.n], Hash[f.v]>>

IndexAdd(x, f) ==
  IF x = NoIndex THEN x
  ELSE [newest |-> x.newest + 1,
        byName |-> (Hash[f.n] :> x.newest + 1) @@ x.byName,
        byNameValue |-> (Key(f) :> x.newest + 1) @@ x.byNameValue]

Without(map, k, id) ==
  IF k \in DOMAIN map /\ map[k] = id THEN Restrict(map, DOMAIN map \ {k}) ELSE map

IndexRemove(x, f, count) ==
  IF x = NoIndex THEN x
  ELSE LET id == x.newest - count + 1
       IN [x EXCEPT !.byName = Without(@, Hash[f.n], id),
                    !.byNameValue = Without(@, Key(f), id)]

Same(f, g) == f.n = g.n /\ f.v = g.v
Found(i, full) == [idx |-> i, full |-> full]

LookupAfterCollision(t, f) ==
  LET named == {i \in 1..Count(t) : At(t, i).n = f.n}
      equal == {i \in named : At(t, i).v = f.v}
  IN IF equal # {} THEN Found(Min(equal), TRUE)
     ELSE Found(IF named = {} THEN 0 ELSE Min(named), FALSE)

IndexLookup(t, f) ==
  LET x == t.index
      Place(id) == x.newest - id + 1
      nameIndex == Place(x.byName[Hash[f.n]])
      index == Place(x.byNameValue[Key(f)])
  IN IF Hash[f.n] \notin DOMAIN x.byName THEN Found(0, FALSE)
     ELSE IF At(t, nameIndex).n # f.n THEN LookupAfterCollision(t, f)
     ELSE IF At(t, nameIndex).v = f.v THEN Found(nameIndex, TRUE)
     ELSE IF Key(f) \notin DOMAIN x.byNameValue THEN Found(nameIndex, FALSE)
     ELSE IF Same(At(t, index), f) THEN Found(index, TRUE)
     ELSE LookupAfterCollision(t, f)

-----------------------------------------------------------------------------
(* evictOldest: the arena starts over once the last entry has gone; its old *)
(* bytes stay where they were until the next insertion.                     *)
EvictOldest(t) ==
  LET n == Head(t.entries).len
  IN [t EXCEPT !.index = IndexRemove(@, At(t, Count(t)), Count(t)),
               !.entries = Tail(@), !.size = @ - n, !.used = @ - n,
               !.alen = IF Count(t) = 1 THEN 0 ELSE @]

EvictTo(t, room) ==
  FoldLeft(LAMBDA a, e : IF a.size > room THEN EvictOldest(a) ELSE a, t, t.entries)

Clear(t) ==
  [t EXCEPT !.index = IF @ = NoIndex THEN @ ELSE EmptyIndex,
            !.entries = <<>>, !.alen = 0, !.used = 0, !.size = 0]

SetMaxSize(t, n) == EvictTo([t EXCEPT !.max = n], n)

(* compactArena copies the live entries, oldest first, to a new arena. *)
CompactArena(t) ==
  LET Before(i) == FoldLeft(LAMBDA a, e : a + e.len, 0, SubSeq(t.entries, 1, i - 1))
      Bytes(e) == SubSeq(t.arena, e.off + 1, e.off + e.len)
  IN [t EXCEPT !.entries = [i \in DOMAIN @ |-> [@[i] EXCEPT !.off = Before(i)]],
               !.arena = FoldLeft(LAMBDA a, e : a \o Bytes(e), <<>>, t.entries),
               !.alen = t.used, !.epoch = @ + 1]

(* The append of add: it writes over whatever lies past the arena's length. *)
AppendEntry(t, f) ==
  LET n == Size[f.v]
      end == t.alen + n
  IN [t EXCEPT !.arena = SubSeq(@, 1, t.alen) \o [i \in 1..n |-> f]
                           \o SubSeq(@, end + 1, Len(@)),
               !.alen = end, !.used = @ + n, !.size = @ + n,
               !.entries = Append(@, [off |-> t.alen, len |-> n]),
               !.index = IndexAdd(@, f)]

Add(t, f) ==
  IF Size[f.v] > t.max THEN Clear(t)
  ELSE LET u == AppendEntry(EvictTo(t, t.max - Size[f.v]), f)
       IN IF u.alen > 2 * u.used THEN CompactArena(u) ELSE u

-----------------------------------------------------------------------------
(* The encoder: "pending" is the size update the next block opens with. *)
NoUpdate == -1
NewEncoder(max) == [t |-> NewTable(max, EmptyIndex), limit |-> max, pending |-> NoUpdate]

(* SetMaxDynamicTableSize and recomputeLocalLimit. *)
SetEncoderMax(enc, peerMax) ==
  LET limit == Min({peerMax, CallerLimit})
  IN IF limit = enc.limit THEN enc
     ELSE [t |-> SetMaxSize(enc.t, limit), limit |-> limit, pending |-> limit]

StaticLen == Len(Static)

StaticIndex(f) ==
  LET named == {i \in 1..StaticLen : Static[i].n = f.n}
      equal == {i \in named : Static[i].v = f.v}
  IN IF equal # {} THEN Found(Min(equal), TRUE)
     ELSE Found(IF named = {} THEN 0 ELSE Min(named), FALSE)

Indexed(i) == [k |-> "indexed", idx |-> i]
Literal(mode, i, f) ==
  [k |-> mode, idx |-> i, n |-> IF i = 0 THEN f.n ELSE "by index", v |-> f.v]

(* writeFieldAlreadyFlushedSize; mode is "incremental", "without" or "never". *)
WriteField(e, f) ==
  LET stat == StaticIndex(f)
      dyn == IndexLookup(e.enc.t, f)
      nameIdx == IF stat.idx # 0 THEN stat.idx
                 ELSE IF dyn.idx # 0 THEN dyn.idx + StaticLen ELSE 0
      Emit(op) == [e EXCEPT !.ops = Append(@, op)]
  IN IF f.mode # "never" /\ stat.full THEN Emit(Indexed(stat.idx))
     ELSE IF f.mode # "never" /\ dyn.full THEN Emit(Indexed(dyn.idx + StaticLen))
     ELSE IF f.mode = "incremental"
          THEN [Emit(Literal(f.mode, nameIdx, f))
                  EXCEPT !.enc.t = Add(@, [n |-> f.n, v |-> f.v])]
     ELSE Emit(Literal(f.mode, nameIdx, f))

(* EncodeBlock: the pending size update, then the fields. *)
EncodeBlock(enc, fields) ==
  LET update == IF enc.pending = NoUpdate THEN <<>>
                ELSE <<[k |-> "size", size |-> enc.pending]>>
  IN FoldLeft(WriteField, [enc |-> [enc EXCEPT !.pending = NoUpdate], ops |-> update],
              fields)

-----------------------------------------------------------------------------
(* The decoder. A visited field is a slice: of the arena for a dynamic      *)
(* entry (at an epoch and an offset), of memory of its own otherwise.       *)
NewDecoder == NewTable(MaxLocal, NoIndex)

Own(f) == [f |-> f, epoch |-> -1, off |-> 0]
InArena(t, i) ==
  [f |-> At(t, i), epoch |-> t.epoch, off |-> t.entries[Count(t) - i + 1].off]

(* What a slice shows when it is read: an arena left behind keeps its bytes. *)
Read(t, s) == IF s.epoch = t.epoch THEN t.arena[s.off + 1] ELSE s.f

Lookup(t, i) == IF i <= StaticLen THEN Own(Static[i]) ELSE InArena(t, i - StaticLen)
Resolves(t, i) == i \in 1..(StaticLen + Count(t))

(* decodeOne on the state of a block: the table, the slices visited, "ok". *)
DecodeOne(d, op) ==
  LET name == IF op.idx = 0 THEN op.n ELSE Lookup(d.t, op.idx).f.n
      f == [n |-> name, v |-> op.v]
      Visit(e, s) == [e EXCEPT !.out = Append(@, s)]
      Refuse == [d EXCEPT !.ok = FALSE]
  IN IF ~d.ok THEN d
     ELSE IF op.k = "size"
          THEN IF op.size > MaxLocal THEN Refuse ELSE [d EXCEPT !.t = SetMaxSize(@, op.size)]
     ELSE IF op.k = "indexed"
          THEN IF Resolves(d.t, op.idx) THEN Visit(d, Lookup(d.t, op.idx)) ELSE Refuse
     ELSE IF op.idx # 0 /\ ~Resolves(d.t, op.idx) THEN Refuse
     ELSE IF op.k = "incremental" THEN Visit([d EXCEPT !.t = Add(@, f)], Own(f))
     ELSE Visit(d, Own(f))

DecodeBlock(t, ops) ==
  FoldLeft(DecodeOne, [t |-> [t EXCEPT !.epoch = 0], out |-> <<>>, ok |-> TRUE], ops)
=============================================================================
