--------------------------- MODULE CGStreamBuffer ---------------------------
(***************************************************************************)
(* The buffer the stream's objects are written to and read from, its       *)
(* scoped blocks, and VViconCGStreamClient's reading of a packet.          *)
(*                                                                         *)
(* A buffer is a sequence of cells, one for every value written: widths    *)
(* are abstracted, so lengths and offsets count cells.  A text is its size *)
(* and, unless it is empty, one cell.                                      *)
(***************************************************************************)
EXTENDS CGStreamObjects

------------------------------------------------------------------------------
(* Writing                                                                    *)

WriteSize(n) == <<n>>

RECURSIVE Write(_, _)
Write(t, v) ==
    CASE t.kind = "pod"    -> <<v>>
      [] t.kind = "str"    -> IF v = "" THEN WriteSize(0) ELSE WriteSize(1) \o <<v>>
      [] t.kind = "array"  -> v
      [] t.kind = "list"   -> WriteSize(Len(v))
                                \o FlattenSeq([i \in DOMAIN v |-> Write(t.of, v[i])])
      [] t.kind = "set"    -> LET s == InOrder(v)
                              IN  WriteSize(Len(s))
                                    \o FlattenSeq([i \in DOMAIN s |-> Write(t.of, s[i])])
      [] t.kind = "map"    -> LET s == InOrder(DOMAIN v)
                              IN  WriteSize(Len(s))
                                    \o FlattenSeq([i \in DOMAIN s |->
                                         Write(t.key, s[i]) \o Write(t.of, v[s[i]])])
      [] t.kind = "object" -> FlattenSeq([i \in DOMAIN t.fields |->
                                LET f == t.fields[i] IN Write(f.type, v[f.name])])

\* VScopedWriter: a header of the block's enum and of the length its destructor
\* fills in, then what was written in its scope.
Block(enum, cells) == <<enum, Len(cells)>> \o cells

WriteItem(type, item) == Block(type, Write(Object(Layout[type]), item))

------------------------------------------------------------------------------
(* Reading: the offset is that of the next cell, counted from 0               *)

Got(v, at) == [ok |-> TRUE, v |-> v, at |-> at]
Failed(at) == [ok |-> FALSE, at |-> at]

ReadPod(b, at) == IF at + 1 > Len(b) THEN Failed(at) ELSE Got(b[at + 1], at + 1)
ReadPodArray(b, at, n) ==
    IF at + n > Len(b) THEN Failed(at) ELSE Got(SubSeq(b, at + 1, at + n), at + n)
ReadText(b, at) ==
    LET size == ReadPod(b, at) IN
    IF ~size.ok THEN size
    ELSE IF size.v = 0 THEN Got("", size.at) ELSE ReadPod(b, size.at)

RECURSIVE Read(_, _, _)
\* n values one after another, the i-th of type T(i), each added to those before,
\* until one cannot be read.
ReadEach(b, at, n, T(_), none, Add(_, _, _)) ==
    LET upTo[i \in 0..n] ==
          IF i = 0 THEN Got(none, at)
          ELSE LET before == upTo[i - 1]
                   value  == Read(b, before.at, T(i))
               IN  IF ~before.ok THEN before
                   ELSE IF ~value.ok THEN value
                   ELSE Got(Add(before.v, i, value.v), value.at)
    IN  upTo[n]

ReadFields(b, at, fields) ==
    ReadEach(b, at, Len(fields), LAMBDA i : fields[i].type, << >>,
             LAMBDA r, i, v : r @@ (fields[i].name :> v))

Read(b, at, t) ==
    LET size == ReadPod(b, at)
        Elements(type, none, Add(_, _, _)) ==
          IF ~size.ok THEN size ELSE ReadEach(b, size.at, size.v, LAMBDA i : type, none, Add)
    IN  CASE t.kind = "pod"    -> ReadPod(b, at)
          [] t.kind = "str"    -> ReadText(b, at)
          [] t.kind = "array"  -> ReadPodArray(b, at, t.size)
          [] t.kind = "list"   -> Elements(t.of, << >>, LAMBDA r, i, v : Append(r, v))
          [] t.kind = "set"    -> Elements(t.of, {}, LAMBDA r, i, v : r \cup {v})
          [] t.kind = "map"    -> Elements(Object(Field("key", t.key) \o Field("value", t.of)),
                                           << >>, LAMBDA r, i, v : r @@ (v.key :> v.value))
          [] t.kind = "object" -> ReadFields(b, at, t.fields)

\* VScopedReader: its constructor reads the header.  Ok tells whether the offset
\* is inside the block; the destructor leaves the offset behind the block,
\* wherever reading had stopped.
ScopedReader(b, at) ==
    LET enum == ReadPod(b, at) size == ReadPod(b, at + 1) IN
    IF enum.ok /\ size.ok
    THEN [enum |-> enum.v, start |-> size.at, end |-> size.at + size.v]
    ELSE [enum |-> "Invalid", start |-> 0, end |-> 0]
ScopedReaderOk(r, at) == at >= r.start /\ at < r.end
LeaveScope(r, at) == IF r.start < r.end THEN r.end ELSE at

------------------------------------------------------------------------------
(* A packet                                                                   *)

\* One block: an object of a type the client reads is decoded where the block
\* starts, without regard to the block's length; any other block is passed over.
ReadObject(b, block, packet) ==
    IF block.enum \notin StaticTypes \cup DynamicTypes \cup {"Contents"} THEN packet
    ELSE LET r == Read(b, block.start, Object(Layout[block.enum])) IN
         IF ~r.ok THEN [packet EXCEPT !.ok = FALSE]
         ELSE IF block.enum = "Contents" THEN [packet EXCEPT !.contents = <<r.v>>]
         ELSE [packet EXCEPT !.objects = AddObject(@, block.enum, r.v),
                             !.seen = @ \cup {block.enum}]

RECURSIVE ReadBlocks(_, _, _, _)
ReadBlocks(b, at, all, packet) ==
    IF ~packet.ok \/ ~ScopedReaderOk(all, at) THEN packet
    ELSE LET block == ScopedReader(b, at)
         IN  ReadBlocks(b, LeaveScope(block, at + 2), all, ReadObject(b, block, packet))

ReadObjects(b) ==
    LET all   == ScopedReader(b, 0)
        empty == [ok |-> all.enum = "Objects", contents |-> << >>, seen |-> {},
                  objects |-> NoObjects(StaticTypes \cup DynamicTypes)]
    IN  ReadBlocks(b, all.start, all, empty)
==============================================================================
