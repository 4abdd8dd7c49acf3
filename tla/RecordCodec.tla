---------------------------- MODULE RecordCodec ----------------------------
(***************************************************************************)
(* The KV record wire format, byte by byte: the writer of the shim         *)
(* (RecordWriter and KVRecord, btx_record.h) and the walker of the binding *)
(* (_parseRecord and the list loops, torrent.lcb).                         *)
(*                                                                         *)
(*   list   := [count:u16] { [bodyLen:u16] record }                        *)
(*   record := [count:u16] { [id:u8] [type:u8] [len:u16] value }           *)
(*                                                                         *)
(* A byte is a number below Radix (256 in the code), a u16 two of them, so *)
(* the limits of the u16 fields come within reach of short values. What a  *)
(* number, a real or a text looks like as bytes is left out: a value is    *)
(* its bytes.                                                              *)
(***************************************************************************)
EXTENDS Integers, Sequences

CONSTANTS Radix,    \* values of a byte
          RawType,  \* the type byte FT_RAW; any other type is decoded as text
          Keys      \* the field ids _fieldKey has a key for

ASSUME CodecAssumption ==
  /\ Radix \in Nat /\ 1 < Radix
  /\ RawType \in 0..Radix-1
  /\ Keys \subseteq 0..Radix-1

Byte    == 0..Radix-1
U16Span == Radix * Radix
Field   == [id : Byte, type : Byte, val : Seq(Byte)]

-----------------------------------------------------------------------------
(***************************************************************************)
(* The writer: a position, and the memory the caller's block of cap bytes  *)
(* lies at the start of. A value is copied whole when it fits before cap   *)
(* and not at all otherwise; the position advances either way.             *)
(***************************************************************************)
Writer(block, capacity) == [pos |-> 0, cap |-> capacity, mem |-> block]

Overwrite(mem, at, bytes) ==
  [i \in DOMAIN mem |-> IF i \in at+1 .. at+Len(bytes) THEN bytes[i - at] ELSE mem[i]]

Fits_short(w, n) == w.pos + n <= w.cap + 1                            \* slip

Fits(w, n) == w.pos + n <= w.cap

Put(w, bytes) ==
  [w EXCEPT !.pos = @ + Len(bytes),
            !.mem = IF Fits(w, Len(bytes)) THEN Overwrite(@, w.pos, bytes) ELSE @]

U16(v) == <<(v \div Radix) % Radix, v % Radix>>

\* patch_u16: overwrites a u16 already emitted at position at.
Patch(w, at, v) ==
  [w EXCEPT !.mem = IF at + 2 <= w.cap THEN Overwrite(@, at, U16(v)) ELSE @]

\* field_raw: a value longer than a u16 can say is cut.
ClampLen(n) == IF n < U16Span THEN n ELSE U16Span - 1

PutField(w, f) ==
  LET n == ClampLen(Len(f.val))
  IN  Put(Put(Put(Put(w, <<f.id>>), <<f.type>>), U16(n)), SubSeq(f.val, 1, n))

\* The count is patched in when the fields are out.
PutRecord(w, fields) ==
  LET put[i \in 0..Len(fields)] ==
        IF i = 0 THEN Put(w, U16(0)) ELSE PutField(put[i - 1], fields[i])
  IN  Patch(put[Len(fields)], w.pos, Len(fields))

\* One entry of a list: the length of its record is known, and patched in, last.
BodyLen_fromHead(at, end) == end - at                                  \* slip

BodyLen(at, end) == end - (at + 2)

PutEntry(w, fields) ==
  LET done == PutRecord(Put(w, U16(0)), fields)
  IN  Patch(done, w.pos, BodyLen(w.pos, done.pos))

PutList(w, entries) ==
  LET put[i \in 0..Len(entries)] ==
        IF i = 0 THEN Put(w, U16(0)) ELSE PutEntry(put[i - 1], entries[i])
  IN  Patch(put[Len(entries)], w.pos, Len(entries))

Answer_atCap(w) == IF w.pos >= w.cap THEN -w.pos ELSE w.pos            \* slip

\* What a measured write answers: the bytes written, or the bytes needed, negated.
Answer(w) == IF w.pos > w.cap THEN -w.pos ELSE w.pos

-----------------------------------------------------------------------------
(***************************************************************************)
(* The walker. off is the 1-based place of the next byte; a read past the  *)
(* end throws in the script engine, and then nothing more is read.         *)
(***************************************************************************)
Walk(off, out) == [off |-> off, out |-> out, threw |-> FALSE]

HasBytes(data, off, n) == off + n - 1 <= Len(data)
U16At(data, off)       == data[off] * Radix + data[off + 1]
Throw(walk)            == [walk EXCEPT !.threw = TRUE]

\* rec[key] = val: a second field of the same id replaces the first.
SetKey(rec, id, val) ==
  [k \in DOMAIN rec \cup {id} |-> IF k = id THEN val ELSE rec[k]]

\* The value of a field as the script sees it: bytes, or the text they decode to.
Value(type, bytes) == <<IF type = RawType THEN "data" ELSE "text", bytes>>

ParseField(data, walk) ==
  LET id   == data[walk.off]
      type == data[walk.off + 1]
      len  == U16At(data, walk.off + 2)
      from == walk.off + 4
  IN  IF walk.threw \/ ~HasBytes(data, walk.off, 4) THEN Throw(walk)
      ELSE IF id \notin Keys THEN [walk EXCEPT !.off = from + len]
      ELSE IF ~HasBytes(data, from, len) THEN Throw(walk)
      ELSE [walk EXCEPT !.off = from + len,
                        !.out = SetKey(@, id, Value(type, SubSeq(data, from, from + len - 1)))]

ParseRecord(data, start) ==
  IF ~HasBytes(data, start, 2) THEN Throw(Walk(start, <<>>))
  ELSE LET walk[i \in 0..U16At(data, start)] ==
             IF i = 0 THEN Walk(start + 2, <<>>) ELSE ParseField(data, walk[i - 1])
       IN  walk[U16At(data, start)]

\* The next entry starts where bodyLen says, whatever the record took.
ParseEntry(data, walk) ==
  LET rec == ParseRecord(data, walk.off + 2)
  IN  IF walk.threw \/ ~HasBytes(data, walk.off, 2) \/ rec.threw THEN Throw(walk)
      ELSE [walk EXCEPT !.off = @ + 2 + U16At(data, walk.off),
                        !.out = Append(@, rec.out)]

ParseList(data) ==
  IF ~HasBytes(data, 1, 2) THEN Throw(Walk(1, <<>>))
  ELSE LET walk[i \in 0..U16At(data, 1)] ==
             IF i = 0 THEN Walk(3, <<>>) ELSE ParseEntry(data, walk[i - 1])
       IN  walk[U16At(data, 1)]

-----------------------------------------------------------------------------
(***************************************************************************)
(* What a record means, without its bytes: its known fields (the shim puts *)
(* each id once) as keys and values.                                       *)
(***************************************************************************)
Record == {fields \in Seq(Field) :
             \A i, j \in DOMAIN fields : fields[i].id = fields[j].id => i = j}

AsArray(fields) ==
  [id \in {fields[i].id : i \in DOMAIN fields} \cap Keys |->
     LET f == fields[CHOOSE i \in DOMAIN fields : fields[i].id = id]
     IN  Value(f.type, f.val)]

AsList(entries) == [i \in DOMAIN entries |-> AsArray(entries[i])]

\* The bytes of a record and of a list.
RecordBytes(fields) ==
  LET bytes[i \in 0..Len(fields)] ==
        IF i = 0 THEN 2 ELSE bytes[i - 1] + 4 + Len(fields[i].val)
  IN  bytes[Len(fields)]

ListBytes(entries) ==
  LET bytes[i \in 0..Len(entries)] ==
        IF i = 0 THEN 2 ELSE bytes[i - 1] + 2 + RecordBytes(entries[i])
  IN  bytes[Len(entries)]

\* The u16 fields can say the count and the lengths of a record, or of a list.
Sayable(fields) ==
  /\ Len(fields) < U16Span
  /\ \A i \in DOMAIN fields : Len(fields[i].val) < U16Span

Framable(entries) ==
  /\ Len(entries) < U16Span
  /\ \A i \in DOMAIN entries : RecordBytes(entries[i]) < U16Span
=============================================================================
