----------------------- MODULE SnapshotGetter_proofs -----------------------
(***************************************************************************)
(* Theorems about the snapshot getters and the record codec below them:    *)
(*   ListRoundTrip, RecordRoundTrip   what the shim writes into a block    *)
(*                      that is large enough is what the walk gives back   *)
(*   WritesCorrect      the shim writes nowhere but in its block           *)
(*   AnswersCorrect     a getter returns the whole of its last look, or    *)
(*                      nothing for a reason                               *)
(*                                                                         *)
(* The writer and the walker are recursive functions over the fields and   *)
(* the entries. Their values are determined by RunExists: a function with  *)
(* a first value and a step exists, so the one that CHOOSE picks obeys the *)
(* equation. What the writer leaves is said of the bytes (FieldAt,         *)
(* RecordAt, EntryAt, ListAt), relative to the place of each field;        *)
(* Extends says that it disturbs nothing before its place and nothing      *)
(* beyond the block; the walker's lemmas start from the same predicates.   *)
(***************************************************************************)
EXTENDS SnapshotGetter, SequenceTheorems, WellFoundedInduction, TLAPS

-----------------------------------------------------------------------------
(* Induction over numbers.                                                 *)
LEMMA Least ==
  ASSUME NEW T, T \subseteq Nat, T # {}
  PROVE  \E x \in T : \A y \in T : x <= y
<1> DEFINE R == {p \in Nat \X Nat : p[1] < p[2]}
<1>1. IsWellFoundedOn(R, Nat)
  BY NatLessThanWellFounded DEF OpToRel
<1>2. PICK x \in T : \A y \in T : ~(<<y, x>> \in R)
  <2> HIDE DEF R
  <2> QED BY <1>1, WFMin
<1>3. \A y \in T : <<y, x>> \in R <=> y < x
  OBVIOUS
<1>4. x \in Nat /\ \A y \in T : y \in Nat /\ ~(y < x)
  BY <1>2, <1>3
<1> QED BY <1>4

(* What holds at 0 and passes on from each number to the next holds up to  *)
(* N.                                                                      *)
LEMMA Upto ==
  ASSUME NEW N \in Nat, NEW G \in SUBSET (0..N), 0 \in G, \A k \in 1..N : k - 1 \in G => k \in G
  PROVE  G = 0..N
<1> DEFINE B == (0..N) \ G
<1> SUFFICES ASSUME B # {} PROVE FALSE
  OBVIOUS
<1>0. B \subseteq Nat
  OBVIOUS
<1>1. PICK n \in B : \A m \in B : n <= m
  <2> HIDE DEF B
  <2> QED BY <1>0, Least
<1>2. n \in 1..N /\ n - 1 \in 0..N /\ ~(n <= n - 1)
  BY <1>1
<1> QED BY <1>1, <1>2

(* A function that is given by its first value and a step from each value  *)
(* to the next exists.                                                     *)
Runs(f, a, step, N) == f[0] = a /\ \A i \in 1..N : f[i] = step[<<i, f[i - 1]>>]

(* A first value and a total step determine a run.                         *)
LEMMA RunExists ==
  ASSUME NEW S, NEW N \in Nat, NEW a \in S, NEW step \in [(1..N) \X S -> S]
  PROVE  \E f \in [0..N -> S] : Runs(f, a, step, N)
<1> DEFINE Good(n) == \E h \in [0..n -> S] : Runs(h, a, step, n)
           G == {n \in 0..N : Good(n)}
<1>1. Good(0)
  <2> DEFINE z == [k \in 0..0 |-> a]
  <2>1. z \in [0..0 -> S] /\ z[0] = a /\ \A k \in 1..0 : z[k] = step[<<k, z[k - 1]>>]
    OBVIOUS
  <2> QED BY <2>1 DEF Runs
<1>2. ASSUME NEW n \in 1..N, Good(n - 1) PROVE Good(n)
  <2>1. PICK h \in [0..(n - 1) -> S] : Runs(h, a, step, n - 1)
    BY <1>2
  <2> DEFINE e == step[<<n, h[n - 1]>>]
             g == [k \in 0..n |-> IF k = n THEN e ELSE h[k]]
  <2>2. e \in S
    <3>1. <<n, h[n - 1]>> \in (1..N) \X S
      OBVIOUS
    <3> QED BY <3>1
  <2> HIDE DEF e
  <2>3. g \in [0..n -> S] /\ g[0] = a
    BY <2>1, <2>2 DEF Runs
  <2>4. ASSUME NEW k \in 1..n PROVE g[k] = step[<<k, g[k - 1]>>]
    <3>1. CASE k = n
      <4>1. g[k] = e /\ g[k - 1] = h[n - 1]
        BY <3>1
      <4> QED BY <3>1, <4>1 DEF e
    <3>2. CASE k # n
      <4>1. g[k] = h[k] /\ g[k - 1] = h[k - 1] /\ k \in 1..(n - 1)
        BY <3>2
      <4> QED BY <2>1, <4>1 DEF Runs
    <3> QED BY <3>1, <3>2
  <2> HIDE DEF g
  <2> QED BY <2>3, <2>4 DEF Runs
<1> HIDE DEF Good
<1>3. G = 0..N
  <2>1. 0 \in G /\ \A k \in 1..N : k - 1 \in G => k \in G
    BY <1>1, <1>2
  <2> HIDE DEF G
  <2>2. G \in SUBSET (0..N)
    BY DEF G
  <2> QED BY <2>1, <2>2, Upto
<1>4. Good(N)
  BY <1>3
<1> QED BY <1>4 DEF Good

-----------------------------------------------------------------------------
(* The bytes of a record up to each field, and of a list up to each entry. *)
FieldEnds(b, fields) ==
  /\ b[0] = 2
  /\ \A i \in 1..Len(fields) : b[i] = b[i - 1] + 4 + Len(fields[i].val)

EntryEnds(b, entries) ==
  /\ b[0] = 2
  /\ \A i \in 1..Len(entries) : b[i] = b[i - 1] + 2 + RecordBytes(entries[i])

(* The parts of a record's fields.                                         *)
LEMMA FieldType ==
  ASSUME NEW fields \in Seq(Field)
  PROVE  /\ Len(fields) \in Nat /\ DOMAIN fields = 1..Len(fields)
         /\ \A i \in 1..Len(fields) : /\ fields[i] \in Field
                                      /\ fields[i].id \in Byte /\ fields[i].type \in Byte
                                      /\ fields[i].val \in Seq(Byte) /\ Len(fields[i].val) \in Nat
<1>1. Len(fields) \in Nat /\ DOMAIN fields = 1..Len(fields)
  BY LenProperties
<1>2. ASSUME NEW i \in 1..Len(fields)
      PROVE  /\ fields[i] \in Field
             /\ fields[i].id \in Byte /\ fields[i].type \in Byte
             /\ fields[i].val \in Seq(Byte) /\ Len(fields[i].val) \in Nat
  <2>1. fields[i] \in Field
    BY ElementOfSeq
  <2>2. fields[i].id \in Byte /\ fields[i].type \in Byte /\ fields[i].val \in Seq(Byte)
    BY <2>1 DEF Field
  <2> QED BY <2>1, <2>2, LenProperties
<1> QED BY <1>1, <1>2

(* RecordBytes is the last of the places, which obey their equation.       *)
LEMMA RecordBytesIs ==
  ASSUME NEW fields \in Seq(Field)
  PROVE  \E b \in [0..Len(fields) -> Nat] : FieldEnds(b, fields) /\ RecordBytes(fields) = b[Len(fields)]
<1> DEFINE N    == Len(fields)
           D(b) == [i \in 0..N |-> IF i = 0 THEN 2 ELSE b[i - 1] + 4 + Len(fields[i].val)]
           bytes == CHOOSE b : b = D(b)
           step == [p \in (1..N) \X Nat |-> p[2] + 4 + Len(fields[p[1]].val)]
<1>0. N \in Nat /\ \A i \in 1..N : Len(fields[i].val) \in Nat
  BY FieldType
<1>1. PICK f \in [0..N -> Nat] : Runs(f, 2, step, N)
  <2>1. step \in [(1..N) \X Nat -> Nat]
    BY <1>0
  <2> HIDE DEF step, N
  <2> QED BY <1>0, <2>1, RunExists
<1>2. f[0] = 2 /\ \A i \in 1..N : f[i] = f[i - 1] + 4 + Len(fields[i].val)
  <2>1. ASSUME NEW i \in 1..N PROVE f[i] = f[i - 1] + 4 + Len(fields[i].val)
    <3>1. f[i] = step[<<i, f[i - 1]>>]
      <4> HIDE DEF step
      <4> QED BY <1>1 DEF Runs
    <3>2. f[i - 1] \in Nat
      BY <1>0
    <3>3. <<i, f[i - 1]>> \in (1..N) \X Nat
      BY <3>2
    <3> QED BY <3>1, <3>3
  <2> QED BY <1>1, <2>1 DEF Runs
<1>3. f = D(f)
  <2>1. \A i \in 0..N : f[i] = D(f)[i]
    BY <1>0, <1>2
  <2>2. f = [i \in 0..N |-> f[i]] /\ D(f) = [i \in 0..N |-> D(f)[i]]
    BY <1>1
  <2> HIDE DEF D
  <2> QED BY <2>1, <2>2
<1>4. bytes = D(bytes)
  <2> HIDE DEF D
  <2> QED BY <1>3
<1>5. RecordBytes(fields) = bytes[N]
  BY DEF RecordBytes
<1> HIDE DEF bytes
<1>6. FieldEnds(bytes, fields)
  <2>1. \A i \in 0..N : bytes[i] = IF i = 0 THEN 2 ELSE bytes[i - 1] + 4 + Len(fields[i].val)
    BY <1>4
  <2> QED BY <1>0, <2>1 DEF FieldEnds
<1>7. bytes \in [0..N -> Nat]
  <2> DEFINE G == {n \in 0..N : bytes[n] \in Nat}
  <2>0. bytes[0] = 2 /\ \A k \in 1..N : bytes[k] = bytes[k - 1] + 4 + Len(fields[k].val)
    BY <1>6 DEF FieldEnds
  <2>1. 0 \in G /\ \A k \in 1..N : k - 1 \in G => k \in G
    <3>1. 0 \in G
      BY <1>0, <2>0
    <3>2. ASSUME NEW k \in 1..N, k - 1 \in G PROVE k \in G
      <4>1. bytes[k - 1] \in Nat /\ Len(fields[k].val) \in Nat /\ k \in 0..N
        BY <1>0, <3>2
      <4>2. bytes[k] \in Nat
        BY <2>0, <4>1
      <4> QED BY <4>1, <4>2
    <3> QED BY <3>1, <3>2
  <2>2. G = 0..N
    <3>1. G \in SUBSET (0..N)
      OBVIOUS
    <3> HIDE DEF G
    <3> QED BY <1>0, <2>1, <3>1, Upto
  <2>3. bytes = [i \in 0..N |-> bytes[i]]
    BY <1>4
  <2> QED BY <2>2, <2>3
<1> QED BY <1>5, <1>6, <1>7

(* A record has a number of bytes.                                         *)
LEMMA RecordBytesType == ASSUME NEW fields \in Seq(Field) PROVE RecordBytes(fields) \in Nat
<1>1. PICK b \in [0..Len(fields) -> Nat] : RecordBytes(fields) = b[Len(fields)]
  BY RecordBytesIs
<1> QED BY <1>1, FieldType

(* The entries of a list.                                                  *)
LEMMA EntryType ==
  ASSUME NEW entries \in Seq(Record)
  PROVE  /\ Len(entries) \in Nat /\ DOMAIN entries = 1..Len(entries)
         /\ \A i \in 1..Len(entries) : /\ entries[i] \in Record /\ entries[i] \in Seq(Field)
                                       /\ RecordBytes(entries[i]) \in Nat
<1>1. Len(entries) \in Nat /\ DOMAIN entries = 1..Len(entries)
  BY LenProperties
<1>2. ASSUME NEW i \in 1..Len(entries)
      PROVE  entries[i] \in Record /\ entries[i] \in Seq(Field) /\ RecordBytes(entries[i]) \in Nat
  <2>1. entries[i] \in Record
    BY ElementOfSeq
  <2>2. entries[i] \in Seq(Field)
    BY <2>1 DEF Record
  <2> QED BY <2>1, <2>2, RecordBytesType
<1> QED BY <1>1, <1>2

(* The same for ListBytes.                                                 *)
LEMMA ListBytesIs ==
  ASSUME NEW entries \in Seq(Record)
  PROVE  \E b \in [0..Len(entries) -> Nat] : EntryEnds(b, entries) /\ ListBytes(entries) = b[Len(entries)]
<1> DEFINE N    == Len(entries)
           D(b) == [i \in 0..N |-> IF i = 0 THEN 2 ELSE b[i - 1] + 2 + RecordBytes(entries[i])]
           bytes == CHOOSE b : b = D(b)
           step == [p \in (1..N) \X Nat |-> p[2] + 2 + RecordBytes(entries[p[1]])]
<1>0. N \in Nat /\ \A i \in 1..N : RecordBytes(entries[i]) \in Nat
  BY EntryType
<1>1. PICK f \in [0..N -> Nat] : Runs(f, 2, step, N)
  <2>1. step \in [(1..N) \X Nat -> Nat]
    BY <1>0
  <2> HIDE DEF step, N
  <2> QED BY <1>0, <2>1, RunExists
<1>2. f[0] = 2 /\ \A i \in 1..N : f[i] = f[i - 1] + 2 + RecordBytes(entries[i])
  <2>1. ASSUME NEW i \in 1..N PROVE f[i] = f[i - 1] + 2 + RecordBytes(entries[i])
    <3>1. f[i] = step[<<i, f[i - 1]>>]
      <4> HIDE DEF step
      <4> QED BY <1>1 DEF Runs
    <3>2. f[i - 1] \in Nat
      BY <1>0
    <3>3. <<i, f[i - 1]>> \in (1..N) \X Nat
      BY <3>2
    <3> QED BY <3>1, <3>3
  <2> QED BY <1>1, <2>1 DEF Runs
<1>3. f = D(f)
  <2>1. \A i \in 0..N : f[i] = D(f)[i]
    BY <1>0, <1>2
  <2>2. f = [i \in 0..N |-> f[i]] /\ D(f) = [i \in 0..N |-> D(f)[i]]
    BY <1>1
  <2> HIDE DEF D
  <2> QED BY <2>1, <2>2
<1>4. bytes = D(bytes)
  <2> HIDE DEF D
  <2> QED BY <1>3
<1>5. ListBytes(entries) = bytes[N]
  BY DEF ListBytes
<1> HIDE DEF bytes
<1>6. EntryEnds(bytes, entries)
  <2>1. \A i \in 0..N : bytes[i] = IF i = 0 THEN 2 ELSE bytes[i - 1] + 2 + RecordBytes(entries[i])
    BY <1>4
  <2> QED BY <1>0, <2>1 DEF EntryEnds
<1>7. bytes \in [0..N -> Nat]
  <2> DEFINE G == {n \in 0..N : bytes[n] \in Nat}
  <2>0. bytes[0] = 2 /\ \A k \in 1..N : bytes[k] = bytes[k - 1] + 2 + RecordBytes(entries[k])
    BY <1>6 DEF EntryEnds
  <2>1. 0 \in G /\ \A k \in 1..N : k - 1 \in G => k \in G
    <3>1. 0 \in G
      BY <1>0, <2>0
    <3>2. ASSUME NEW k \in 1..N, k - 1 \in G PROVE k \in G
      <4>1. bytes[k - 1] \in Nat /\ RecordBytes(entries[k]) \in Nat /\ k \in 0..N
        BY <1>0, <3>2
      <4>2. bytes[k] \in Nat
        BY <2>0, <4>1
      <4> QED BY <4>1, <4>2
    <3> QED BY <3>1, <3>2
  <2>2. G = 0..N
    <3>1. G \in SUBSET (0..N)
      OBVIOUS
    <3> HIDE DEF G
    <3> QED BY <1>0, <2>1, <3>1, Upto
  <2>3. bytes = [i \in 0..N |-> bytes[i]]
    BY <1>4
  <2> QED BY <2>2, <2>3
<1> QED BY <1>5, <1>6, <1>7

-----------------------------------------------------------------------------
(* The writer. Extends says what no write may break: the writer keeps its  *)
(* block, goes forward, and leaves alone what lies before its place and    *)
(* what lies after the block.                                              *)
Memory  == [1..MemSize -> Byte]
Writers == [pos : Nat, cap : 0..MemSize, mem : Memory]

Extends(w, v) ==
  /\ v \in Writers /\ v.cap = w.cap /\ w.pos <= v.pos
  /\ \A j \in 1..MemSize : j <= w.pos \/ j > w.cap => v.mem[j] = w.mem[j]

(* The numbers the model is about.                                         *)
LEMMA Numbers ==
  /\ Radix \in Nat /\ 1 < Radix /\ MemSize \in Nat /\ StatusCap \in 1..MemSize
  /\ U16Span \in Nat /\ Radix < U16Span
<1>1. Radix \in Nat /\ 1 < Radix
  BY CodecAssumption
<1>2. Radix * Radix \in Nat /\ Radix < Radix * Radix
  BY <1>1
<1> QED BY <1>1, <1>2, GetterAssumption DEF U16Span

(* One write after another.                                                *)
LEMMA ExtendsTrans ==
  ASSUME NEW w \in Writers, NEW v, NEW u, Extends(w, v), Extends(v, u)
  PROVE  Extends(w, u)
<1>1. w.pos \in Nat /\ v.pos \in Nat /\ u.pos \in Nat /\ w.cap \in Nat /\ MemSize \in Nat
  BY Numbers DEF Extends, Writers
<1> QED BY <1>1 DEF Extends

(* A u16 is two bytes, and a number it can say is read back from them.     *)
LEMMA U16Is ==
  ASSUME NEW n \in Nat
  PROVE  /\ U16(n) \in Seq(Byte) /\ Len(U16(n)) = 2
         /\ n < U16Span => U16(n)[1] * Radix + U16(n)[2] = n
<1> DEFINE q == n \div Radix
           r == n % Radix
<1>1. Radix \in Nat /\ 1 < Radix
  BY Numbers
<1>2. q \in Nat /\ r \in 0..Radix-1 /\ n = Radix * q + r
  BY <1>1
<1>3. q % Radix \in 0..Radix-1
  <2> HIDE DEF q
  <2> QED BY <1>1, <1>2
<1>4. U16(n) = <<q % Radix, r>>
  BY DEF U16
<1> HIDE DEF q, r
<1>5. ASSUME n < U16Span PROVE q % Radix = q
  <2>1. q < Radix
    <3> SUFFICES ASSUME q >= Radix PROVE FALSE
      BY <1>1, <1>2
    <3>1. Radix * q >= Radix * Radix
      BY <1>1, <1>2
    <3> QED BY <1>1, <1>2, <1>5, <3>1 DEF U16Span
  <2> QED BY <1>1, <1>2, <2>1
<1>6. U16(n) \in Seq(Byte) /\ Len(U16(n)) = 2 /\ U16(n)[1] = q % Radix /\ U16(n)[2] = r
  <2>1. q % Radix \in Byte /\ r \in Byte
    BY <1>2, <1>3 DEF Byte
  <2>2. \A a, b \in Byte : <<a, b>> \in Seq(Byte) /\ Len(<<a, b>>) = 2 /\ <<a, b>>[1] = a /\ <<a, b>>[2] = b
    OBVIOUS
  <2> QED BY <1>4, <2>1, <2>2
<1>7. q * Radix + r = n
  BY <1>1, <1>2
<1> QED BY <1>5, <1>6, <1>7

(* A memory overwritten is a memory.                                       *)
LEMMA OverwriteIs ==
  ASSUME NEW m \in Memory, NEW at \in Nat, NEW bytes \in Seq(Byte)
  PROVE  /\ Overwrite(m, at, bytes) \in Memory
         /\ \A j \in 1..MemSize :
              Overwrite(m, at, bytes)[j] = IF j \in at+1 .. at+Len(bytes) THEN bytes[j - at] ELSE m[j]
<1>1. DOMAIN m = 1..MemSize /\ Len(bytes) \in Nat /\ MemSize \in Nat
  BY Numbers, LenProperties DEF Memory
<1>2. ASSUME NEW j \in 1..MemSize
      PROVE  (IF j \in at+1 .. at+Len(bytes) THEN bytes[j - at] ELSE m[j]) \in Byte
  <2>1. CASE j \in at+1 .. at+Len(bytes)
    <3>1. j - at \in 1..Len(bytes)
      BY <1>1, <2>1
    <3> QED BY <2>1, <3>1, ElementOfSeq
  <2>2. CASE j \notin at+1 .. at+Len(bytes)
    BY <2>2 DEF Memory
  <2> QED BY <2>1, <2>2
<1> QED BY <1>1, <1>2 DEF Overwrite, Memory

(* v is w after it has put bytes: if they fit, they are there.              *)
Puts(w, v, bytes) ==
  /\ Extends(w, v)
  /\ v.pos = w.pos + Len(bytes)
  /\ v.pos <= w.cap => \A k \in 1..Len(bytes) : v.mem[w.pos + k] = bytes[k]

(* Put copies its bytes whole when they fit before cap, and nothing        *)
(* otherwise.                                                              *)
LEMMA PutIs ==
  ASSUME NEW w \in Writers, NEW bytes \in Seq(Byte)
  PROVE  Puts(w, Put(w, bytes), bytes)
<1> DEFINE v == Put(w, bytes)
           n == Len(bytes)
           m == IF Fits(w, n) THEN Overwrite(w.mem, w.pos, bytes) ELSE w.mem
<1>1. w.pos \in Nat /\ w.cap \in 0..MemSize /\ w.mem \in Memory /\ n \in Nat /\ MemSize \in Nat
  BY Numbers, LenProperties DEF Writers
<1>0. /\ Overwrite(w.mem, w.pos, bytes) \in Memory
      /\ \A j \in 1..MemSize : Overwrite(w.mem, w.pos, bytes)[j]
           = IF j \in w.pos+1 .. w.pos+Len(bytes) THEN bytes[j - w.pos] ELSE w.mem[j]
  BY <1>1, OverwriteIs
<1>2. m \in Memory
  BY <1>0, <1>1
<1>3. v.pos = w.pos + n /\ v.cap = w.cap /\ v.mem = m /\ v \in Writers
  <2> HIDE DEF m
  <2>1. v = [w EXCEPT !.pos = w.pos + n, !.mem = m]
    BY DEF Put, Writers, m
  <2>2. w.pos + n \in Nat
    BY <1>1
  <2> HIDE DEF v, n
  <2> QED BY <1>1, <1>2, <2>1, <2>2 DEF Writers
<1>4. ASSUME NEW j \in 1..MemSize, j <= w.pos \/ j > w.cap
      PROVE  m[j] = w.mem[j]
  <2>1. CASE Fits(w, n)
    <3>1. w.pos + n <= w.cap
      BY <2>1 DEF Fits
    <3>2. j \notin w.pos+1 .. w.pos+n
      BY <1>1, <1>4, <3>1
    <3>3. Overwrite(w.mem, w.pos, bytes)[j] = w.mem[j]
      BY <1>0, <3>2
    <3> QED BY <2>1, <3>3
  <2> QED BY <2>1
<1>5. ASSUME w.pos + n <= w.cap, NEW k \in 1..n
      PROVE  m[w.pos + k] = bytes[k]
  <2>1. Fits(w, n)
    BY <1>5 DEF Fits
  <2>2. \A j \in 1..MemSize : j \in w.pos+1 .. w.pos+n => Overwrite(w.mem, w.pos, bytes)[j] = bytes[j - w.pos]
    BY <1>0
  <2> DEFINE p == w.pos + k
  <2>3. p \in 1..MemSize /\ p \in w.pos+1 .. w.pos+n /\ p - w.pos = k
    BY <1>1, <1>5
  <2> HIDE DEF p, n
  <2>4. Overwrite(w.mem, w.pos, bytes)[p] = bytes[k]
    BY <2>2, <2>3
  <2> QED BY <2>1, <2>4 DEF p, n
<1> HIDE DEF m, v
<1>6. Extends(w, v)
  BY <1>1, <1>3, <1>4 DEF Extends
<1> QED BY <1>3, <1>5, <1>6 DEF v, Puts

(* They are still there after what is written next.                        *)
LEMMA PutHolds ==
  ASSUME NEW w \in Writers, NEW v, NEW u, NEW bytes \in Seq(Byte),
         Puts(w, v, bytes), Extends(v, u), v.pos <= w.cap
  PROVE  \A k \in 1..Len(bytes) : u.mem[w.pos + k] = bytes[k]
<1> SUFFICES ASSUME NEW k \in 1..Len(bytes) PROVE u.mem[w.pos + k] = bytes[k]
  OBVIOUS
<1> DEFINE j == w.pos + k
<1>1. w.pos \in Nat /\ w.cap \in 0..MemSize /\ MemSize \in Nat /\ Len(bytes) \in Nat
  BY Numbers, LenProperties DEF Writers
<1>2. v.mem[j] = bytes[k] /\ v.pos = w.pos + Len(bytes)
  BY DEF Puts
<1>3. j \in 1..MemSize /\ j <= v.pos
  BY <1>1, <1>2
<1> HIDE DEF j
<1>4. u.mem[j] = v.mem[j]
  BY <1>3 DEF Extends
<1> QED BY <1>2, <1>4 DEF j

(* patch_u16 changes two bytes inside the block and nothing else.          *)
LEMMA PatchIs ==
  ASSUME NEW w \in Writers, NEW at \in Nat, NEW n \in Nat
  PROVE  /\ Patch(w, at, n) \in Writers
         /\ Patch(w, at, n).pos = w.pos /\ Patch(w, at, n).cap = w.cap
         /\ \A j \in 1..MemSize :
              j \notin at+1 .. at+2 \/ j > w.cap => Patch(w, at, n).mem[j] = w.mem[j]
         /\ at + 2 <= w.cap /\ n < U16Span
              => Patch(w, at, n).mem[at + 1] * Radix + Patch(w, at, n).mem[at + 2] = n
<1> DEFINE v == Patch(w, at, n)
           m == IF at + 2 <= w.cap THEN Overwrite(w.mem, at, U16(n)) ELSE w.mem
<1>1. w.pos \in Nat /\ w.cap \in 0..MemSize /\ w.mem \in Memory /\ MemSize \in Nat
  BY Numbers DEF Writers
<1>2. U16(n) \in Seq(Byte) /\ Len(U16(n)) = 2
  BY U16Is
<1>0. /\ Overwrite(w.mem, at, U16(n)) \in Memory
      /\ \A j \in 1..MemSize : Overwrite(w.mem, at, U16(n))[j]
           = IF j \in at+1 .. at+2 THEN U16(n)[j - at] ELSE w.mem[j]
  <2> DEFINE u == U16(n)
  <2>1. u \in Seq(Byte) /\ Len(u) = 2
    BY <1>2
  <2> HIDE DEF u
  <2>2. /\ Overwrite(w.mem, at, u) \in Memory
        /\ \A j \in 1..MemSize : Overwrite(w.mem, at, u)[j]
           = IF j \in at+1 .. at+Len(u) THEN u[j - at] ELSE w.mem[j]
    BY <1>1, <2>1, OverwriteIs
  <2> QED BY <2>1, <2>2 DEF u
<1>3. m \in Memory
  BY <1>0, <1>1
<1>4. v.pos = w.pos /\ v.cap = w.cap /\ v.mem = m /\ v \in Writers
  <2> HIDE DEF m
  <2>1. v = [w EXCEPT !.mem = m]
    BY DEF Patch, Writers, m
  <2> HIDE DEF v
  <2> QED BY <1>1, <1>3, <2>1 DEF Writers
<1>5. ASSUME NEW j \in 1..MemSize, j \notin at+1 .. at+2 \/ j > w.cap
      PROVE  m[j] = w.mem[j]
  <2>1. CASE at + 2 <= w.cap
    <3>1. j \notin at+1 .. at+2
      BY <1>1, <1>5, <2>1
    <3>2. Overwrite(w.mem, at, U16(n))[j] = w.mem[j]
      BY <1>0, <3>1
    <3> QED BY <2>1, <3>2
  <2> QED BY <2>1
<1>6. ASSUME at + 2 <= w.cap, n < U16Span
      PROVE  m[at + 1] * Radix + m[at + 2] = n
  <2>1. at + 1 \in 1..MemSize /\ at + 2 \in 1..MemSize /\ at + 1 - at = 1 /\ at + 2 - at = 2
        /\ at + 1 \in at+1 .. at+2 /\ at + 2 \in at+1 .. at+2
    BY <1>1, <1>6
  <2>2. m[at + 1] = U16(n)[1] /\ m[at + 2] = U16(n)[2]
    <3>1. /\ Overwrite(w.mem, at, U16(n))[at + 1] = U16(n)[at + 1 - at]
          /\ Overwrite(w.mem, at, U16(n))[at + 2] = U16(n)[at + 2 - at]
      BY <1>0, <2>1
    <3> QED BY <1>6, <2>1, <3>1
  <2> HIDE DEF m
  <2> QED BY <1>6, <2>2, U16Is
<1> HIDE DEF m, v
<1> QED BY <1>4, <1>5, <1>6 DEF v

(* What the bytes of a field, a record, an entry of a list and a list are, *)
(* read at o, which is the number of bytes before them.                    *)
FieldAt(m, o, f) ==
  /\ m[o + 1] = f.id /\ m[o + 2] = f.type /\ m[o + 3] * Radix + m[o + 4] = Len(f.val)
  /\ \A k \in 1..Len(f.val) : m[o + 4 + k] = f.val[k]

RecordAt(m, o, fields) ==
  /\ m[o + 1] * Radix + m[o + 2] = Len(fields)
  /\ \E b \in [0..Len(fields) -> Nat] :
       /\ FieldEnds(b, fields) /\ RecordBytes(fields) = b[Len(fields)]
       /\ \A i \in 1..Len(fields) : FieldAt(m, o + b[i - 1], fields[i])

EntryAt(m, o, fields) ==
  /\ m[o + 1] * Radix + m[o + 2] = RecordBytes(fields)
  /\ RecordAt(m, o + 2, fields)

ListAt(m, o, entries) ==
  /\ m[o + 1] * Radix + m[o + 2] = Len(entries)
  /\ \E b \in [0..Len(entries) -> Nat] :
       /\ EntryEnds(b, entries) /\ ListBytes(entries) = b[Len(entries)]
       /\ \A i \in 1..Len(entries) : EntryAt(m, o + b[i - 1], entries[i])

Same(m, p, o, n) == \A j \in o+1 .. o+n : p[j] = m[j]

(* A field, a record, an entry or a list that stands in one memory stands  *)
(* in another that has the same bytes there.                               *)
LEMMA FieldStays ==
  ASSUME NEW m, NEW p, NEW o \in Nat, NEW f \in Field, FieldAt(m, o, f), Same(m, p, o, 4 + Len(f.val))
  PROVE  FieldAt(p, o, f)
<1>1. Len(f.val) \in Nat
  BY LenProperties DEF Field
<1>2. p[o + 1] = m[o + 1] /\ p[o + 2] = m[o + 2] /\ p[o + 3] = m[o + 3] /\ p[o + 4] = m[o + 4]
  BY <1>1 DEF Same
<1>3. \A k \in 1..Len(f.val) : p[o + 4 + k] = m[o + 4 + k]
  BY <1>1 DEF Same
<1> QED BY <1>2, <1>3 DEF FieldAt

(* The places are in order.                                                *)
LEMMA FieldEndsOrder ==
  ASSUME NEW fields \in Seq(Field), NEW b \in [0..Len(fields) -> Nat], FieldEnds(b, fields)
  PROVE  \A n \in 0..Len(fields) : 2 + 4 * n <= b[n] /\ \A i \in 0..n : b[i] <= b[n]
<1> DEFINE N       == Len(fields)
           Good(n) == 2 + 4 * n <= b[n] /\ \A i \in 0..n : b[i] <= b[n]
           G       == {n \in 0..N : Good(n)}
<1>1. N \in Nat /\ \A i \in 1..N : Len(fields[i].val) \in Nat
  BY FieldType
<1>2. b[0] = 2 /\ \A i \in 1..N : b[i] = b[i - 1] + 4 + Len(fields[i].val)
  BY DEF FieldEnds
<1>3. Good(0)
  BY <1>2
<1>4. ASSUME NEW n \in 1..N, Good(n - 1) PROVE Good(n)
  <2>1. b[n] >= b[n - 1] + 4 /\ b[n - 1] \in Nat /\ b[n] \in Nat
    BY <1>1, <1>2
  <2>2. 2 + 4 * n <= b[n]
    BY <1>4, <2>1
  <2>3. ASSUME NEW i \in 0..n PROVE b[i] <= b[n]
    <3>1. CASE i = n
      BY <2>1, <3>1
    <3>2. CASE i # n
      <4>1. i \in 0..(n - 1) /\ b[i] \in Nat
        BY <3>2
      <4> QED BY <1>4, <2>1, <4>1
    <3> QED BY <3>1, <3>2
  <2> QED BY <2>2, <2>3
<1>5. G = 0..N
  <2>1. 0 \in G /\ \A k \in 1..N : k - 1 \in G => k \in G
    <3> HIDE DEF Good
    <3> QED BY <1>1, <1>3, <1>4
  <2>2. G \in SUBSET (0..N)
    OBVIOUS
  <2> HIDE DEF G
  <2> QED BY <1>1, <2>1, <2>2, Upto
<1>6. \A n \in 0..N : Good(n)
  <2> HIDE DEF Good
  <2> QED BY <1>5
<1> QED BY <1>6

(* The same for the entries of a list.                                     *)
LEMMA EntryEndsOrder ==
  ASSUME NEW entries \in Seq(Record), NEW b \in [0..Len(entries) -> Nat], EntryEnds(b, entries)
  PROVE  \A n \in 0..Len(entries) : 2 + 2 * n <= b[n] /\ \A i \in 0..n : b[i] <= b[n]
<1> DEFINE N       == Len(entries)
           Good(n) == 2 + 2 * n <= b[n] /\ \A i \in 0..n : b[i] <= b[n]
           G       == {n \in 0..N : Good(n)}
<1>1. N \in Nat /\ \A i \in 1..N : RecordBytes(entries[i]) \in Nat
  BY EntryType
<1>2. b[0] = 2 /\ \A i \in 1..N : b[i] = b[i - 1] + 2 + RecordBytes(entries[i])
  BY DEF EntryEnds
<1>3. Good(0)
  BY <1>2
<1>4. ASSUME NEW n \in 1..N, Good(n - 1) PROVE Good(n)
  <2>0. b[n - 1] \in Nat /\ b[n] \in Nat /\ RecordBytes(entries[n]) \in Nat
    BY <1>1
  <2>1. b[n] >= b[n - 1] + 2 /\ b[n - 1] \in Nat /\ b[n] \in Nat
    BY <1>2, <2>0
  <2>2. 2 + 2 * n <= b[n]
    BY <1>4, <2>1
  <2>3. ASSUME NEW i \in 0..n PROVE b[i] <= b[n]
    <3>1. CASE i = n
      BY <2>1, <3>1
    <3>2. CASE i # n
      <4>1. i \in 0..(n - 1) /\ b[i] \in Nat
        BY <3>2
      <4> QED BY <1>4, <2>1, <4>1
    <3> QED BY <3>1, <3>2
  <2> QED BY <2>2, <2>3
<1>5. G = 0..N
  <2>1. 0 \in G /\ \A k \in 1..N : k - 1 \in G => k \in G
    <3> HIDE DEF Good
    <3> QED BY <1>1, <1>3, <1>4
  <2>2. G \in SUBSET (0..N)
    OBVIOUS
  <2> HIDE DEF G
  <2> QED BY <1>1, <2>1, <2>2, Upto
<1>6. \A n \in 0..N : Good(n)
  <2> HIDE DEF Good
  <2> QED BY <1>5
<1> QED BY <1>6

(* So does a record.                                                       *)
LEMMA RecordStays ==
  ASSUME NEW m, NEW p, NEW o \in Nat, NEW fields \in Seq(Field),
         RecordAt(m, o, fields), Same(m, p, o, RecordBytes(fields))
  PROVE  RecordAt(p, o, fields)
<1> DEFINE N == Len(fields)
<1>1. PICK b \in [0..N -> Nat] : /\ FieldEnds(b, fields) /\ RecordBytes(fields) = b[N]
                                 /\ \A i \in 1..N : FieldAt(m, o + b[i - 1], fields[i])
  BY DEF RecordAt
<1>2. N \in Nat /\ \A i \in 1..N : fields[i] \in Field /\ Len(fields[i].val) \in Nat
  BY FieldType
<1>3. \A n \in 0..N : 2 + 4 * n <= b[n] /\ \A i \in 0..n : b[i] <= b[n]
  BY <1>1, FieldEndsOrder
<1>4. ASSUME NEW i \in 1..N PROVE FieldAt(p, o + b[i - 1], fields[i])
  <2>0. b[i] = b[i - 1] + 4 + Len(fields[i].val)
    BY <1>1 DEF FieldEnds
  <2>1. b[i - 1] \in Nat /\ b[i] \in Nat /\ b[i] = b[i - 1] + 4 + Len(fields[i].val)
    BY <1>2, <2>0
  <2>2. b[i] <= b[N] /\ b[N] \in Nat
    BY <1>2, <1>3
  <2>3. Same(m, p, o + b[i - 1], 4 + Len(fields[i].val))
    <3>1. o + b[i - 1] + (4 + Len(fields[i].val)) <= o + RecordBytes(fields) /\ RecordBytes(fields) \in Nat
      BY <1>1, <1>2, <2>1, <2>2
    <3> QED BY <1>2, <2>1, <3>1 DEF Same
  <2>4. FieldAt(m, o + b[i - 1], fields[i]) /\ o + b[i - 1] \in Nat /\ fields[i] \in Field
    BY <1>1, <1>2, <2>1
  <2> QED BY <2>3, <2>4, FieldStays
<1>5. b[N] \in Nat /\ 2 <= b[N]
  BY <1>2, <1>3
<1>6. p[o + 1] = m[o + 1] /\ p[o + 2] = m[o + 2]
  BY <1>1, <1>5 DEF Same
<1> QED BY <1>1, <1>4, <1>6 DEF RecordAt

(* So does an entry.                                                       *)
LEMMA EntryStays ==
  ASSUME NEW m, NEW p, NEW o \in Nat, NEW fields \in Seq(Field),
         EntryAt(m, o, fields), Same(m, p, o, 2 + RecordBytes(fields))
  PROVE  EntryAt(p, o, fields)
<1>1. RecordBytes(fields) \in Nat
  BY RecordBytesType
<1>2. p[o + 1] = m[o + 1] /\ p[o + 2] = m[o + 2]
  BY <1>1 DEF Same
<1>3. Same(m, p, o + 2, RecordBytes(fields))
  BY <1>1 DEF Same
<1>4. RecordAt(p, o + 2, fields)
  BY <1>3, RecordStays DEF EntryAt
<1> QED BY <1>2, <1>4 DEF EntryAt

(* So does a list.                                                         *)
LEMMA ListStays ==
  ASSUME NEW m, NEW p, NEW o \in Nat, NEW entries \in Seq(Record),
         ListAt(m, o, entries), Same(m, p, o, ListBytes(entries))
  PROVE  ListAt(p, o, entries)
<1> DEFINE N == Len(entries)
<1>1. PICK b \in [0..N -> Nat] : /\ EntryEnds(b, entries) /\ ListBytes(entries) = b[N]
                                 /\ \A i \in 1..N : EntryAt(m, o + b[i - 1], entries[i])
  BY DEF ListAt
<1>2. N \in Nat /\ \A i \in 1..N : entries[i] \in Seq(Field) /\ RecordBytes(entries[i]) \in Nat
  BY EntryType
<1>3. \A n \in 0..N : 2 + 2 * n <= b[n] /\ \A i \in 0..n : b[i] <= b[n]
  BY <1>1, EntryEndsOrder
<1>4. ASSUME NEW i \in 1..N PROVE EntryAt(p, o + b[i - 1], entries[i])
  <2>1. b[i - 1] \in Nat /\ b[i] \in Nat /\ b[i] = b[i - 1] + 2 + RecordBytes(entries[i])
    BY <1>1, <1>2 DEF EntryEnds
  <2>2. b[i] <= b[N] /\ b[N] \in Nat
    BY <1>2, <1>3
  <2>3. Same(m, p, o + b[i - 1], 2 + RecordBytes(entries[i]))
    <3> DEFINE from == b[i - 1]
               size == 2 + RecordBytes(entries[i])
               all  == ListBytes(entries)
    <3>1. from \in Nat /\ size \in Nat /\ all \in Nat /\ from + size <= all
      BY <1>1, <1>2, <2>1, <2>2
    <3>2. \A j \in o+1 .. o+all : p[j] = m[j]
      BY DEF Same
    <3> HIDE DEF from, size, all
    <3>3. \A j \in (o + from)+1 .. (o + from)+size : p[j] = m[j]
      BY <3>1, <3>2
    <3> QED BY <3>3 DEF Same, from, size
  <2>4. EntryAt(m, o + b[i - 1], entries[i]) /\ o + b[i - 1] \in Nat /\ entries[i] \in Seq(Field)
    BY <1>1, <1>2, <2>1
  <2> QED BY <2>3, <2>4, EntryStays
<1>5. b[N] \in Nat /\ 2 <= b[N]
  BY <1>2, <1>3
<1>6. p[o + 1] = m[o + 1] /\ p[o + 2] = m[o + 2]
  BY <1>1, <1>5 DEF Same
<1> QED BY <1>1, <1>4, <1>6 DEF ListAt

(* What lies before the writer's place, up to the end of the block, stays. *)
LEMMA ExtendsSame ==
  ASSUME NEW w \in Writers, NEW v, Extends(w, v), NEW o \in Nat, NEW n \in Nat,
         o + n <= w.pos, w.pos <= w.cap
  PROVE  Same(w.mem, v.mem, o, n)
<1>1. w.pos \in Nat /\ w.cap \in 0..MemSize /\ MemSize \in Nat
  BY Numbers DEF Writers
<1>2. \A j \in o+1 .. o+n : j \in 1..MemSize /\ j <= w.pos
  BY <1>1
<1> QED BY <1>1, <1>2 DEF Same, Extends

(* The parts of a writer.                                                  *)
LEMMA WriterType ==
  ASSUME NEW w \in Writers
  PROVE  w.pos \in Nat /\ w.cap \in 0..MemSize /\ w.cap \in Nat /\ w.mem \in Memory
BY Numbers DEF Writers

(* What Extends says of the place and the block.                           *)
LEMMA ExtendsType ==
  ASSUME NEW w, NEW v, Extends(w, v)
  PROVE  v \in Writers /\ v.cap = w.cap /\ w.pos <= v.pos
BY DEF Extends

(* No write at all.                                                        *)
LEMMA ExtendsSelf == ASSUME NEW w \in Writers PROVE Extends(w, w)
<1>1. w.pos \in Nat
  BY WriterType
<1> QED BY <1>1 DEF Extends

(* field_raw cuts what a u16 cannot say, and nothing else.                 *)
LEMMA ClampIs ==
  ASSUME NEW n \in Nat
  PROVE  /\ ClampLen(n) \in Nat /\ ClampLen(n) <= n /\ ClampLen(n) < U16Span
         /\ n < U16Span => ClampLen(n) = n
BY Numbers DEF ClampLen

(* One field: four bytes before its value, and the value whole unless it   *)
(* is cut.                                                                 *)
LEMMA PutFieldIs ==
  ASSUME NEW w \in Writers, NEW f \in Field
  PROVE  /\ Extends(w, PutField(w, f))
         /\ PutField(w, f).pos <= w.pos + 4 + Len(f.val)
         /\ Len(f.val) < U16Span =>
              /\ PutField(w, f).pos = w.pos + 4 + Len(f.val)
              /\ PutField(w, f).pos <= w.cap => FieldAt(PutField(w, f).mem, w.pos, f)
<1> DEFINE n  == ClampLen(Len(f.val))
           b1 == <<f.id>>
           b2 == <<f.type>>
           b3 == U16(n)
           b4 == SubSeq(f.val, 1, n)
           p  == w.pos
           w1 == Put(w, b1)
           w2 == Put(w1, b2)
           w3 == Put(w2, b3)
           w4 == Put(w3, b4)
<1>1. f.id \in Byte /\ f.type \in Byte /\ f.val \in Seq(Byte) /\ Len(f.val) \in Nat
  BY LenProperties DEF Field
<1>2. n \in Nat /\ n <= Len(f.val) /\ n < U16Span /\ (Len(f.val) < U16Span => n = Len(f.val))
  BY <1>1, ClampIs
<1>3. b1 \in Seq(Byte) /\ Len(b1) = 1 /\ b1[1] = f.id /\ b2 \in Seq(Byte) /\ Len(b2) = 1 /\ b2[1] = f.type
  BY <1>1
<1>4. b3 \in Seq(Byte) /\ Len(b3) = 2 /\ b3[1] * Radix + b3[2] = n
  <2> HIDE DEF n
  <2> QED BY <1>2, U16Is
<1>5. b4 \in Seq(Byte) /\ Len(b4) = n /\ \A k \in 1..n : b4[k] = f.val[k]
  <2> HIDE DEF n
  <2> QED BY <1>1, <1>2, SubSeqProperties
<1>6. PutField(w, f) = w4
  BY DEF PutField
<1>7. p \in Nat /\ w.cap \in Nat /\ w.cap <= MemSize /\ MemSize \in Nat
  BY WriterType, Numbers
<1> HIDE DEF n, b1, b2, b3, b4, w1, w2, w3, w4
<1>8. Puts(w, w1, b1) /\ Extends(w, w1) /\ w1 \in Writers /\ w1.cap = w.cap /\ w1.pos = p + 1
  <2>1. Puts(w, w1, b1)
    BY <1>3, PutIs DEF w1
  <2> QED BY <1>3, <2>1 DEF Puts, Extends
<1>9. Puts(w1, w2, b2) /\ Extends(w1, w2) /\ w2 \in Writers /\ w2.cap = w.cap /\ w2.pos = p + 2
  <2>1. Puts(w1, w2, b2)
    BY <1>3, <1>8, PutIs DEF w2
  <2>2. Extends(w1, w2) /\ w2 \in Writers /\ w2.cap = w1.cap /\ w2.pos = w1.pos + 1
    BY <1>3, <2>1 DEF Puts, Extends
  <2> QED BY <1>7, <1>8, <2>1, <2>2
<1>10. Puts(w2, w3, b3) /\ Extends(w2, w3) /\ w3 \in Writers /\ w3.cap = w.cap /\ w3.pos = p + 4
  <2>1. Puts(w2, w3, b3)
    BY <1>4, <1>9, PutIs DEF w3
  <2>2. Extends(w2, w3) /\ w3 \in Writers /\ w3.cap = w2.cap /\ w3.pos = w2.pos + 2
    BY <1>4, <2>1 DEF Puts, Extends
  <2> QED BY <1>7, <1>9, <2>1, <2>2
<1>11. Puts(w3, w4, b4) /\ Extends(w3, w4) /\ w4 \in Writers /\ w4.cap = w.cap /\ w4.pos = p + 4 + n
  <2>1. Puts(w3, w4, b4)
    BY <1>5, <1>10, PutIs DEF w4
  <2>2. Extends(w3, w4) /\ w4 \in Writers /\ w4.cap = w3.cap /\ w4.pos = w3.pos + n
    BY <1>5, <2>1 DEF Puts, Extends
  <2> QED BY <1>7, <1>10, <2>1, <2>2
<1>12. Extends(w3, w4) /\ Extends(w2, w4) /\ Extends(w1, w4) /\ Extends(w, w4)
  <2>1. Extends(w2, w4)
    BY <1>9, <1>10, <1>11, ExtendsTrans
  <2>2. Extends(w1, w4)
    BY <1>8, <1>9, <2>1, ExtendsTrans
  <2>3. Extends(w, w4)
    BY <1>8, <2>2, ExtendsTrans
  <2> QED BY <1>11, <2>1, <2>2, <2>3
<1>13. ASSUME Len(f.val) < U16Span, w4.pos <= w.cap
       PROVE  FieldAt(w4.mem, p, f)
  <2>1. n = Len(f.val) /\ p + 4 + n <= w.cap /\ p + 1 <= w.cap /\ p + 2 <= w.cap /\ p + 4 <= w.cap
    BY <1>2, <1>7, <1>11, <1>13
  <2>0. w1.pos <= w.cap /\ w2.pos <= w1.cap /\ w3.pos <= w2.cap
    BY <1>8, <1>9, <1>10, <2>1
  <2>2. \A k \in 1..Len(b1) : w4.mem[w.pos + k] = b1[k]
    <3>1. b1 \in Seq(Byte) /\ Puts(w, w1, b1) /\ Extends(w1, w4) /\ w1.pos <= w.cap
      BY <1>3, <1>8, <1>12, <2>0
    <3> QED BY <3>1, PutHolds
  <2>3. \A k \in 1..Len(b2) : w4.mem[w1.pos + k] = b2[k]
    <3>1. b2 \in Seq(Byte) /\ w1 \in Writers /\ Puts(w1, w2, b2) /\ Extends(w2, w4) /\ w2.pos <= w1.cap
      BY <1>3, <1>8, <1>9, <1>12, <2>0
    <3> QED BY <3>1, PutHolds
  <2>4. \A k \in 1..Len(b3) : w4.mem[w2.pos + k] = b3[k]
    <3>1. b3 \in Seq(Byte) /\ w2 \in Writers /\ Puts(w2, w3, b3) /\ Extends(w3, w4) /\ w3.pos <= w2.cap
      BY <1>4, <1>9, <1>10, <1>12, <2>0
    <3> QED BY <3>1, PutHolds
  <2>5. \A k \in 1..Len(b4) : w4.mem[w3.pos + k] = b4[k]
    <3>1. Extends(w4, w4)
      BY <1>11, ExtendsSelf
    <3>2. w4.pos <= w3.cap
      BY <1>10, <1>13
    <3> QED BY <1>5, <1>10, <1>11, <3>1, <3>2, PutHolds
  <2>6. w4.mem[p + 1] = f.id /\ w4.mem[p + 2] = f.type
    <3>1. 1 \in 1..Len(b1) /\ 1 \in 1..Len(b2) /\ w1.pos + 1 = p + 2
      BY <1>3, <1>7, <1>8
    <3>2. w4.mem[w.pos + 1] = b1[1] /\ w4.mem[w1.pos + 1] = b2[1]
      BY <2>2, <2>3, <3>1
    <3> QED BY <1>3, <3>1, <3>2
  <2>7. w4.mem[p + 3] = b3[1] /\ w4.mem[p + 4] = b3[2]
    <3>1. 1 \in 1..Len(b3) /\ 2 \in 1..Len(b3) /\ w2.pos + 1 = p + 3 /\ w2.pos + 2 = p + 4
      BY <1>4, <1>7, <1>9
    <3>2. w4.mem[w2.pos + 1] = b3[1] /\ w4.mem[w2.pos + 2] = b3[2]
      BY <2>4, <3>1
    <3> QED BY <3>1, <3>2
  <2>8. w4.mem[p + 3] * Radix + w4.mem[p + 4] = Len(f.val)
    BY <1>4, <2>1, <2>7
  <2>9. \A k \in 1..Len(f.val) : w4.mem[p + 4 + k] = f.val[k]
    BY <1>5, <1>10, <2>1, <2>5
  <2> QED BY <2>6, <2>8, <2>9 DEF FieldAt
<1> HIDE DEF p
<1>14. w4.pos <= p + 4 + Len(f.val)
  BY <1>1, <1>2, <1>7, <1>11
<1>15. Len(f.val) < U16Span => w4.pos = p + 4 + Len(f.val)
  BY <1>2, <1>11
<1>16. Extends(w, w4)
  BY <1>12
<1> QED BY <1>6, <1>13, <1>14, <1>15, <1>16 DEF p

(* The place of a count or a length, patched later.                        *)
LEMMA PutZero ==
  ASSUME NEW w \in Writers
  PROVE  /\ Extends(w, Put(w, U16(0))) /\ Put(w, U16(0)) \in Writers
         /\ Put(w, U16(0)).cap = w.cap /\ Put(w, U16(0)).pos = w.pos + 2
<1> DEFINE b == U16(0)
           v == Put(w, b)
<1>1. b \in Seq(Byte) /\ Len(b) = 2
  BY U16Is
<1> HIDE DEF b
<1>2. Puts(w, v, b)
  BY <1>1, PutIs
<1> HIDE DEF v
<1>3. Extends(w, v) /\ v \in Writers /\ v.cap = w.cap /\ v.pos = w.pos + 2
  BY <1>1, <1>2 DEF Puts, Extends
<1> QED BY <1>3 DEF v, b

(* The writer after each field of a record.                                *)
PutsFields(put, w, fields) ==
  /\ put \in [0..Len(fields) -> Writers]
  /\ put[0] = Put(w, U16(0))
  /\ \A i \in 1..Len(fields) : put[i] = PutField(put[i - 1], fields[i])

(* PutRecord is such a run with its count patched in.                      *)
LEMMA PutRecordRuns ==
  ASSUME NEW w \in Writers, NEW fields \in Seq(Field)
  PROVE  \E put : PutsFields(put, w, fields) /\ PutRecord(w, fields) = Patch(put[Len(fields)], w.pos, Len(fields))
<1> DEFINE N    == Len(fields)
           a    == Put(w, U16(0))
           D(q) == [i \in 0..N |-> IF i = 0 THEN a ELSE PutField(q[i - 1], fields[i])]
           put  == CHOOSE q : q = D(q)
           step == [p \in (1..N) \X Writers |-> PutField(p[2], fields[p[1]])]
<1>0. N \in Nat /\ a \in Writers /\ \A i \in 1..N : fields[i] \in Field
  BY FieldType, PutZero
<1>step. \A i \in 1..N, v \in Writers : PutField(v, fields[i]) \in Writers
  BY <1>0, PutFieldIs DEF Extends
<1>1. PICK f \in [0..N -> Writers] : Runs(f, a, step, N)
  <2>1. step \in [(1..N) \X Writers -> Writers]
    BY <1>step
  <2> HIDE DEF step, N, a
  <2> QED BY <1>0, <2>1, RunExists
<1>2. f[0] = a /\ \A i \in 1..N : f[i] = PutField(f[i - 1], fields[i])
  <2>1. ASSUME NEW i \in 1..N PROVE f[i] = PutField(f[i - 1], fields[i])
    <3>1. f[i] = step[<<i, f[i - 1]>>]
      <4> HIDE DEF step
      <4> QED BY <1>1 DEF Runs
    <3>2. f[i - 1] \in Writers
      BY <1>0
    <3>3. <<i, f[i - 1]>> \in (1..N) \X Writers
      BY <3>2
    <3> QED BY <3>1, <3>3
  <2> QED BY <1>1, <2>1 DEF Runs
<1> HIDE DEF a
<1>3. f = D(f)
  <2>1. \A i \in 0..N : f[i] = D(f)[i]
    BY <1>0, <1>2
  <2>2. f = [i \in 0..N |-> f[i]] /\ D(f) = [i \in 0..N |-> D(f)[i]]
    BY <1>1
  <2> HIDE DEF D
  <2> QED BY <2>1, <2>2
<1>4. put = D(put)
  <2> HIDE DEF D
  <2> QED BY <1>3
<1>5. PutRecord(w, fields) = Patch(put[N], w.pos, N)
  BY DEF PutRecord, a
<1> HIDE DEF put
<1>6. put[0] = a /\ \A i \in 1..N : put[i] = PutField(put[i - 1], fields[i])
  <2>1. \A i \in 0..N : put[i] = IF i = 0 THEN a ELSE PutField(put[i - 1], fields[i])
    BY <1>4
  <2> QED BY <1>0, <2>1
<1>7. put \in [0..N -> Writers]
  <2> DEFINE G == {n \in 0..N : put[n] \in Writers}
  <2>1. 0 \in G /\ \A k \in 1..N : k - 1 \in G => k \in G
    <3>1. 0 \in G
      BY <1>0, <1>6
    <3>2. ASSUME NEW k \in 1..N, k - 1 \in G PROVE k \in G
      BY <1>0, <1>6, <1>step, <3>2
    <3> QED BY <3>1, <3>2
  <2>2. G = 0..N
    <3>1. G \in SUBSET (0..N)
      OBVIOUS
    <3> HIDE DEF G
    <3> QED BY <1>0, <2>1, <3>1, Upto
  <2>3. put = [i \in 0..N |-> put[i]]
    BY <1>4
  <2> QED BY <2>2, <2>3
<1>8. PutsFields(put, w, fields)
  BY <1>6, <1>7 DEF PutsFields, a
<1> QED BY <1>5, <1>8

(* The writer after n fields, when b counts the bytes: the fields are out, *)
(* and if every value can be said they stand where b says.                 *)
Written(w, v, fields, b, n) ==
  /\ Extends(w, v) /\ w.pos + 2 <= v.pos /\ v.pos <= w.pos + b[n]
  /\ (\A i \in 1..n : Len(fields[i].val) < U16Span) =>
       /\ v.pos = w.pos + b[n]
       /\ v.pos <= w.cap => \A i \in 1..n : FieldAt(v.mem, w.pos + b[i - 1], fields[i])

(* One field more.                                                         *)
LEMMA WrittenStep ==
  ASSUME NEW w \in Writers, NEW v, NEW fields \in Seq(Field),
         NEW b \in [0..Len(fields) -> Nat], FieldEnds(b, fields),
         NEW n \in 1..Len(fields), Written(w, v, fields, b, n - 1)
  PROVE  Written(w, PutField(v, fields[n]), fields, b, n)
<1> DEFINE f == fields[n]
           u == PutField(v, f)
           o == w.pos + b[n - 1]
<1>1. f \in Field /\ Len(f.val) \in Nat /\ n - 1 \in 0..Len(fields) /\ n \in 0..Len(fields)
  BY FieldType
<1>2. w.pos \in Nat /\ w.cap \in Nat /\ b[n] \in Nat /\ b[n - 1] \in Nat
  BY <1>1, WriterType
<1>3. b[n] = b[n - 1] + 4 + Len(f.val)
  BY DEF FieldEnds
<1>4. Extends(w, v) /\ v \in Writers /\ v.cap = w.cap /\ v.pos \in Nat /\ w.pos + 2 <= v.pos /\ v.pos <= o
  BY WriterType DEF Written, Extends
<1>5. /\ Extends(v, u) /\ u.pos <= v.pos + 4 + Len(f.val)
      /\ Len(f.val) < U16Span => /\ u.pos = v.pos + 4 + Len(f.val)
                                 /\ u.pos <= v.cap => FieldAt(u.mem, v.pos, f)
  <2> HIDE DEF f
  <2> QED BY <1>1, <1>4, PutFieldIs
<1> HIDE DEF u, f
<1>6. Extends(w, u) /\ u \in Writers /\ u.pos \in Nat /\ v.pos <= u.pos
  BY <1>4, <1>5, ExtendsTrans, ExtendsType, WriterType
<1>7. w.pos + 2 <= u.pos /\ u.pos <= w.pos + b[n]
  <2>1. u.pos <= v.pos + 4 + Len(f.val) /\ v.pos <= u.pos /\ v.pos <= w.pos + b[n - 1] /\ w.pos + 2 <= v.pos
    BY <1>4, <1>5, <1>6
  <2>2. u.pos \in Nat /\ v.pos \in Nat /\ w.pos \in Nat /\ Len(f.val) \in Nat
    BY <1>1, <1>2, <1>4, <1>6
  <2> DEFINE p == w.pos
             q == v.pos
             r == u.pos
             x == b[n - 1]
             y == b[n]
             l == Len(f.val)
  <2>3. /\ p \in Nat /\ q \in Nat /\ r \in Nat /\ x \in Nat /\ y \in Nat /\ l \in Nat
        /\ y = x + 4 + l /\ r <= q + 4 + l /\ q <= r /\ q <= p + x /\ p + 2 <= q
    BY <1>2, <1>3, <2>1, <2>2
  <2> HIDE DEF p, q, r, x, y, l
  <2>4. p + 2 <= r /\ r <= p + y
    BY <2>3
  <2> QED BY <2>4 DEF p, r, y
<1>8. ASSUME \A i \in 1..n : Len(fields[i].val) < U16Span
      PROVE  /\ u.pos = w.pos + b[n]
             /\ u.pos <= w.cap => \A i \in 1..n : FieldAt(u.mem, w.pos + b[i - 1], fields[i])
  <2>1. v.pos = o /\ (v.pos <= w.cap => \A i \in 1..(n - 1) : FieldAt(v.mem, w.pos + b[i - 1], fields[i]))
    BY <1>8 DEF Written
  <2>2. Len(f.val) < U16Span
    BY <1>8 DEF f
  <2>3. u.pos = w.pos + b[n]
    <3>1. u.pos = v.pos + 4 + Len(f.val) /\ v.pos = w.pos + b[n - 1] /\ w.pos + 2 <= v.pos /\ v.pos <= u.pos
      BY <1>4, <1>5, <1>6, <2>1, <2>2
    <3>2. Len(f.val) \in Nat /\ v.pos \in Nat /\ u.pos \in Nat
      BY <1>1, <1>4, <1>6
    <3> DEFINE p == w.pos
               r == u.pos
               x == b[n - 1]
               y == b[n]
               l == Len(f.val)
    <3>3. /\ p \in Nat /\ r \in Nat /\ x \in Nat /\ y \in Nat /\ l \in Nat
          /\ y = x + 4 + l /\ r = (p + x) + 4 + l
      BY <1>2, <1>3, <3>1, <3>2
    <3> HIDE DEF p, r, x, y, l
    <3>4. r = p + y
      BY <3>3
    <3> QED BY <3>4 DEF p, r, y
  <2>4. ASSUME u.pos <= w.cap, NEW i \in 1..n
        PROVE  FieldAt(u.mem, w.pos + b[i - 1], fields[i])
    <3>1. CASE i = n
      BY <1>4, <1>5, <2>1, <2>2, <2>4, <3>1 DEF f
    <3>2. CASE i # n
      <4>1. i \in 1..(n - 1) /\ i \in 1..Len(fields) /\ i - 1 \in 0..Len(fields) /\ i \in 0..Len(fields)
        BY <3>2, FieldType
      <4>2. v.pos <= w.cap
        BY <1>2, <1>4, <1>6, <2>4
      <4>3. FieldAt(v.mem, w.pos + b[i - 1], fields[i])
        BY <2>1, <4>1, <4>2
      <4>4. fields[i] \in Field /\ Len(fields[i].val) \in Nat /\ b[i - 1] \in Nat /\ b[i] \in Nat
            /\ b[i] = b[i - 1] + 4 + Len(fields[i].val)
        BY <4>1, FieldType DEF FieldEnds
      <4>5. b[i] <= b[n - 1]
        <5>1. i \in 0..(n - 1)
          BY <4>1
        <5> QED BY <1>1, <5>1, FieldEndsOrder
      <4>6. (w.pos + b[i - 1]) + (4 + Len(fields[i].val)) <= v.pos
        <5>1. v.pos = w.pos + b[n - 1] /\ Len(fields[i].val) \in Nat
          BY <2>1, <4>4
        <5> DEFINE x == b[i - 1]
                   y == b[i]
                   z == b[n - 1]
                   l == Len(fields[i].val)
                   p == w.pos
        <5>2. x \in Nat /\ y \in Nat /\ z \in Nat /\ l \in Nat /\ p \in Nat /\ y = x + 4 + l /\ y <= z
          BY <1>2, <4>4, <4>5
        <5> HIDE DEF x, y, z, l, p
        <5>3. (p + x) + (4 + l) <= p + z
          BY <5>2
        <5> QED BY <5>1, <5>3 DEF x, y, z, l, p
      <4>7. w.pos + b[i - 1] \in Nat /\ 4 + Len(fields[i].val) \in Nat /\ v.pos <= v.cap
        <5>1. v.cap = w.cap
          BY <1>4
        <5>2. w.pos \in Nat /\ b[i - 1] \in Nat /\ Len(fields[i].val) \in Nat
          BY <1>2, <4>4
        <5> QED BY <4>2, <5>1, <5>2
      <4>8. Same(v.mem, u.mem, w.pos + b[i - 1], 4 + Len(fields[i].val))
        BY <1>4, <1>5, <4>6, <4>7, ExtendsSame
      <4> QED BY <4>3, <4>4, <4>7, <4>8, FieldStays
    <3> QED BY <3>1, <3>2
  <2> QED BY <2>3, <2>4
<1> QED BY <1>6, <1>7, <1>8 DEF Written, u, f

(* A patch at the head of what was written leaves the rest as it is.       *)
LEMMA PatchAtHead ==
  ASSUME NEW w \in Writers, NEW v, Extends(w, v), w.pos + 2 <= v.pos, NEW n \in Nat
  PROVE  /\ Extends(w, Patch(v, w.pos, n)) /\ Patch(v, w.pos, n).pos = v.pos
         /\ \A o, k \in Nat : o >= w.pos + 2 /\ o + k <= w.cap => Same(v.mem, Patch(v, w.pos, n).mem, o, k)
         /\ v.pos <= w.cap /\ n < U16Span
              => Patch(v, w.pos, n).mem[w.pos + 1] * Radix + Patch(v, w.pos, n).mem[w.pos + 2] = n
<1> DEFINE p == w.pos
           u == Patch(v, p, n)
<1>1. p \in Nat /\ w.cap \in Nat /\ w.cap <= MemSize /\ MemSize \in Nat /\ v \in Writers /\ v.cap = w.cap /\ v.pos \in Nat
  BY Numbers, WriterType, ExtendsType
<1> HIDE DEF p
<1>2. /\ u \in Writers /\ u.pos = v.pos /\ u.cap = v.cap
      /\ \A j \in 1..MemSize : j \notin p+1 .. p+2 \/ j > v.cap => u.mem[j] = v.mem[j]
      /\ p + 2 <= v.cap /\ n < U16Span => u.mem[p + 1] * Radix + u.mem[p + 2] = n
  BY <1>1, PatchIs
<1> HIDE DEF u
<1>3. Extends(w, u)
  <2>1. ASSUME NEW j \in 1..MemSize, j <= w.pos \/ j > w.cap PROVE u.mem[j] = w.mem[j]
    <3>1. j \notin p+1 .. p+2 \/ j > v.cap
      BY <1>1, <2>1 DEF p
    <3>2. v.mem[j] = w.mem[j]
      BY <2>1 DEF Extends
    <3> QED BY <1>2, <3>1, <3>2
  <2>2. w.pos <= u.pos
    BY <1>2, ExtendsType
  <2> QED BY <1>1, <1>2, <2>1, <2>2 DEF Extends
<1>4. ASSUME NEW o \in Nat, NEW k \in Nat, o >= p + 2, o + k <= w.cap
      PROVE  Same(v.mem, u.mem, o, k)
  <2>1. \A j \in o+1 .. o+k : j \in 1..MemSize /\ j \notin p+1 .. p+2
    BY <1>1, <1>4
  <2> QED BY <1>2, <2>1 DEF Same
<1>5. ASSUME v.pos <= w.cap PROVE p + 2 <= v.cap
  <2> DEFINE q == v.pos
             c == w.cap
  <2>1. p + 2 <= q /\ q <= c /\ q \in Nat /\ c \in Nat /\ v.cap = c
    BY <1>1, <1>5 DEF p
  <2> HIDE DEF q, c
  <2>2. p + 2 <= c
    BY <1>1, <2>1
  <2> QED BY <2>1, <2>2
<1> QED BY <1>2, <1>3, <1>4, <1>5 DEF p, u

(* A record takes as many bytes as RecordBytes says, or fewer when a value *)
(* is cut, and stands in the block if it fits.                             *)
LEMMA PutRecordIs ==
  ASSUME NEW w \in Writers, NEW fields \in Seq(Field)
  PROVE  /\ Extends(w, PutRecord(w, fields))
         /\ w.pos + 2 <= PutRecord(w, fields).pos
         /\ PutRecord(w, fields).pos <= w.pos + RecordBytes(fields)
         /\ Sayable(fields) =>
              /\ PutRecord(w, fields).pos = w.pos + RecordBytes(fields)
              /\ PutRecord(w, fields).pos <= w.cap => RecordAt(PutRecord(w, fields).mem, w.pos, fields)
<1> DEFINE N == Len(fields)
<1>0. N \in Nat /\ \A i \in 1..N : fields[i] \in Field /\ Len(fields[i].val) \in Nat
  BY FieldType
<1>1. PICK b \in [0..N -> Nat] : FieldEnds(b, fields) /\ RecordBytes(fields) = b[N]
  BY RecordBytesIs
<1>2. PICK put : PutsFields(put, w, fields) /\ PutRecord(w, fields) = Patch(put[N], w.pos, N)
  BY PutRecordRuns
<1>3. Written(w, put[N], fields, b, N)
  <2> DEFINE G == {n \in 0..N : Written(w, put[n], fields, b, n)}
  <2>1. 0 \in G
    <3>1. put[0] = Put(w, U16(0)) /\ b[0] = 2
      BY <1>1, <1>2 DEF PutsFields, FieldEnds
    <3>2. Extends(w, put[0]) /\ put[0].pos = w.pos + 2
      BY <3>1, PutZero
    <3>3. w.pos + 2 <= w.pos + 2
      BY WriterType
    <3>4. Written(w, put[0], fields, b, 0)
      BY <3>1, <3>2, <3>3 DEF Written
    <3> QED BY <1>0, <3>4
  <2>2. ASSUME NEW k \in 1..N, k - 1 \in G PROVE k \in G
    <3>1. put[k] = PutField(put[k - 1], fields[k])
      BY <1>2 DEF PutsFields
    <3>2. Written(w, put[k - 1], fields, b, k - 1)
      BY <2>2
    <3>3. Written(w, put[k], fields, b, k)
      BY <1>1, <3>1, <3>2, WrittenStep
    <3> QED BY <1>0, <3>3
  <2>3. G = 0..N
    <3>1. G \in SUBSET (0..N)
      OBVIOUS
    <3> HIDE DEF G
    <3> QED BY <1>0, <2>1, <2>2, <3>1, Upto
  <2> QED BY <1>0, <2>3
<1> DEFINE v == put[N]
           u == PutRecord(w, fields)
<1>4. u = Patch(v, w.pos, N)
  BY <1>2
<1> HIDE DEF v, u
<1>5. Extends(w, v) /\ w.pos + 2 <= v.pos /\ v.pos <= w.pos + b[N]
  BY <1>3 DEF Written, v
<1>6. /\ Extends(w, u) /\ u.pos = v.pos
      /\ \A o, k \in Nat : o >= w.pos + 2 /\ o + k <= w.cap => Same(v.mem, u.mem, o, k)
      /\ v.pos <= w.cap /\ N < U16Span => u.mem[w.pos + 1] * Radix + u.mem[w.pos + 2] = N
  <2> HIDE DEF N
  <2> QED BY <1>0, <1>4, <1>5, PatchAtHead
<1>7. ASSUME Sayable(fields)
      PROVE  u.pos = w.pos + b[N] /\ (u.pos <= w.cap => RecordAt(u.mem, w.pos, fields))
  <2>1. N < U16Span /\ \A i \in 1..N : Len(fields[i].val) < U16Span
    BY <1>7, FieldType DEF Sayable
  <2>2. v.pos = w.pos + b[N] /\ (v.pos <= w.cap => \A i \in 1..N : FieldAt(v.mem, w.pos + b[i - 1], fields[i]))
    BY <1>3, <2>1 DEF Written, v
  <2>3. ASSUME v.pos <= w.cap PROVE RecordAt(u.mem, w.pos, fields)
    <3>1. u.mem[w.pos + 1] * Radix + u.mem[w.pos + 2] = N
      BY <1>6, <2>1, <2>3
    <3>2. ASSUME NEW i \in 1..N PROVE FieldAt(u.mem, w.pos + b[i - 1], fields[i])
      <4> DEFINE p == w.pos
                 x == b[i - 1]
                 y == b[i]
                 z == b[N]
                 c == w.cap
                 l == Len(fields[i].val)
      <4>1. i - 1 \in 0..N /\ i \in 0..N /\ i \in 0..N /\ N \in 0..N /\ 0 \in 0..(i - 1)
        BY <1>0
      <4>2. y = x + 4 + l
        BY <1>1 DEF FieldEnds
      <4>3. y <= z /\ 2 + 4 * (i - 1) <= x
        BY <1>1, <4>1, FieldEndsOrder
      <4>4. p \in Nat /\ x \in Nat /\ y \in Nat /\ z \in Nat /\ c \in Nat /\ l \in Nat /\ p + z <= c
        BY <1>0, <2>2, <2>3, <4>1, WriterType
      <4>5. fields[i] \in Field /\ FieldAt(v.mem, p + x, fields[i])
        BY <1>0, <2>2, <2>3
      <4> HIDE DEF p, x, y, z, c, l
      <4>6. p + x \in Nat /\ 4 + l \in Nat /\ p + x >= p + 2 /\ (p + x) + (4 + l) <= c
        <5>1. 0 <= i - 1 /\ i - 1 \in Int
          BY <4>1
        <5> QED BY <4>2, <4>3, <4>4, <5>1
      <4>7. Same(v.mem, u.mem, p + x, 4 + l)
        BY <1>6, <4>6 DEF p, c
      <4>8. FieldAt(u.mem, p + x, fields[i])
        BY <4>5, <4>6, <4>7, FieldStays DEF l
      <4> QED BY <4>8 DEF p, x
    <3> QED BY <1>1, <3>1, <3>2 DEF RecordAt
  <2> QED BY <1>6, <2>2, <2>3
<1>8. u.pos <= w.pos + RecordBytes(fields) /\ w.pos + 2 <= u.pos
  BY <1>1, <1>5, <1>6
<1>9. Sayable(fields) =>
              /\ u.pos = w.pos + RecordBytes(fields)
              /\ u.pos <= w.cap => RecordAt(u.mem, w.pos, fields)
  BY <1>1, <1>7
<1> QED BY <1>6, <1>8, <1>9 DEF u

(* The number of bytes bounds what the u16 fields have to say.             *)
LEMMA BytesBound ==
  ASSUME NEW fields \in Seq(Field)
  PROVE  2 <= RecordBytes(fields) /\ (RecordBytes(fields) < U16Span => Sayable(fields))
<1> DEFINE N == Len(fields)
<1>0. N \in Nat /\ DOMAIN fields = 1..N /\ \A i \in 1..N : fields[i] \in Field /\ Len(fields[i].val) \in Nat
  BY FieldType
<1>1. PICK b \in [0..N -> Nat] : FieldEnds(b, fields) /\ RecordBytes(fields) = b[N]
  BY RecordBytesIs
<1>2. \A n \in 0..N : 2 + 4 * n <= b[n] /\ \A i \in 0..n : b[i] <= b[n]
  BY <1>1, FieldEndsOrder
<1>3. 2 + 4 * N <= b[N] /\ b[N] \in Nat
  BY <1>0, <1>2
<1>4. ASSUME NEW i \in 1..N PROVE Len(fields[i].val) <= b[N]
  <2> DEFINE x == b[i - 1]
             y == b[i]
             z == b[N]
             l == Len(fields[i].val)
  <2>1. x \in Nat /\ y \in Nat /\ z \in Nat /\ l \in Nat
    BY <1>0
  <2>2. y = x + 4 + l
    BY <1>1 DEF FieldEnds
  <2>3. y <= z
    BY <1>0, <1>2
  <2> HIDE DEF x, y, z, l
  <2>4. l <= z
    BY <2>1, <2>2, <2>3
  <2> QED BY <2>4 DEF l, z
<1>5. ASSUME b[N] < U16Span PROVE Sayable(fields)
  <2>1. N < U16Span
    BY <1>0, <1>3, <1>5, Numbers
  <2>2. \A i \in 1..N : Len(fields[i].val) < U16Span
    BY <1>0, <1>3, <1>4, <1>5, Numbers
  <2> QED BY <1>0, <2>1, <2>2 DEF Sayable
<1>6. 2 <= b[N]
  BY <1>0, <1>3
<1> QED BY <1>1, <1>5, <1>6

(* The same for an entry of a list, whose length is patched in last.       *)
LEMMA PutEntryIs ==
  ASSUME NEW w \in Writers, NEW fields \in Seq(Field)
  PROVE  /\ Extends(w, PutEntry(w, fields))
         /\ PutEntry(w, fields).pos <= w.pos + 2 + RecordBytes(fields)
         /\ RecordBytes(fields) < U16Span =>
              /\ PutEntry(w, fields).pos = w.pos + 2 + RecordBytes(fields)
              /\ PutEntry(w, fields).pos <= w.cap => EntryAt(PutEntry(w, fields).mem, w.pos, fields)
<1> DEFINE a == Put(w, U16(0))
           v == PutRecord(a, fields)
           n == BodyLen(w.pos, v.pos)
           u == Patch(v, w.pos, n)
           t == RecordBytes(fields)
           p == w.pos
<1>1. Extends(w, a) /\ a \in Writers /\ a.cap = w.cap /\ a.pos = p + 2
  BY PutZero
<1>2. PutEntry(w, fields) = u
  BY DEF PutEntry
<1>3. t \in Nat /\ p \in Nat /\ w.cap \in Nat
  BY RecordBytesType, WriterType
<1> HIDE DEF a
<1>4. /\ Extends(a, v) /\ a.pos + 2 <= v.pos /\ v.pos <= a.pos + t
      /\ Sayable(fields) => v.pos = a.pos + t /\ (v.pos <= a.cap => RecordAt(v.mem, a.pos, fields))
  BY <1>1, PutRecordIs
<1> HIDE DEF v
<1>5. Extends(w, v) /\ v \in Writers /\ v.pos \in Nat
  BY <1>1, <1>4, ExtendsTrans, ExtendsType, WriterType
<1> HIDE DEF p, t
<1>6. p + 2 <= v.pos /\ v.pos <= p + 2 + t
  <2> DEFINE q == v.pos
             r == a.pos
  <2>1. q \in Nat /\ r = p + 2 /\ r + 2 <= q /\ q <= r + t
    BY <1>1, <1>4, <1>5
  <2> HIDE DEF q, r
  <2>2. p + 2 <= q /\ q <= p + 2 + t
    BY <1>3, <2>1
  <2> QED BY <2>2 DEF q
<1>7. n \in Nat /\ n = v.pos - (p + 2)
  <2>1. n = v.pos - (p + 2)
    BY DEF BodyLen, p
  <2> DEFINE q == v.pos
  <2>2. q \in Nat /\ p + 2 <= q
    BY <1>5, <1>6
  <2> HIDE DEF q, n
  <2>3. q - (p + 2) \in Nat
    BY <1>3, <2>2
  <2> QED BY <2>1, <2>3 DEF q
<1> HIDE DEF n
<1>8. /\ Extends(w, u) /\ u.pos = v.pos
      /\ \A o, k \in Nat : o >= p + 2 /\ o + k <= w.cap => Same(v.mem, u.mem, o, k)
      /\ v.pos <= w.cap /\ n < U16Span => u.mem[p + 1] * Radix + u.mem[p + 2] = n
  BY <1>5, <1>6, <1>7, PatchAtHead DEF p
<1> HIDE DEF u
<1>9. ASSUME t < U16Span
      PROVE  u.pos = p + 2 + t /\ (u.pos <= w.cap => EntryAt(u.mem, p, fields))
  <2>1. Sayable(fields)
    BY <1>9, BytesBound DEF t
  <2>2. v.pos = p + 2 + t /\ (v.pos <= w.cap => RecordAt(v.mem, p + 2, fields))
    BY <1>1, <1>4, <2>1
  <2>3. n = t
    BY <1>3, <1>7, <2>2
  <2>4. ASSUME v.pos <= w.cap PROVE EntryAt(u.mem, p, fields)
    <3>1. u.mem[p + 1] * Radix + u.mem[p + 2] = t
      BY <1>8, <1>9, <2>3, <2>4
    <3>2. p + 2 \in Nat /\ p + 2 >= p + 2 /\ (p + 2) + t <= w.cap
      BY <1>3, <2>2, <2>4
    <3>3. Same(v.mem, u.mem, p + 2, t)
      BY <1>3, <1>8, <3>2
    <3>4. RecordAt(u.mem, p + 2, fields)
      BY <2>2, <2>4, <3>2, <3>3, RecordStays DEF t
    <3> QED BY <3>1, <3>4 DEF EntryAt, t
  <2> QED BY <1>8, <2>2, <2>4
<1>10. u.pos <= p + 2 + t
  BY <1>6, <1>8
<1> QED BY <1>2, <1>8, <1>9, <1>10 DEF p, t, u

PutsEntries(put, w, entries) ==
  /\ put \in [0..Len(entries) -> Writers]
  /\ put[0] = Put(w, U16(0))
  /\ \A i \in 1..Len(entries) : put[i] = PutEntry(put[i - 1], entries[i])

(* PutList is a run over the entries with its count patched in.            *)
LEMMA PutListRuns ==
  ASSUME NEW w \in Writers, NEW entries \in Seq(Record)
  PROVE  \E put : PutsEntries(put, w, entries) /\ PutList(w, entries) = Patch(put[Len(entries)], w.pos, Len(entries))
<1> DEFINE N    == Len(entries)
           a    == Put(w, U16(0))
           D(q) == [i \in 0..N |-> IF i = 0 THEN a ELSE PutEntry(q[i - 1], entries[i])]
           put  == CHOOSE q : q = D(q)
           step == [p \in (1..N) \X Writers |-> PutEntry(p[2], entries[p[1]])]
<1>0. N \in Nat /\ a \in Writers /\ \A i \in 1..N : entries[i] \in Seq(Field)
  BY EntryType, PutZero
<1>step. \A i \in 1..N, v \in Writers : PutEntry(v, entries[i]) \in Writers
  BY <1>0, PutEntryIs DEF Extends
<1>1. PICK f \in [0..N -> Writers] : Runs(f, a, step, N)
  <2>1. step \in [(1..N) \X Writers -> Writers]
    BY <1>step
  <2> HIDE DEF step, N, a
  <2> QED BY <1>0, <2>1, RunExists
<1>2. f[0] = a /\ \A i \in 1..N : f[i] = PutEntry(f[i - 1], entries[i])
  <2>1. ASSUME NEW i \in 1..N PROVE f[i] = PutEntry(f[i - 1], entries[i])
    <3>1. f[i] = step[<<i, f[i - 1]>>]
      <4> HIDE DEF step
      <4> QED BY <1>1 DEF Runs
    <3>2. f[i - 1] \in Writers
      BY <1>0
    <3>3. <<i, f[i - 1]>> \in (1..N) \X Writers
      BY <3>2
    <3> QED BY <3>1, <3>3
  <2> QED BY <1>1, <2>1 DEF Runs
<1> HIDE DEF a
<1>3. f = D(f)
  <2>1. \A i \in 0..N : f[i] = D(f)[i]
    BY <1>0, <1>2
  <2>2. f = [i \in 0..N |-> f[i]] /\ D(f) = [i \in 0..N |-> D(f)[i]]
    BY <1>1
  <2> HIDE DEF D
  <2> QED BY <2>1, <2>2
<1>4. put = D(put)
  <2> HIDE DEF D
  <2> QED BY <1>3
<1>5. PutList(w, entries) = Patch(put[N], w.pos, N)
  BY DEF PutList, a
<1> HIDE DEF put
<1>6. put[0] = a /\ \A i \in 1..N : put[i] = PutEntry(put[i - 1], entries[i])
  <2>1. \A i \in 0..N : put[i] = IF i = 0 THEN a ELSE PutEntry(put[i - 1], entries[i])
    BY <1>4
  <2> QED BY <1>0, <2>1
<1>7. put \in [0..N -> Writers]
  <2> DEFINE G == {n \in 0..N : put[n] \in Writers}
  <2>1. 0 \in G /\ \A k \in 1..N : k - 1 \in G => k \in G
    <3>1. 0 \in G
      BY <1>0, <1>6
    <3>2. ASSUME NEW k \in 1..N, k - 1 \in G PROVE k \in G
      BY <1>0, <1>6, <1>step, <3>2
    <3> QED BY <3>1, <3>2
  <2>2. G = 0..N
    <3>1. G \in SUBSET (0..N)
      OBVIOUS
    <3> HIDE DEF G
    <3> QED BY <1>0, <2>1, <3>1, Upto
  <2>3. put = [i \in 0..N |-> put[i]]
    BY <1>4
  <2> QED BY <2>2, <2>3
<1>8. PutsEntries(put, w, entries)
  BY <1>6, <1>7 DEF PutsEntries, a
<1> QED BY <1>5, <1>8

(* The same of a list: the writer after n entries.                         *)
Listed(w, v, entries, b, n) ==
  /\ Extends(w, v) /\ w.pos + 2 <= v.pos /\ v.pos <= w.pos + b[n]
  /\ (\A i \in 1..n : RecordBytes(entries[i]) < U16Span) =>
       /\ v.pos = w.pos + b[n]
       /\ v.pos <= w.cap => \A i \in 1..n : EntryAt(v.mem, w.pos + b[i - 1], entries[i])

(* One entry more.                                                         *)
LEMMA ListedStep ==
  ASSUME NEW w \in Writers, NEW v, NEW entries \in Seq(Record),
         NEW b \in [0..Len(entries) -> Nat], EntryEnds(b, entries),
         NEW n \in 1..Len(entries), Listed(w, v, entries, b, n - 1)
  PROVE  Listed(w, PutEntry(v, entries[n]), entries, b, n)
<1> DEFINE f == entries[n]
           u == PutEntry(v, f)
           o == w.pos + b[n - 1]
           s == RecordBytes(f)
<1>1. f \in Seq(Field) /\ s \in Nat /\ n - 1 \in 0..Len(entries) /\ n \in 0..Len(entries)
  BY EntryType
<1>2. w.pos \in Nat /\ w.cap \in Nat /\ b[n] \in Nat /\ b[n - 1] \in Nat
  BY <1>1, WriterType
<1>3. b[n] = b[n - 1] + 2 + s
  BY DEF EntryEnds
<1>4. Extends(w, v) /\ v \in Writers /\ v.cap = w.cap /\ v.pos \in Nat /\ w.pos + 2 <= v.pos /\ v.pos <= o
  BY WriterType DEF Listed, Extends
<1>5. /\ Extends(v, u) /\ u.pos <= v.pos + 2 + s
      /\ s < U16Span => /\ u.pos = v.pos + 2 + s
                        /\ u.pos <= v.cap => EntryAt(u.mem, v.pos, f)
  <2> HIDE DEF f
  <2> QED BY <1>1, <1>4, PutEntryIs
<1> HIDE DEF u, f
<1>6. Extends(w, u) /\ u \in Writers /\ u.pos \in Nat /\ v.pos <= u.pos
  BY <1>4, <1>5, ExtendsTrans, ExtendsType, WriterType
<1>7. w.pos + 2 <= u.pos /\ u.pos <= w.pos + b[n]
  <2> DEFINE p == w.pos
             q == v.pos
             r == u.pos
             x == b[n - 1]
             y == b[n]
  <2>1. /\ p \in Nat /\ q \in Nat /\ r \in Nat /\ x \in Nat /\ y \in Nat /\ s \in Nat
        /\ y = x + 2 + s /\ r <= q + 2 + s /\ q <= r /\ q <= p + x /\ p + 2 <= q
    BY <1>1, <1>2, <1>3, <1>4, <1>5, <1>6
  <2> HIDE DEF p, q, r, x, y, s
  <2>2. p + 2 <= r /\ r <= p + y
    BY <2>1
  <2> QED BY <2>2 DEF p, r, y
<1>8. ASSUME \A i \in 1..n : RecordBytes(entries[i]) < U16Span
      PROVE  /\ u.pos = w.pos + b[n]
             /\ u.pos <= w.cap => \A i \in 1..n : EntryAt(u.mem, w.pos + b[i - 1], entries[i])
  <2>1. v.pos = o /\ (v.pos <= w.cap => \A i \in 1..(n - 1) : EntryAt(v.mem, w.pos + b[i - 1], entries[i]))
    BY <1>8 DEF Listed
  <2>2. s < U16Span
    BY <1>8 DEF f
  <2>3. u.pos = w.pos + b[n]
    <3>1. u.pos = v.pos + 2 + s /\ v.pos = w.pos + b[n - 1]
      BY <1>5, <2>1, <2>2
    <3> DEFINE p == w.pos
               r == u.pos
               x == b[n - 1]
               y == b[n]
    <3>2. /\ p \in Nat /\ r \in Nat /\ x \in Nat /\ y \in Nat /\ s \in Nat
          /\ y = x + 2 + s /\ r = (p + x) + 2 + s
      BY <1>1, <1>2, <1>3, <1>6, <3>1
    <3> HIDE DEF p, r, x, y, s
    <3>3. r = p + y
      BY <3>2
    <3> QED BY <3>3 DEF p, r, y
  <2>4. ASSUME u.pos <= w.cap, NEW i \in 1..n
        PROVE  EntryAt(u.mem, w.pos + b[i - 1], entries[i])
    <3>1. CASE i = n
      BY <1>4, <1>5, <2>1, <2>2, <2>4, <3>1 DEF f
    <3>2. CASE i # n
      <4>1. i \in 1..(n - 1) /\ i \in 0..(n - 1) /\ i \in 1..Len(entries) /\ i - 1 \in 0..Len(entries) /\ i \in 0..Len(entries)
        BY <3>2, EntryType
      <4>2. v.pos <= w.cap
        BY <1>2, <1>4, <1>6, <2>4
      <4>3. EntryAt(v.mem, w.pos + b[i - 1], entries[i])
        BY <2>1, <4>1, <4>2
      <4>4. entries[i] \in Seq(Field) /\ RecordBytes(entries[i]) \in Nat /\ b[i - 1] \in Nat /\ b[i] \in Nat
            /\ b[i] = b[i - 1] + 2 + RecordBytes(entries[i])
        BY <4>1, EntryType DEF EntryEnds
      <4>5. b[i] <= b[n - 1]
        BY <1>1, <4>1, EntryEndsOrder
      <4> DEFINE p == w.pos
                 q == v.pos
                 x == b[i - 1]
                 y == b[i]
                 z == b[n - 1]
                 c == w.cap
                 l == RecordBytes(entries[i])
      <4>6. /\ p \in Nat /\ x \in Nat /\ y \in Nat /\ z \in Nat /\ c \in Nat /\ l \in Nat
            /\ y = x + 2 + l /\ y <= z /\ q = p + z /\ q <= c
        BY <1>2, <2>1, <4>2, <4>4, <4>5
      <4>7. v.cap = c
        BY <1>4
      <4> HIDE DEF p, x, y, z, l, c, q
      <4>8. p + x \in Nat /\ 2 + l \in Nat /\ (p + x) + (2 + l) <= q
        BY <4>6
      <4>9. Same(v.mem, u.mem, p + x, 2 + l)
        BY <1>4, <1>5, <4>6, <4>7, <4>8, ExtendsSame DEF q
      <4>10. EntryAt(v.mem, p + x, entries[i])
        BY <4>3 DEF p, x
      <4>11. EntryAt(u.mem, p + x, entries[i])
        BY <4>4, <4>8, <4>9, <4>10, EntryStays DEF l
      <4> QED BY <4>11 DEF p, x
    <3> QED BY <3>1, <3>2
  <2> QED BY <2>3, <2>4
<1> QED BY <1>6, <1>7, <1>8 DEF Listed, u, f

(* The same for a list.                                                    *)
LEMMA PutListIs ==
  ASSUME NEW w \in Writers, NEW entries \in Seq(Record)
  PROVE  /\ Extends(w, PutList(w, entries))
         /\ w.pos + 2 <= PutList(w, entries).pos
         /\ PutList(w, entries).pos <= w.pos + ListBytes(entries)
         /\ Framable(entries) =>
              /\ PutList(w, entries).pos = w.pos + ListBytes(entries)
              /\ PutList(w, entries).pos <= w.cap => ListAt(PutList(w, entries).mem, w.pos, entries)
<1> DEFINE N == Len(entries)
<1>0. N \in Nat /\ \A i \in 1..N : entries[i] \in Seq(Field) /\ RecordBytes(entries[i]) \in Nat
  BY EntryType
<1>1. PICK b \in [0..N -> Nat] : EntryEnds(b, entries) /\ ListBytes(entries) = b[N]
  BY ListBytesIs
<1>2. PICK put : PutsEntries(put, w, entries) /\ PutList(w, entries) = Patch(put[N], w.pos, N)
  BY PutListRuns
<1>3. Listed(w, put[N], entries, b, N)
  <2> DEFINE G == {n \in 0..N : Listed(w, put[n], entries, b, n)}
  <2>1. 0 \in G
    <3>1. put[0] = Put(w, U16(0)) /\ b[0] = 2
      BY <1>1, <1>2 DEF PutsEntries, EntryEnds
    <3>2. Extends(w, put[0]) /\ put[0].pos = w.pos + 2
      BY <3>1, PutZero
    <3>3. w.pos + 2 <= w.pos + 2
      BY WriterType
    <3>4. Listed(w, put[0], entries, b, 0)
      BY <3>1, <3>2, <3>3 DEF Listed
    <3> QED BY <1>0, <3>4
  <2>2. ASSUME NEW k \in 1..N, k - 1 \in G PROVE k \in G
    <3>1. put[k] = PutEntry(put[k - 1], entries[k])
      BY <1>2 DEF PutsEntries
    <3>2. Listed(w, put[k - 1], entries, b, k - 1)
      BY <2>2
    <3>3. Listed(w, put[k], entries, b, k)
      BY <1>1, <3>1, <3>2, ListedStep
    <3> QED BY <1>0, <3>3
  <2>3. G = 0..N
    <3>1. G \in SUBSET (0..N)
      OBVIOUS
    <3> HIDE DEF G
    <3> QED BY <1>0, <2>1, <2>2, <3>1, Upto
  <2> QED BY <1>0, <2>3
<1> DEFINE v == put[N]
           u == PutList(w, entries)
<1>4. u = Patch(v, w.pos, N)
  BY <1>2
<1> HIDE DEF v, u
<1>5. Extends(w, v) /\ w.pos + 2 <= v.pos /\ v.pos <= w.pos + b[N]
  BY <1>3 DEF Listed, v
<1>6. /\ Extends(w, u) /\ u.pos = v.pos
      /\ \A o, k \in Nat : o >= w.pos + 2 /\ o + k <= w.cap => Same(v.mem, u.mem, o, k)
      /\ v.pos <= w.cap /\ N < U16Span => u.mem[w.pos + 1] * Radix + u.mem[w.pos + 2] = N
  <2> HIDE DEF N
  <2> QED BY <1>0, <1>4, <1>5, PatchAtHead
<1>7. ASSUME Framable(entries)
      PROVE  u.pos = w.pos + b[N] /\ (u.pos <= w.cap => ListAt(u.mem, w.pos, entries))
  <2>1. N < U16Span /\ \A i \in 1..N : RecordBytes(entries[i]) < U16Span
    BY <1>7, EntryType DEF Framable
  <2>2. v.pos = w.pos + b[N] /\ (v.pos <= w.cap => \A i \in 1..N : EntryAt(v.mem, w.pos + b[i - 1], entries[i]))
    BY <1>3, <2>1 DEF Listed, v
  <2>3. ASSUME v.pos <= w.cap PROVE ListAt(u.mem, w.pos, entries)
    <3>1. u.mem[w.pos + 1] * Radix + u.mem[w.pos + 2] = N
      BY <1>6, <2>1, <2>3
    <3>2. ASSUME NEW i \in 1..N PROVE EntryAt(u.mem, w.pos + b[i - 1], entries[i])
      <4> DEFINE p == w.pos
                 x == b[i - 1]
                 y == b[i]
                 z == b[N]
                 c == w.cap
                 l == RecordBytes(entries[i])
      <4>1. i - 1 \in 0..N /\ i \in 0..N /\ i \in 0..N /\ N \in 0..N /\ 0 \in 0..(i - 1)
        BY <1>0
      <4>2. y = x + 2 + l
        BY <1>1 DEF EntryEnds
      <4>3. y <= z /\ 2 + 2 * (i - 1) <= x
        BY <1>1, <4>1, EntryEndsOrder
      <4>4. p \in Nat /\ x \in Nat /\ y \in Nat /\ z \in Nat /\ c \in Nat /\ l \in Nat /\ p + z <= c
        BY <1>0, <2>2, <2>3, <4>1, WriterType
      <4>5. entries[i] \in Seq(Field) /\ EntryAt(v.mem, p + x, entries[i])
        BY <1>0, <2>2, <2>3
      <4> HIDE DEF p, x, y, z, c, l
      <4>6. p + x \in Nat /\ 2 + l \in Nat /\ p + x >= p + 2 /\ (p + x) + (2 + l) <= c
        <5>1. 0 <= i - 1 /\ i - 1 \in Int
          BY <4>1
        <5> QED BY <4>2, <4>3, <4>4, <5>1
      <4>7. Same(v.mem, u.mem, p + x, 2 + l)
        BY <1>6, <4>6 DEF p, c
      <4>8. EntryAt(u.mem, p + x, entries[i])
        BY <4>5, <4>6, <4>7, EntryStays DEF l
      <4> QED BY <4>8 DEF p, x
    <3> QED BY <1>1, <3>1, <3>2 DEF ListAt
  <2> QED BY <1>6, <2>2, <2>3
<1>8. u.pos <= w.pos + ListBytes(entries) /\ w.pos + 2 <= u.pos
  BY <1>1, <1>5, <1>6
<1>9. Framable(entries) =>
              /\ u.pos = w.pos + ListBytes(entries)
              /\ u.pos <= w.cap => ListAt(u.mem, w.pos, entries)
  BY <1>1, <1>7
<1> QED BY <1>6, <1>8, <1>9 DEF u

(* Where a walk goes on, and with what.                                    *)
On(walk, off)          == [walk EXCEPT !.off = off]
OnWith(walk, off, out) == [walk EXCEPT !.off = off, !.out = out]

(* The parts of a walk.                                                    *)
LEMMA WalkIs ==
  ASSUME NEW off, NEW out
  PROVE  Walk(off, out).off = off /\ Walk(off, out).out = out /\ Walk(off, out).threw = FALSE
BY DEF Walk

(* A walk that goes on is a walk.                                          *)
LEMMA WalkOn ==
  ASSUME NEW off, NEW out, NEW x
  PROVE  On(Walk(off, out), x) = Walk(x, out)
<1> DEFINE w == Walk(off, out)
           v == [w EXCEPT !.off = x]
<1>1. w \in [off : {off}, out : {out}, threw : {FALSE}]
  BY DEF Walk
<1> HIDE DEF w
<1>2. v \in [off : {x}, out : {out}, threw : {FALSE}]
  BY <1>1
<1>3. v.off = x /\ v.out = out /\ v.threw = FALSE /\ v = [off |-> v.off, out |-> v.out, threw |-> v.threw]
  <2> HIDE DEF v
  <2> QED BY <1>2
<1> QED BY <1>3 DEF Walk, On, w

(* So is one that goes on with more.                                       *)
LEMMA WalkOnWith ==
  ASSUME NEW off, NEW out, NEW x, NEW y
  PROVE  OnWith(Walk(off, out), x, y) = Walk(x, y)
<1> DEFINE w == Walk(off, out)
           v == [w EXCEPT !.off = x, !.out = y]
<1>1. w \in [off : {off}, out : {out}, threw : {FALSE}]
  BY DEF Walk
<1> HIDE DEF w
<1>2. v \in [off : {x}, out : {y}, threw : {FALSE}]
  BY <1>1
<1>3. v.off = x /\ v.out = y /\ v.threw = FALSE /\ v = [off |-> v.off, out |-> v.out, threw |-> v.threw]
  <2> HIDE DEF v
  <2> QED BY <1>2
<1> QED BY <1>3 DEF Walk, OnWith, w

(* Where the parts of a field are, counted from 1.                         *)
LEMMA Places ==
  ASSUME NEW o \in Nat, NEW n \in Nat, NEW t \in Nat, NEW e \in Nat, e = o + 4 + n, e <= t
  PROVE  /\ o + 1 + 1 = o + 2 /\ o + 1 + 2 = o + 3 /\ o + 3 + 1 = o + 4 /\ o + 1 + 4 = o + 5
         /\ o + 5 + n = e + 1 /\ o + 5 + n - 1 = e
         /\ o + 1 + 4 - 1 <= t /\ o + 5 + n - 1 <= t
OBVIOUS

(* A value that stands in the data is what the walker copies.              *)
LEMMA CopyIs ==
  ASSUME NEW data \in Seq(Byte), NEW from \in Nat, NEW to \in Nat, NEW val \in Seq(Byte),
         to = from + Len(val), to <= Len(data),
         \A k \in 1..Len(val) : data[from + k] = val[k]
  PROVE  SubSeq(data, from + 1, to) = val
<1> DEFINE n == Len(val)
           m == from + 1
           s == SubSeq(data, m, to)
<1>1. n \in Nat /\ Len(data) \in Nat /\ m \in Nat /\ to - m + 1 = n
  BY LenProperties
<1>2. val = [i \in 1..n |-> val[i]]
  BY LenProperties
<1>3. \A i \in m..to : data[i] \in Byte
  <2>1. \A i \in m..to : i \in 1..Len(data)
    BY <1>1
  <2> QED BY <2>1, ElementOfSeq
<1>4. /\ s \in Seq(Byte) /\ Len(s) = IF m <= to THEN to - m + 1 ELSE 0
      /\ \A i \in 1..to-m+1 : s[i] = data[m + i - 1]
  <2> HIDE DEF m
  <2> QED BY <1>1, <1>3, SubSeqProperties
<1> HIDE DEF s, n
<1>5. Len(s) = n
  BY <1>1, <1>4
<1>6. \A i \in 1..n : s[i] = val[i]
  <2>1. ASSUME NEW i \in 1..n PROVE s[i] = val[i]
    <3>1. s[i] = data[m + i - 1]
      BY <1>1, <1>4
    <3>2. m + i - 1 = from + i
      BY <1>1
    <3>3. data[from + i] = val[i]
      BY DEF n
    <3> QED BY <3>1, <3>2, <3>3
  <2> QED BY <2>1
<1>7. s = [i \in 1..n |-> s[i]]
  BY <1>4, <1>5, LenProperties
<1> QED BY <1>2, <1>6, <1>7 DEF s

(* The walker takes the field that stands where it is and goes on behind   *)
(* it.                                                                     *)
LEMMA ParseFieldIs ==
  ASSUME NEW data \in Seq(Byte), NEW o \in Nat, NEW e \in Nat, NEW f \in Field, FieldAt(data, o, f),
         e = o + 4 + Len(f.val), e <= Len(data), NEW rec
  PROVE  ParseField(data, Walk(o + 1, rec))
           = Walk(e + 1, IF f.id \in Keys THEN SetKey(rec, f.id, Value(f.type, f.val)) ELSE rec)
<1> DEFINE n    == Len(f.val)
           t    == Len(data)
           walk == Walk(o + 1, rec)
           got  == ParseField(data, walk)
           set  == SetKey(rec, f.id, Value(f.type, f.val))
<1> HIDE DEF walk, got, set
<1>1. f.id \in Byte /\ f.type \in Byte /\ f.val \in Seq(Byte) /\ n \in Nat /\ t \in Nat /\ e <= t /\ e = o + 4 + n
  BY LenProperties DEF Field
<1>2. walk.off = o + 1 /\ walk.out = rec /\ walk.threw = FALSE
  BY WalkIs DEF walk
<1>3. On(walk, e + 1) = Walk(e + 1, rec) /\ OnWith(walk, e + 1, set) = Walk(e + 1, set)
  <2>1. On(walk, e + 1) = Walk(e + 1, rec)
    BY WalkOn, Zenon DEF walk
  <2>2. OnWith(walk, e + 1, set) = Walk(e + 1, set)
    <3> DEFINE x == e + 1
               y == o + 1
    <3> HIDE DEF x, y
    <3>1. OnWith(Walk(y, rec), x, set) = Walk(x, set)
      BY WalkOnWith
    <3> QED BY <3>1 DEF x, y, walk
  <2> QED BY <2>1, <2>2
<1>4. data[o + 1] = f.id /\ data[o + 2] = f.type /\ data[o + 3] * Radix + data[o + 4] = n
  BY DEF FieldAt
<1>5. SubSeq(data, o + 5, e) = f.val
  <2>1. o + 4 \in Nat /\ \A k \in 1..n : data[(o + 4) + k] = f.val[k]
    BY DEF FieldAt
  <2>2. SubSeq(data, (o + 4) + 1, e) = f.val
    BY <1>1, <2>1, CopyIs
  <2>3. (o + 4) + 1 = o + 5
    OBVIOUS
  <2> QED BY <2>2, <2>3
<1> HIDE DEF n, t
<1>6. /\ o + 1 + 1 = o + 2 /\ o + 1 + 2 = o + 3 /\ o + 3 + 1 = o + 4 /\ o + 1 + 4 = o + 5
      /\ o + 5 + n = e + 1 /\ o + 5 + n - 1 = e
      /\ o + 1 + 4 - 1 <= t /\ o + 5 + n - 1 <= t
  BY <1>1, Places
<1>7. U16At(data, walk.off + 2) = n /\ HasBytes(data, walk.off, 4) /\ HasBytes(data, o + 5, n)
      /\ data[walk.off] = f.id /\ data[walk.off + 1] = f.type /\ walk.off + 4 = o + 5
  <2>1. U16At(data, o + 3) = n
    BY <1>4, <1>6 DEF U16At
  <2>2. HasBytes(data, o + 1, 4) /\ HasBytes(data, o + 5, n)
    BY <1>6 DEF HasBytes, t
  <2> QED BY <1>2, <1>4, <1>6, <2>1, <2>2
<1>8. CASE f.id \notin Keys
  <2>1. got = On(walk, o + 5 + n)
    BY <1>2, <1>7, <1>8 DEF ParseField, got, On
  <2> QED BY <1>3, <1>6, <1>8, <2>1 DEF got, walk
<1>9. CASE f.id \in Keys
  <2> DEFINE s == SubSeq(data, o + 5, o + 5 + n - 1)
  <2>1. s = f.val
    BY <1>5, <1>6
  <2>2. got = OnWith(walk, o + 5 + n, SetKey(walk.out, f.id, Value(f.type, s)))
    BY <1>2, <1>7, <1>9 DEF ParseField, got, OnWith
  <2> HIDE DEF s
  <2>3. got = OnWith(walk, e + 1, set)
    BY <1>2, <1>6, <2>1, <2>2 DEF set
  <2> QED BY <1>3, <1>9, <2>3 DEF got, walk, set
<1> QED BY <1>8, <1>9

(* What a record means, field by field.                                    *)
LEMMA AsArrayIs ==
  ASSUME NEW fields \in Record
  PROVE  /\ AsArray(fields) = [id \in {fields[i].id : i \in 1..Len(fields)} \cap Keys |-> AsArray(fields)[id]]
         /\ \A i \in 1..Len(fields) : fields[i].id \in Keys
              => AsArray(fields)[fields[i].id] = Value(fields[i].type, fields[i].val)
<1>1. fields \in Seq(Field) /\ DOMAIN fields = 1..Len(fields)
      /\ \A i, j \in DOMAIN fields : fields[i].id = fields[j].id => i = j
  BY FieldType DEF Record
<1>2. AsArray(fields) = [id \in {fields[i].id : i \in 1..Len(fields)} \cap Keys |-> AsArray(fields)[id]]
  BY <1>1 DEF AsArray
<1>3. ASSUME NEW i \in 1..Len(fields), fields[i].id \in Keys
      PROVE  AsArray(fields)[fields[i].id] = Value(fields[i].type, fields[i].val)
  <2> DEFINE id == fields[i].id
             c  == CHOOSE j \in DOMAIN fields : fields[j].id = id
  <2>1. c \in DOMAIN fields /\ fields[c].id = id
    BY <1>1
  <2>2. c = i
    <3> HIDE DEF c
    <3> QED BY <1>1, <2>1
  <2>3. id \in {fields[j].id : j \in DOMAIN fields} \cap Keys
    BY <1>1, <1>3
  <2>4. AsArray(fields)[id] = Value(fields[c].type, fields[c].val)
    BY <2>3 DEF AsArray
  <2> QED BY <2>2, <2>4
<1> QED BY <1>2, <1>3

(* What the script has after n fields.                                     *)
Known(fields, n) == [id \in {fields[i].id : i \in 1..n} \cap Keys |-> AsArray(fields)[id]]

(* It starts with nothing, grows field by field, and ends with the record. *)
LEMMA KnownStep ==
  ASSUME NEW fields \in Record
  PROVE  /\ Known(fields, 0) = <<>> /\ Known(fields, Len(fields)) = AsArray(fields)
         /\ \A n \in 1..Len(fields) :
              Known(fields, n) = IF fields[n].id \in Keys
                                 THEN SetKey(Known(fields, n - 1), fields[n].id, Value(fields[n].type, fields[n].val))
                                 ELSE Known(fields, n - 1)
<1>0. Len(fields) \in Nat
  BY FieldType DEF Record
<1>1. Known(fields, 0) = <<>>
  <2>1. {fields[i].id : i \in 1..0} \cap Keys = {}
    OBVIOUS
  <2>2. Known(fields, 0) = [id \in {} |-> AsArray(fields)[id]]
    BY <2>1 DEF Known
  <2> QED BY <2>2
<1>2. Known(fields, Len(fields)) = AsArray(fields)
  BY AsArrayIs DEF Known
<1>3. ASSUME NEW n \in 1..Len(fields)
      PROVE  Known(fields, n) = IF fields[n].id \in Keys
                                 THEN SetKey(Known(fields, n - 1), fields[n].id, Value(fields[n].type, fields[n].val))
                                 ELSE Known(fields, n - 1)
  <2> DEFINE id == fields[n].id
             A  == {fields[i].id : i \in 1..(n - 1)} \cap Keys
             B  == {fields[i].id : i \in 1..n} \cap Keys
  <2>1. \A i \in 1..n : i = n \/ i \in 1..(n - 1)
    OBVIOUS
  <2>2. \A i \in 1..(n - 1) : i \in 1..n
    OBVIOUS
  <2>3. B = (A \cup {id}) \cap Keys
    <3>1. n \in 1..n
      OBVIOUS
    <3> QED BY <2>1, <2>2, <3>1
  <2>4. A \subseteq Keys
    OBVIOUS
  <2> HIDE DEF A, B, id
  <2>5. Known(fields, n) = [k \in B |-> AsArray(fields)[k]] /\ Known(fields, n - 1) = [k \in A |-> AsArray(fields)[k]]
    BY DEF Known, A, B
  <2>6. CASE id \notin Keys
    <3>1. A = B
      BY <2>3, <2>4, <2>6
    <3> QED BY <2>5, <2>6, <3>1 DEF id
  <2>7. CASE id \in Keys
    <3>1. B = A \cup {id}
      BY <2>3, <2>4, <2>7
    <3>2. AsArray(fields)[id] = Value(fields[n].type, fields[n].val)
      BY <2>7, AsArrayIs DEF id
    <3> DEFINE r == Known(fields, n - 1)
               v == Value(fields[n].type, fields[n].val)
    <3>3. DOMAIN r = A /\ \A k \in A : r[k] = AsArray(fields)[k]
      BY <2>5
    <3> HIDE DEF r, v
    <3>4. SetKey(r, id, v) = [k \in B |-> IF k = id THEN v ELSE r[k]]
      BY <3>1, <3>3 DEF SetKey
    <3>5. \A k \in B : (IF k = id THEN v ELSE r[k]) = AsArray(fields)[k]
      BY <3>1, <3>2, <3>3 DEF v
    <3>6. SetKey(r, id, v) = [k \in B |-> AsArray(fields)[k]]
      BY <3>4, <3>5
    <3> QED BY <2>5, <2>7, <3>6 DEF r, v, id
  <2> QED BY <2>6, <2>7
<1> QED BY <1>1, <1>2, <1>3

(* A field of a record ends before the data does.                          *)
LEMMA RecordPlaces ==
  ASSUME NEW o \in Nat, NEW x \in Nat, NEW y \in Nat, NEW z \in Nat, NEW l \in Nat, NEW t \in Nat,
         y = x + 4 + l, y <= z, o + z <= t
  PROVE  o + x \in Nat /\ o + y \in Nat /\ o + y = (o + x) + 4 + l /\ o + y <= t
OBVIOUS

(* One field of a record further.                                          *)
LEMMA ParseFieldStep ==
  ASSUME NEW data \in Seq(Byte), NEW o \in Nat, NEW fields \in Record,
         NEW b \in [0..Len(fields) -> Nat], FieldEnds(b, fields), o + b[Len(fields)] <= Len(data),
         NEW n \in 1..Len(fields), FieldAt(data, o + b[n - 1], fields[n])
  PROVE  ParseField(data, Walk(o + b[n - 1] + 1, Known(fields, n - 1))) = Walk(o + b[n] + 1, Known(fields, n))
<1> DEFINE f == fields[n]
           x == b[n - 1]
           y == b[n]
           z == b[Len(fields)]
           l == Len(f.val)
           t == Len(data)
<1>1. fields \in Seq(Field) /\ f \in Field /\ l \in Nat /\ n - 1 \in 0..Len(fields) /\ n \in 0..Len(fields)
      /\ Len(fields) \in 0..Len(fields) /\ t \in Nat
  <2>1. fields \in Seq(Field) /\ t \in Nat
    BY LenProperties DEF Record
  <2> QED BY <2>1, FieldType
<1>2. x \in Nat /\ y \in Nat /\ z \in Nat
  BY <1>1
<1>3. y = x + 4 + l
  BY DEF FieldEnds
<1>4. y <= z
  BY <1>1, FieldEndsOrder
<1>5. o + z <= t /\ FieldAt(data, o + x, f)
  OBVIOUS
<1>6. Known(fields, n) = IF f.id \in Keys THEN SetKey(Known(fields, n - 1), f.id, Value(f.type, f.val))
                                          ELSE Known(fields, n - 1)
  BY KnownStep
<1> DEFINE rec == Known(fields, n - 1)
<1> HIDE DEF f, x, y, z, l, t, rec
<1>7. o + x \in Nat /\ o + y \in Nat /\ o + y = (o + x) + 4 + l /\ o + y <= t
  BY <1>1, <1>2, <1>3, <1>4, <1>5, RecordPlaces
<1> DEFINE at  == o + x
           end == o + y
<1>8. FieldAt(data, at, f) /\ at \in Nat /\ end \in Nat /\ end = at + 4 + Len(f.val) /\ end <= Len(data)
  BY <1>5, <1>7 DEF l, t
<1> HIDE DEF at, end
<1>9. ParseField(data, Walk(at + 1, rec))
        = Walk(end + 1, IF f.id \in Keys THEN SetKey(rec, f.id, Value(f.type, f.val)) ELSE rec)
  BY <1>1, <1>8, ParseFieldIs
<1> QED BY <1>6, <1>9 DEF f, x, y, rec, at, end

(* The walk over a record that stands in the data gives its known fields   *)
(* and ends behind it.                                                     *)
LEMMA ParseRecordIs ==
  ASSUME NEW data \in Seq(Byte), NEW o \in Nat, NEW fields \in Record,
         RecordAt(data, o, fields), o + RecordBytes(fields) <= Len(data)
  PROVE  ParseRecord(data, o + 1) = Walk(o + RecordBytes(fields) + 1, AsArray(fields))
<1> DEFINE N    == Len(fields)
           C    == U16At(data, o + 1)
           D(q) == [i \in 0..C |-> IF i = 0 THEN Walk((o + 1) + 2, <<>>) ELSE ParseField(data, q[i - 1])]
           walk == CHOOSE q : q = D(q)
<1>0. fields \in Seq(Field) /\ N \in Nat /\ Len(data) \in Nat /\ N \in 0..N /\ 0 \in 0..N
  BY LenProperties DEF Record
<1>1. PICK b \in [0..N -> Nat] : /\ FieldEnds(b, fields) /\ RecordBytes(fields) = b[N]
                                 /\ \A i \in 1..N : FieldAt(data, o + b[i - 1], fields[i])
  BY DEF RecordAt
<1> DEFINE g == [i \in 0..N |-> Walk(o + b[i] + 1, Known(fields, i))]
<1>2. 2 <= b[N] /\ b[N] \in Nat
  BY <1>0, <1>1, BytesBound
<1>3. ~ ~HasBytes(data, o + 1, 2)
  <2> DEFINE z == b[N]
             t == Len(data)
  <2>1. o + z <= t /\ t \in Nat /\ z \in Nat /\ 2 <= z
    BY <1>0, <1>1, <1>2
  <2> HIDE DEF z, t
  <2>2. o + 1 + 2 - 1 <= t
    BY <2>1
  <2> QED BY <2>2 DEF HasBytes, t
<1>4. C = N
  <2>1. o + 1 + 1 = o + 2
    OBVIOUS
  <2> QED BY <2>1 DEF RecordAt, U16At
<1>5. ParseRecord(data, o + 1) = walk[C]
  BY <1>3 DEF ParseRecord
<1> HIDE DEF C
<1>6. \A i \in 1..N : ParseField(data, g[i - 1]) = g[i]
  <2>1. ASSUME NEW i \in 1..N PROVE ParseField(data, g[i - 1]) = g[i]
    <3>1. o + b[N] <= Len(data) /\ FieldAt(data, o + b[i - 1], fields[i])
      BY <1>1
    <3>2. ParseField(data, Walk(o + b[i - 1] + 1, Known(fields, i - 1))) = Walk(o + b[i] + 1, Known(fields, i))
      BY <1>1, <3>1, ParseFieldStep
    <3>3. i - 1 \in 0..N /\ i \in 0..N
      BY <1>0
    <3> QED BY <3>2, <3>3
  <2> QED BY <2>1
<1>7. g[0] = Walk((o + 1) + 2, <<>>)
  <2>1. b[0] = 2 /\ Known(fields, 0) = <<>> /\ o + 2 + 1 = (o + 1) + 2
    BY <1>1, KnownStep DEF FieldEnds
  <2> QED BY <1>0, <2>1
<1>8. g = D(g)
  <2>1. \A i \in 0..N : g[i] = IF i = 0 THEN Walk((o + 1) + 2, <<>>) ELSE ParseField(data, g[i - 1])
    <3> HIDE DEF g
    <3> QED BY <1>0, <1>6, <1>7
  <2>2. g = [i \in 0..N |-> g[i]]
    OBVIOUS
  <2> HIDE DEF g
  <2>3. g = [i \in 0..N |-> IF i = 0 THEN Walk((o + 1) + 2, <<>>) ELSE ParseField(data, g[i - 1])]
    BY <2>1, <2>2
  <2> QED BY <1>4, <2>3
<1>9. walk = D(walk)
  <2> HIDE DEF D
  <2> QED BY <1>8
<1> HIDE DEF walk
<1>10. \A i \in 0..N : walk[i] = IF i = 0 THEN Walk((o + 1) + 2, <<>>) ELSE ParseField(data, walk[i - 1])
  BY <1>4, <1>9
<1>11. walk[N] = g[N]
  <2> DEFINE G == {n \in 0..N : walk[n] = g[n]}
  <2> HIDE DEF g
  <2>1. 0 \in G
    BY <1>0, <1>7, <1>10
  <2>2. ASSUME NEW k \in 1..N, k - 1 \in G PROVE k \in G
    <3>1. k \in 0..N /\ k # 0 /\ walk[k - 1] = g[k - 1]
      BY <1>0, <2>2
    <3> QED BY <1>6, <1>10, <3>1
  <2>3. G = 0..N
    <3>1. G \in SUBSET (0..N)
      OBVIOUS
    <3> HIDE DEF G
    <3> QED BY <1>0, <2>1, <2>2, <3>1, Upto
  <2> QED BY <1>0, <2>3
<1>12. g[N] = Walk(o + b[N] + 1, Known(fields, N))
  BY <1>0
<1> QED BY <1>1, <1>4, <1>5, <1>11, <1>12, KnownStep

-----------------------------------------------------------------------------
(* What the script has after n entries.                                    *)
Heads(entries, n) == [i \in 1..n |-> AsArray(entries[i])]

(* It starts with nothing, grows entry by entry, and ends with the list.   *)
LEMMA HeadsStep ==
  ASSUME NEW entries \in Seq(Record)
  PROVE  /\ Heads(entries, 0) = <<>> /\ Heads(entries, Len(entries)) = AsList(entries)
         /\ \A n \in 1..Len(entries) : Append(Heads(entries, n - 1), AsArray(entries[n])) = Heads(entries, n)
<1>1. Len(entries) \in Nat /\ DOMAIN entries = 1..Len(entries)
  BY LenProperties
<1>2. Heads(entries, 0) = <<>>
  BY DEF Heads
<1>3. Heads(entries, Len(entries)) = AsList(entries)
  BY <1>1 DEF Heads, AsList
<1>4. ASSUME NEW n \in 1..Len(entries)
      PROVE  Append(Heads(entries, n - 1), AsArray(entries[n])) = Heads(entries, n)
  <2> DEFINE S == {AsArray(entries[i]) : i \in 1..n}
             h == Heads(entries, n - 1)
             e == AsArray(entries[n])
             a == Append(h, e)
  <2>1. n - 1 \in Nat /\ \A i \in 1..(n - 1) : i \in 1..n
    BY <1>1
  <2>2. h \in Seq(S) /\ Len(h) = n - 1 /\ e \in S /\ \A i \in 1..(n - 1) : h[i] = AsArray(entries[i])
    <3> DEFINE m == n - 1
    <3>1. m \in Nat /\ \A i \in 1..m : AsArray(entries[i]) \in S
      BY <2>1
    <3>2. e \in S
      BY <1>1
    <3>3. h = [i \in 1..m |-> AsArray(entries[i])]
      BY DEF Heads
    <3>4. h \in Seq(S) /\ Len(h) = m
      <4> HIDE DEF S, m, h
      <4>1. h \in [1..m -> S]
        BY <3>1, <3>3
      <4> QED BY <3>1, <4>1
    <3> HIDE DEF h, S
    <3> QED BY <3>2, <3>3, <3>4
  <2> HIDE DEF S, h, e
  <2>3. a \in Seq(S) /\ Len(a) = n /\ \A i \in 1..n : a[i] = IF i = n THEN e ELSE h[i]
    BY <2>1, <2>2, AppendProperties
  <2> HIDE DEF a
  <2>4. a = [i \in 1..n |-> a[i]]
    BY <2>3, LenProperties
  <2>5. \A i \in 1..n : a[i] = AsArray(entries[i])
    <3>1. ASSUME NEW i \in 1..n PROVE a[i] = AsArray(entries[i])
      <4>1. CASE i = n
        BY <2>3, <4>1 DEF e
      <4>2. CASE i # n
        <5>1. i \in 1..(n - 1)
          BY <1>1, <4>2
        <5> QED BY <2>2, <2>3, <4>2, <5>1
      <4> QED BY <4>1, <4>2
    <3> QED BY <3>1
  <2>6. a = [i \in 1..n |-> AsArray(entries[i])]
    BY <2>4, <2>5
  <2> QED BY <2>6 DEF Heads, a, h, e
<1> QED BY <1>2, <1>3, <1>4

(* Where the record of an entry is, counted from 1.                        *)
LEMMA EntryPlaces ==
  ASSUME NEW o \in Nat, NEW r \in Nat, NEW t \in Nat, NEW e \in Nat, e = o + 2 + r, e <= t
  PROVE  /\ (o + 2) + r = e /\ (o + 2) + r <= t /\ (o + 1) + 2 = (o + 2) + 1 /\ (o + 1) + 1 = o + 2
         /\ (o + 1) + 2 + r = e + 1 /\ (o + 1) + 2 - 1 <= t /\ o + 2 \in Nat
OBVIOUS

(* The walker takes the entry that stands where it is and goes on behind   *)
(* it.                                                                     *)
LEMMA ParseEntryIs ==
  ASSUME NEW data \in Seq(Byte), NEW o \in Nat, NEW e \in Nat, NEW fields \in Record, EntryAt(data, o, fields),
         e = o + 2 + RecordBytes(fields), e <= Len(data), NEW out
  PROVE  ParseEntry(data, Walk(o + 1, out)) = Walk(e + 1, Append(out, AsArray(fields)))
<1> DEFINE r    == RecordBytes(fields)
           t    == Len(data)
           at   == o + 2
           walk == Walk(o + 1, out)
           rec  == ParseRecord(data, at + 1)
           got  == ParseEntry(data, walk)
           more == Append(out, AsArray(fields))
<1>1. r \in Nat /\ t \in Nat /\ e = o + 2 + r /\ e <= t
  <2>1. fields \in Seq(Field)
    BY DEF Record
  <2> QED BY <2>1, RecordBytesType, LenProperties
<1> HIDE DEF walk, rec, got, more
<1>2. RecordAt(data, at, fields) /\ data[o + 1] * Radix + data[o + 2] = r
  BY DEF EntryAt
<1> HIDE DEF r, t
<1>3. /\ at + r = e /\ at + r <= t /\ (o + 1) + 2 = at + 1 /\ (o + 1) + 1 = o + 2
      /\ (o + 1) + 2 + r = e + 1 /\ (o + 1) + 2 - 1 <= t /\ at \in Nat
  BY <1>1, EntryPlaces
<1> HIDE DEF at
<1>4. rec.out = AsArray(fields) /\ rec.threw = FALSE
  <2>1. at + RecordBytes(fields) <= Len(data)
    BY <1>3 DEF r, t
  <2>2. rec = Walk(at + RecordBytes(fields) + 1, AsArray(fields))
    BY <1>2, <1>3, <2>1, ParseRecordIs DEF rec
  <2> QED BY <2>2, WalkIs
<1>5. walk.off = o + 1 /\ walk.out = out /\ walk.threw = FALSE
  BY WalkIs DEF walk
<1>6. U16At(data, walk.off) = r /\ HasBytes(data, walk.off, 2) /\ rec = ParseRecord(data, walk.off + 2)
  <2>1. U16At(data, o + 1) = r
    BY <1>2, <1>3 DEF U16At
  <2>2. HasBytes(data, o + 1, 2)
    BY <1>3 DEF HasBytes, t
  <2> QED BY <1>3, <1>5, <2>1, <2>2 DEF rec
<1>7. got = OnWith(walk, walk.off + 2 + r, Append(walk.out, rec.out))
  BY <1>4, <1>5, <1>6 DEF ParseEntry, got, OnWith
<1>8. got = OnWith(walk, e + 1, more)
  BY <1>3, <1>4, <1>5, <1>7 DEF more
<1>9. OnWith(walk, e + 1, more) = Walk(e + 1, more)
  <2> DEFINE x == e + 1
             y == o + 1
  <2> HIDE DEF x, y
  <2>1. OnWith(Walk(y, out), x, more) = Walk(x, more)
    BY WalkOnWith
  <2> QED BY <2>1 DEF x, y, walk
<1> QED BY <1>8, <1>9 DEF got, walk, more

(* An entry of a list ends before the data does.                           *)
LEMMA ListPlaces ==
  ASSUME NEW x \in Nat, NEW y \in Nat, NEW z \in Nat, NEW r \in Nat, NEW t \in Nat,
         y = x + 2 + r, y <= z, z <= t
  PROVE  0 + x = x /\ y = x + 2 + r /\ y <= t
OBVIOUS

(* One entry of a list further.                                            *)
LEMMA ParseEntryStep ==
  ASSUME NEW data \in Seq(Byte), NEW entries \in Seq(Record),
         NEW b \in [0..Len(entries) -> Nat], EntryEnds(b, entries), b[Len(entries)] <= Len(data),
         NEW n \in 1..Len(entries), EntryAt(data, 0 + b[n - 1], entries[n])
  PROVE  ParseEntry(data, Walk(b[n - 1] + 1, Heads(entries, n - 1))) = Walk(b[n] + 1, Heads(entries, n))
<1> DEFINE fields == entries[n]
           x == b[n - 1]
           y == b[n]
           z == b[Len(entries)]
           r == RecordBytes(fields)
           t == Len(data)
<1>1. fields \in Record /\ r \in Nat /\ n - 1 \in 0..Len(entries) /\ n \in 0..Len(entries)
      /\ Len(entries) \in 0..Len(entries) /\ t \in Nat
  <2>1. t \in Nat /\ Len(entries) \in Nat /\ fields \in Record
    BY LenProperties, ElementOfSeq
  <2> QED BY <2>1, EntryType
<1>2. x \in Nat /\ y \in Nat /\ z \in Nat
  BY <1>1
<1>3. y = x + 2 + r
  BY DEF EntryEnds
<1>4. y <= z
  BY <1>1, EntryEndsOrder
<1>5. z <= t /\ EntryAt(data, 0 + x, fields)
  OBVIOUS
<1>6. Append(Heads(entries, n - 1), AsArray(fields)) = Heads(entries, n)
  BY HeadsStep
<1> DEFINE out == Heads(entries, n - 1)
<1> HIDE DEF fields, x, y, z, r, t, out
<1>7. 0 + x = x /\ y = x + 2 + r /\ y <= t
  BY <1>1, <1>2, <1>3, <1>4, <1>5, ListPlaces
<1>8. EntryAt(data, x, fields) /\ y = x + 2 + RecordBytes(fields) /\ y <= Len(data)
  BY <1>5, <1>7 DEF r, t
<1>9. ParseEntry(data, Walk(x + 1, out)) = Walk(y + 1, Append(out, AsArray(fields)))
  BY <1>1, <1>2, <1>8, ParseEntryIs
<1> QED BY <1>6, <1>9 DEF fields, x, y, out

(* The walk over a list that stands in the data gives its entries.         *)
LEMMA ParseListIs ==
  ASSUME NEW data \in Seq(Byte), NEW entries \in Seq(Record),
         ListAt(data, 0, entries), ListBytes(entries) <= Len(data)
  PROVE  ParseList(data) = Walk(ListBytes(entries) + 1, AsList(entries))
<1> DEFINE N    == Len(entries)
           C    == U16At(data, 1)
           D(q) == [i \in 0..C |-> IF i = 0 THEN Walk(3, <<>>) ELSE ParseEntry(data, q[i - 1])]
           walk == CHOOSE q : q = D(q)
<1>0. N \in Nat /\ Len(data) \in Nat /\ N \in 0..N /\ 0 \in 0..N
  BY LenProperties
<1>1. PICK b \in [0..N -> Nat] : /\ EntryEnds(b, entries) /\ ListBytes(entries) = b[N]
                                 /\ \A i \in 1..N : EntryAt(data, 0 + b[i - 1], entries[i])
  BY DEF ListAt
<1> DEFINE g == [i \in 0..N |-> Walk(b[i] + 1, Heads(entries, i))]
<1>2. 2 <= b[N] /\ b[N] \in Nat
  <2>1. 2 + 2 * N <= b[N] /\ b[N] \in Nat
    BY <1>0, <1>1, EntryEndsOrder
  <2> QED BY <1>0, <2>1
<1>3. ~ ~HasBytes(data, 1, 2)
  <2> DEFINE z == b[N]
             t == Len(data)
  <2>1. z <= t /\ t \in Nat /\ z \in Nat /\ 2 <= z
    BY <1>0, <1>1, <1>2
  <2> HIDE DEF z, t
  <2>2. 1 + 2 - 1 <= t
    BY <2>1
  <2> QED BY <2>2 DEF HasBytes, t
<1>4. C = N
  <2>1. 0 + 1 = 1 /\ 0 + 2 = 2 /\ 1 + 1 = 2
    OBVIOUS
  <2> QED BY <2>1 DEF ListAt, U16At
<1>5. ParseList(data) = walk[C]
  BY <1>3 DEF ParseList
<1> HIDE DEF C
<1>6. \A i \in 1..N : ParseEntry(data, g[i - 1]) = g[i]
  <2>1. ASSUME NEW i \in 1..N PROVE ParseEntry(data, g[i - 1]) = g[i]
    <3>1. b[N] <= Len(data) /\ EntryAt(data, 0 + b[i - 1], entries[i])
      BY <1>1
    <3>2. ParseEntry(data, Walk(b[i - 1] + 1, Heads(entries, i - 1))) = Walk(b[i] + 1, Heads(entries, i))
      BY <1>1, <3>1, ParseEntryStep
    <3>3. i - 1 \in 0..N /\ i \in 0..N
      BY <1>0
    <3> QED BY <3>2, <3>3
  <2> QED BY <2>1
<1>7. g[0] = Walk(3, <<>>)
  <2>1. b[0] = 2 /\ Heads(entries, 0) = <<>> /\ 2 + 1 = 3
    BY <1>1, HeadsStep DEF EntryEnds
  <2> QED BY <1>0, <2>1
<1>8. g = D(g)
  <2>1. \A i \in 0..N : g[i] = IF i = 0 THEN Walk(3, <<>>) ELSE ParseEntry(data, g[i - 1])
    <3> HIDE DEF g
    <3> QED BY <1>0, <1>6, <1>7
  <2>2. g = [i \in 0..N |-> g[i]]
    OBVIOUS
  <2> HIDE DEF g
  <2>3. g = [i \in 0..N |-> IF i = 0 THEN Walk(3, <<>>) ELSE ParseEntry(data, g[i - 1])]
    BY <2>1, <2>2
  <2> QED BY <1>4, <2>3
<1>9. walk = D(walk)
  <2> HIDE DEF D
  <2> QED BY <1>8
<1> HIDE DEF walk
<1>10. \A i \in 0..N : walk[i] = IF i = 0 THEN Walk(3, <<>>) ELSE ParseEntry(data, walk[i - 1])
  BY <1>4, <1>9
<1>11. walk[N] = g[N]
  <2> DEFINE G == {n \in 0..N : walk[n] = g[n]}
  <2> HIDE DEF g
  <2>1. 0 \in G
    BY <1>0, <1>7, <1>10
  <2>2. ASSUME NEW k \in 1..N, k - 1 \in G PROVE k \in G
    <3>1. k \in 0..N /\ k # 0 /\ walk[k - 1] = g[k - 1]
      BY <1>0, <2>2
    <3> QED BY <1>6, <1>10, <3>1
  <2>3. G = 0..N
    <3>1. G \in SUBSET (0..N)
      OBVIOUS
    <3> HIDE DEF G
    <3> QED BY <1>0, <2>1, <2>2, <3>1, Upto
  <2> QED BY <1>0, <2>3
<1>12. g[N] = Walk(b[N] + 1, Heads(entries, N))
  BY <1>0
<1> QED BY <1>1, <1>4, <1>5, <1>11, <1>12, HeadsStep

-----------------------------------------------------------------------------
(* What a getter's write leaves, and what the walk makes of it.            *)
LEMMA DataIs ==
  ASSUME NEW m \in Memory, NEW n \in 0..MemSize
  PROVE  SubSeq(m, 1, n) \in Seq(Byte) /\ Len(SubSeq(m, 1, n)) = n /\ Same(m, SubSeq(m, 1, n), 0, n)
<1> DEFINE d == SubSeq(m, 1, n)
<1>1. n \in Nat /\ n - 1 + 1 = n /\ \A i \in 1..n : i \in 1..MemSize /\ m[i] \in Byte
  BY Numbers DEF Memory
<1>2. /\ d \in Seq(Byte) /\ Len(d) = IF 1 <= n THEN n - 1 + 1 ELSE 0
      /\ \A i \in 1..n-1+1 : d[i] = m[1 + i - 1]
  BY <1>1, SubSeqProperties
<1> HIDE DEF d
<1>3. Len(d) = n
  BY <1>1, <1>2
<1>4. \A i \in 1..n : d[i] = m[i]
  <2>1. ASSUME NEW i \in 1..n PROVE d[i] = m[i]
    <3>1. 1 + i - 1 = i
      OBVIOUS
    <3> QED BY <1>1, <1>2, <3>1
  <2> QED BY <2>1
<1>5. Same(m, d, 0, n)
  <2>1. \A j \in 0+1 .. 0+n : j \in 1..n
    BY <1>1
  <2> QED BY <1>4, <2>1 DEF Same
<1> QED BY <1>2, <1>3, <1>5 DEF d

(* A list that stands at the start of the block is what the getter parses. *)
LEMMA PeersParsed ==
  ASSUME NEW m \in Memory, NEW entries \in Seq(Record), ListAt(m, 0, entries),
         NEW n \in 0..MemSize, n = ListBytes(entries)
  PROVE  Parsed("peers", m, n) = Returned(AsList(entries))
<1> DEFINE d == SubSeq(m, 1, n)
<1>1. d \in Seq(Byte) /\ Len(d) = n /\ Same(m, d, 0, n)
  BY DataIs
<1> HIDE DEF d
<1>2. n \in Nat /\ n <= n
  BY Numbers
<1>3. ListAt(d, 0, entries)
  BY <1>1, ListStays
<1>4. ParseList(d) = Walk(n + 1, AsList(entries))
  BY <1>1, <1>2, <1>3, ParseListIs
<1>5. ParseList(d).threw = FALSE /\ ParseList(d).out = AsList(entries)
  BY <1>4 DEF Walk
<1> QED BY <1>5 DEF Parsed, d

(* A record that stands there is, too.                                     *)
LEMMA StatusParsed ==
  ASSUME NEW m \in Memory, NEW fields \in Record, RecordAt(m, 0, fields),
         NEW n \in 0..MemSize, n = RecordBytes(fields)
  PROVE  Parsed("status", m, n) = Returned(AsArray(fields))
<1> DEFINE d == SubSeq(m, 1, n)
<1>1. d \in Seq(Byte) /\ Len(d) = n /\ Same(m, d, 0, n)
  BY DataIs
<1> HIDE DEF d
<1>2. n \in Nat /\ 0 + n <= n /\ 0 + 1 = 1 /\ fields \in Seq(Field)
  BY Numbers DEF Record
<1>3. RecordAt(d, 0, fields)
  BY <1>1, <1>2, RecordStays
<1>4. ParseRecord(d, 1) = Walk(0 + n + 1, AsArray(fields))
  BY <1>1, <1>2, <1>3, ParseRecordIs
<1>5. ParseRecord(d, 1).threw = FALSE /\ ParseRecord(d, 1).out = AsArray(fields)
  BY <1>4 DEF Walk
<1> QED BY <1>5 DEF Parsed, d

-----------------------------------------------------------------------------
(***************************************************************************)
(* Into a block that is large enough the shim writes a list, or a record,  *)
(* of exactly the bytes it answers, and the binding's walk over that many  *)
(* bytes of the block gives back every entry and every known field, and    *)
(* nothing of what was in the block before.                                *)
(***************************************************************************)
THEOREM ListRoundTrip ==
  ASSUME NEW block \in Memory, NEW capacity \in 0..MemSize, NEW entries \in Seq(Record),
         Framable(entries), ListBytes(entries) <= capacity
  PROVE  /\ Answer(PutList(Writer(block, capacity), entries)) = ListBytes(entries)
         /\ Parsed("peers", PutList(Writer(block, capacity), entries).mem, ListBytes(entries))
              = Returned(AsList(entries))
<1> DEFINE w == Writer(block, capacity)
           v == PutList(w, entries)
           L == ListBytes(entries)
<1>1. w \in Writers /\ w.pos = 0 /\ w.cap = capacity
  BY DEF Writer, Writers
<1> HIDE DEF w
<1>2. /\ Extends(w, v) /\ v.pos = 0 + L
      /\ v.pos <= w.cap => ListAt(v.mem, 0, entries)
  BY <1>1, PutListIs
<1> HIDE DEF v
<1>3. L \in Nat /\ capacity \in Nat /\ capacity <= MemSize /\ MemSize \in Nat /\ L <= capacity
  <2>1. PICK b \in [0..Len(entries) -> Nat] : ListBytes(entries) = b[Len(entries)]
    BY ListBytesIs
  <2> QED BY <2>1, EntryType, Numbers
<1>4. v \in Writers /\ v.cap = capacity /\ v.mem \in Memory
  BY <1>1, <1>2, ExtendsType, WriterType
<1> HIDE DEF L
<1>5. v.pos = L /\ ~(v.pos > v.cap) /\ L \in 0..MemSize
  BY <1>2, <1>3, <1>4
<1>6. ListAt(v.mem, 0, entries)
  BY <1>1, <1>2, <1>3, <1>5
<1>7. Parsed("peers", v.mem, L) = Returned(AsList(entries))
  BY <1>4, <1>5, <1>6, PeersParsed DEF L
<1>8. Answer(v) = L
  BY <1>5 DEF Answer
<1> QED BY <1>7, <1>8 DEF v, w, L

(***************************************************************************)
(* The same for one record, as btTorrentStatus gets it.                    *)
(***************************************************************************)
THEOREM RecordRoundTrip ==
  ASSUME NEW block \in Memory, NEW capacity \in 0..MemSize, NEW fields \in Record,
         Sayable(fields), RecordBytes(fields) <= capacity
  PROVE  /\ Answer(PutRecord(Writer(block, capacity), fields)) = RecordBytes(fields)
         /\ Parsed("status", PutRecord(Writer(block, capacity), fields).mem, RecordBytes(fields))
              = Returned(AsArray(fields))
<1> DEFINE w == Writer(block, capacity)
           v == PutRecord(w, fields)
           L == RecordBytes(fields)
<1>1. w \in Writers /\ w.pos = 0 /\ w.cap = capacity /\ fields \in Seq(Field)
  BY DEF Writer, Writers, Record
<1> HIDE DEF w
<1>2. /\ Extends(w, v) /\ v.pos = 0 + L
      /\ v.pos <= w.cap => RecordAt(v.mem, 0, fields)
  BY <1>1, PutRecordIs
<1> HIDE DEF v
<1>3. L \in Nat /\ capacity \in Nat /\ capacity <= MemSize /\ MemSize \in Nat /\ L <= capacity
  BY <1>1, RecordBytesType, Numbers
<1>4. v \in Writers /\ v.cap = capacity /\ v.mem \in Memory
  BY <1>1, <1>2, ExtendsType, WriterType
<1> HIDE DEF L
<1>5. v.pos = L /\ ~(v.pos > v.cap) /\ L \in 0..MemSize
  BY <1>2, <1>3, <1>4
<1>6. RecordAt(v.mem, 0, fields)
  BY <1>1, <1>2, <1>3, <1>5
<1>7. Parsed("status", v.mem, L) = Returned(AsArray(fields))
  BY <1>4, <1>5, <1>6, StatusParsed DEF L
<1>8. Answer(v) = L
  BY <1>5 DEF Answer
<1> QED BY <1>7, <1>8 DEF v, w, L

-----------------------------------------------------------------------------
(* What the engine may hold, and what one write of it measures.            *)
LEMMA EngineType ==
  ASSUME NEW e \in Engine
  PROVE  /\ e.peers \in PeerLists /\ e.peers \in Seq(Record) /\ ListBytes(e.peers) <= MemSize
         /\ e.status \in Statuses /\ e.status \in Record /\ e.status \in Seq(Field) /\ RecordBytes(e.status) <= MemSize
         /\ \A kind \in Kinds : Need(kind, e) \in Nat /\ Need(kind, e) <= MemSize
<1>1. /\ e.peers \in PeerLists /\ e.peers \in Seq(Record) /\ ListBytes(e.peers) <= MemSize
      /\ e.status \in Statuses /\ e.status \in Record /\ RecordBytes(e.status) <= MemSize
  BY GetterAssumption DEF Engine
<1>2. e.status \in Seq(Field)
  BY <1>1 DEF Record
<1>3. RecordBytes(e.status) \in Nat
  BY <1>2, RecordBytesType
<1>4. ListBytes(e.peers) \in Nat
  <2>1. PICK b \in [0..Len(e.peers) -> Nat] : ListBytes(e.peers) = b[Len(e.peers)]
    BY <1>1, ListBytesIs
  <2> QED BY <1>1, <2>1, LenProperties
<1> QED BY <1>1, <1>2, <1>3, <1>4 DEF Need, Kinds

(* One measured write over a block of the caller's.                        *)
Measured(w, kind, e, block, capacity) ==
  /\ w.mem \in Memory /\ \A j \in 1..MemSize : j > capacity => w.mem[j] = block[j]
  /\ w.pos \in Nat /\ w.cap = capacity /\ 2 <= w.pos /\ w.pos <= Need(kind, e)
  /\ Expressible(kind, e) =>
       /\ w.pos = Need(kind, e)
       /\ w.pos <= capacity => Parsed(kind, w.mem, w.pos) = Returned(Meaning(kind, e))

(* Every write of a getter is measured so.                                 *)
LEMMA WriteIs ==
  ASSUME engine \in Engine, NEW kind \in Kinds, NEW block \in Memory, NEW capacity \in 0..MemSize
  PROVE  Measured(Write(kind, block, capacity), kind, engine, block, capacity)
<1> DEFINE w == Writer(block, capacity)
<1>1. w \in Writers /\ w.pos = 0 /\ w.cap = capacity /\ w.mem = block
  BY DEF Writer, Writers
<1>2. /\ engine.peers \in Seq(Record) /\ ListBytes(engine.peers) <= MemSize /\ engine.status \in Record
      /\ engine.status \in Seq(Field) /\ RecordBytes(engine.status) <= MemSize
  BY EngineType
<1> HIDE DEF w
<1>3. CASE kind = "peers"
  <2> DEFINE v == PutList(w, engine.peers)
             L == ListBytes(engine.peers)
  <2>1. /\ Extends(w, v) /\ 0 + 2 <= v.pos /\ v.pos <= 0 + L
        /\ Framable(engine.peers) => /\ v.pos = 0 + L
                                     /\ v.pos <= w.cap => ListAt(v.mem, 0, engine.peers)
    BY <1>1, <1>2, PutListIs
  <2> HIDE DEF v
  <2>2. v \in Writers /\ v.cap = capacity /\ v.mem \in Memory /\ v.pos \in Nat
        /\ \A j \in 1..MemSize : j > capacity => v.mem[j] = block[j]
    <3>1. v \in Writers /\ v.cap = capacity
      BY <1>1, <2>1, ExtendsType
    <3> QED BY <1>1, <2>1, <3>1, WriterType DEF Extends
  <2>3. L \in Nat /\ L <= MemSize /\ Need(kind, engine) = L
    BY <1>3, EngineType DEF Need, Kinds
  <2> HIDE DEF L
  <2>4. 2 <= v.pos /\ v.pos <= L /\ (Framable(engine.peers) => v.pos = L)
    BY <2>1, <2>2, <2>3
  <2>5. ASSUME Framable(engine.peers), v.pos <= capacity
        PROVE  Parsed(kind, v.mem, v.pos) = Returned(Meaning(kind, engine))
    <3>1. ListAt(v.mem, 0, engine.peers)
      BY <1>1, <2>1, <2>5
    <3>2. v.pos \in 0..MemSize /\ v.pos = ListBytes(engine.peers)
      BY <2>2, <2>3, <2>4, <2>5, Numbers DEF L
    <3>3. Parsed("peers", v.mem, v.pos) = Returned(AsList(engine.peers))
      BY <1>2, <2>2, <3>1, <3>2, PeersParsed
    <3> QED BY <1>3, <3>3 DEF Meaning
  <2>6. Write(kind, block, capacity) = v
    BY <1>3 DEF Write, v, w
  <2>7. Expressible(kind, engine) = Framable(engine.peers)
    BY <1>3 DEF Expressible
  <2> QED BY <2>2, <2>3, <2>4, <2>5, <2>6, <2>7 DEF Measured
<1>4. CASE kind = "status"
  <2> DEFINE v == PutRecord(w, engine.status)
             L == RecordBytes(engine.status)
  <2>1. /\ Extends(w, v) /\ 0 + 2 <= v.pos /\ v.pos <= 0 + L
        /\ Sayable(engine.status) => /\ v.pos = 0 + L
                                     /\ v.pos <= w.cap => RecordAt(v.mem, 0, engine.status)
    BY <1>1, <1>2, PutRecordIs
  <2> HIDE DEF v
  <2>2. v \in Writers /\ v.cap = capacity /\ v.mem \in Memory /\ v.pos \in Nat
        /\ \A j \in 1..MemSize : j > capacity => v.mem[j] = block[j]
    <3>1. v \in Writers /\ v.cap = capacity
      BY <1>1, <2>1, ExtendsType
    <3> QED BY <1>1, <2>1, <3>1, WriterType DEF Extends
  <2>3. L \in Nat /\ L <= MemSize /\ Need(kind, engine) = L
    BY <1>4, EngineType DEF Need, Kinds
  <2> HIDE DEF L
  <2>4. 2 <= v.pos /\ v.pos <= L /\ (Sayable(engine.status) => v.pos = L)
    BY <2>1, <2>2, <2>3
  <2>5. ASSUME Sayable(engine.status), v.pos <= capacity
        PROVE  Parsed(kind, v.mem, v.pos) = Returned(Meaning(kind, engine))
    <3>1. RecordAt(v.mem, 0, engine.status)
      BY <1>1, <2>1, <2>5
    <3>2. v.pos \in 0..MemSize /\ v.pos = RecordBytes(engine.status)
      BY <2>2, <2>3, <2>4, <2>5, Numbers DEF L
    <3>3. Parsed("status", v.mem, v.pos) = Returned(AsArray(engine.status))
      BY <1>2, <2>2, <3>1, <3>2, StatusParsed
    <3> QED BY <1>4, <3>3 DEF Meaning
  <2>6. Write(kind, block, capacity) = v
    BY <1>4 DEF Write, v, w
  <2>7. Expressible(kind, engine) = Sayable(engine.status)
    BY <1>4 DEF Expressible
  <2> QED BY <2>2, <2>3, <2>4, <2>5, <2>6, <2>7 DEF Measured
<1> QED BY <1>3, <1>4 DEF Kinds

-----------------------------------------------------------------------------
(* The invariant. A call that has looked once has looked over a live block *)
(* at a good torrent, and asks again for what it measured.                 *)
Waiting ==
  /\ Len(looks) = 1 /\ ~freed /\ ~died /\ call.kind \in Kinds
  /\ call.need <= Need(call.kind, looks[1])
  /\ Expressible(call.kind, looks[1]) => call.need = Need(call.kind, looks[1])

GetterInv == TypeOK /\ BeyondUntouched /\ (~Idle => Waiting) /\ Answers

(* It holds at the start.                                                  *)
LEMMA InitInv == Init => GetterInv
<1> SUFFICES ASSUME Init PROVE GetterInv
  OBVIOUS
<1>1. TypeOK
  <2>1. 0 \in Byte
    BY Numbers DEF Byte
  <2>2. mem \in [1..MemSize -> Byte] /\ engine \in Engine /\ looks \in Seq(Engine) /\ Len(looks) = 0
    BY <2>1 DEF Init
  <2>3. 0 \in 0..MemSize /\ 0 <= 2
    BY Numbers
  <2> QED BY <2>2, <2>3 DEF Init, TypeOK
<1>2. BeyondUntouched
  BY DEF Init, BeyondUntouched
<1>3. Idle
  BY DEF Init, Idle
<1>4. Answers
  <2>1. ~Answered
    BY DEF Init, Answered
  <2> QED BY <2>1 DEF Answers, ReturnsSnapshot, EmptyForAReason
<1> QED BY <1>1, <1>2, <1>3, <1>4 DEF GetterInv

-----------------------------------------------------------------------------
(* What one look can come to: it has to look again, it has looked again in *)
(* vain, the torrent is bad, or the snapshot is returned.                  *)
Refused(kind, p) ==
  /\ p \in Nat /\ cap' < p /\ p <= Need(kind, engine)
  /\ Expressible(kind, engine) => p = Need(kind, engine)

Done(kind) == call' = [kind |-> kind, need |-> 0]

AsksAgain(kind) == Idle /\ good /\ \E p : call' = [kind |-> kind, need |-> p] /\ Refused(kind, p)
InVain(kind)    == ~Idle /\ good /\ Done(kind) /\ result' = Empty /\ \E p : Refused(kind, p)
Bad(kind)       == ~good /\ Done(kind) /\ result' = Empty
Answering(kind) ==
  /\ good /\ Done(kind)
  /\ Expressible(kind, engine) => result' \in {Returned(Meaning(kind, engine)), Thrown("memory")}

Outcome(kind) == AsksAgain(kind) \/ InVain(kind) \/ Bad(kind) \/ Answering(kind)

(* The buffer after a look.                                                *)
Grown(need) ==
  /\ cap' \in 0..MemSize /\ need <= cap' /\ (cap' = need \/ cap' = cap)
  /\ cap < need => cap' = need
  /\ mem' \in Memory /\ \A i \in 1..MemSize : i > cap' => mem'[i] = 0
  /\ UNCHANGED <<engine, good, freed>>

(* _ensureStatus: the block is large enough, and nothing beyond it         *)
(* changes.                                                                *)
LEMMA BlockIs ==
  ASSUME TypeOK, BeyondUntouched, NEW need \in 1..MemSize, NEW junk \in Junk
  PROVE  /\ Block(need, junk) \in Memory
         /\ \A i \in 1..MemSize : i > Capacity(need) => Block(need, junk)[i] = 0
         /\ Capacity(need) \in 0..MemSize /\ need <= Capacity(need)
         /\ Capacity(need) = need \/ Capacity(need) = cap
         /\ cap < need => Capacity(need) = need
<1>1. /\ mem \in [1..MemSize -> Byte] /\ DOMAIN mem = 1..MemSize /\ cap \in 0..MemSize /\ junk \in Byte
      /\ \A i \in 1..MemSize : i > cap => mem[i] = 0
  BY GetterAssumption DEF TypeOK, BeyondUntouched
<1>2. MemSize \in Nat /\ cap \in Nat /\ need \in Nat
  BY <1>1, Numbers
<1>3. /\ Capacity(need) \in 0..MemSize /\ need <= Capacity(need)
      /\ Capacity(need) = need \/ Capacity(need) = cap
      /\ cap < need => Capacity(need) = need
      /\ Grows(need) => Capacity(need) = need
      /\ ~Grows(need) => Capacity(need) = cap
  BY <1>1, <1>2 DEF Capacity, Grows
<1> DEFINE B == [i \in 1..MemSize |-> IF Grows(need) /\ i <= need THEN junk ELSE mem[i]]
<1>4. Block(need, junk) = B
  BY <1>1 DEF Block
<1>5. B \in Memory
  BY <1>1 DEF Memory
<1>6. ASSUME NEW i \in 1..MemSize, i > Capacity(need) PROVE B[i] = 0
  <2>1. CASE Grows(need)
    <3>1. ~(i <= need) /\ i > cap
      BY <1>2, <1>3, <1>6, <2>1 DEF Grows
    <3> QED BY <1>1, <3>1
  <2>2. CASE ~Grows(need)
    <3>1. i > cap
      BY <1>3, <1>6, <2>2
    <3> QED BY <1>1, <2>2, <3>1
  <2> QED BY <2>1, <2>2
<1> QED BY <1>3, <1>4, <1>5, <1>6

(* A look grows the buffer and comes to one of the four.                   *)
LEMMA LookIs ==
  ASSUME TypeOK, BeyondUntouched, NEW kind \in Kinds, NEW need \in 1..MemSize, NEW junk \in Junk,
         Look(kind, need, junk)
  PROVE  Grown(need) /\ Outcome(kind)
<1> DEFINE block == Block(need, junk)
           c == Capacity(need)
           w == Write(kind, block, c)
           n == IF good THEN Answer(w) ELSE 0
<1>1. /\ block \in Memory /\ \A i \in 1..MemSize : i > c => block[i] = 0
      /\ c \in 0..MemSize /\ need <= c /\ (c = need \/ c = cap) /\ (cap < need => c = need)
  BY BlockIs
<1>2. /\ cap' = c /\ mem' = IF good THEN w.mem ELSE block
      /\ IF n < 0 /\ Idle
         THEN call' = [kind |-> kind, need |-> -n] /\ UNCHANGED result
         ELSE /\ call' = [kind |-> kind, need |-> 0]
              /\ result' \in IF n <= 0 THEN {Empty} ELSE {Parsed(kind, w.mem, n), Thrown("memory")}
      /\ UNCHANGED <<engine, good, freed>>
  BY DEF Look
<1>3. engine \in Engine /\ good \in BOOLEAN
  BY DEF TypeOK
<1> HIDE DEF block, c
<1>4. Measured(w, kind, engine, block, c)
  BY <1>1, <1>3, WriteIs
<1> HIDE DEF w
<1>5. Grown(need)
  <2>1. mem' \in Memory /\ \A i \in 1..MemSize : i > c => mem'[i] = 0
    <3>1. CASE good
      BY <1>1, <1>2, <1>4, <3>1 DEF Measured
    <3>2. CASE ~good
      BY <1>1, <1>2, <3>2
    <3> QED BY <3>1, <3>2
  <2> QED BY <1>1, <1>2, <2>1 DEF Grown
<1>6. c \in Nat /\ w.pos \in Nat /\ 2 <= w.pos /\ w.cap = c
  BY <1>1, <1>4, Numbers DEF Measured
<1>7. CASE ~good
  <2>1. n = 0 /\ ~(n < 0) /\ n <= 0
    BY <1>7
  <2> HIDE DEF n
  <2>2. Bad(kind)
    BY <1>2, <1>7, <2>1 DEF Bad, Done
  <2> QED BY <1>5, <2>2 DEF Outcome
<1>8. CASE good /\ w.pos > c
  <2>1. n = -w.pos /\ n < 0 /\ n <= 0 /\ -n = w.pos
    BY <1>6, <1>8 DEF Answer
  <2> HIDE DEF n
  <2>2. Refused(kind, w.pos)
    BY <1>2, <1>4, <1>6, <1>8 DEF Refused, Measured
  <2>3. CASE Idle
    <3>1. call' = [kind |-> kind, need |-> w.pos]
      BY <1>2, <2>1, <2>3
    <3>2. AsksAgain(kind)
      BY <1>8, <2>2, <2>3, <3>1 DEF AsksAgain
    <3> QED BY <1>5, <3>2 DEF Outcome
  <2>4. CASE ~Idle
    <3>1. Done(kind) /\ result' = Empty
      BY <1>2, <2>1, <2>4 DEF Done
    <3>2. InVain(kind)
      BY <1>8, <2>2, <2>4, <3>1 DEF InVain
    <3> QED BY <1>5, <3>2 DEF Outcome
  <2> QED BY <2>3, <2>4
<1>9. CASE good /\ w.pos <= c
  <2>1. n = w.pos /\ ~(n < 0) /\ ~(n <= 0)
    BY <1>6, <1>9 DEF Answer
  <2> HIDE DEF n
  <2>2. Done(kind) /\ result' \in {Parsed(kind, w.mem, w.pos), Thrown("memory")}
    BY <1>2, <2>1 DEF Done
  <2>3. Expressible(kind, engine) => result' \in {Returned(Meaning(kind, engine)), Thrown("memory")}
    BY <1>4, <1>9, <2>2 DEF Measured
  <2>4. Answering(kind)
    BY <1>9, <2>2, <2>3 DEF Answering
  <2> QED BY <1>5, <2>4 DEF Outcome
<1> QED BY <1>3, <1>6, <1>7, <1>8, <1>9

-----------------------------------------------------------------------------
(* The looks of a call, after one more.                                    *)
LEMMA LooksAre ==
  ASSUME TypeOK, looks' = <<engine>> \/ (Len(looks) = 1 /\ looks' = Append(looks, engine))
  PROVE  /\ looks' \in Seq(Engine) /\ Len(looks') \in 1..2 /\ looks'[Len(looks')] = engine
         /\ DOMAIN looks' = 1..Len(looks') /\ looks' # <<>>
         /\ looks' = <<engine>> => Len(looks') = 1 /\ looks'[1] = engine
         /\ looks' = Append(looks, engine) /\ Len(looks) = 1 => Len(looks') = 2 /\ looks'[1] = looks[1]
<1>1. engine \in Engine /\ looks \in Seq(Engine)
  BY DEF TypeOK
<1>2. CASE looks' = <<engine>>
  <2> DEFINE s == <<engine>>
  <2>1. s \in Seq(Engine) /\ Len(s) = 1 /\ s[1] = engine /\ DOMAIN s = 1..1 /\ s # <<>>
    BY <1>1
  <2>2. s # Append(looks, engine) \/ Len(looks) # 1
    <3>1. Len(Append(looks, engine)) = Len(looks) + 1
      BY <1>1, AppendProperties
    <3> HIDE DEF s
    <3> QED BY <2>1, <3>1
  <2> HIDE DEF s
  <2> QED BY <1>2, <2>1, <2>2 DEF s
<1>3. CASE Len(looks) = 1 /\ looks' = Append(looks, engine)
  <2> DEFINE s == Append(looks, engine)
  <2>1. s \in Seq(Engine) /\ Len(s) = 2 /\ s[1] = looks[1] /\ s[2] = engine
    <3>1. /\ s \in Seq(Engine) /\ Len(s) = Len(looks) + 1
          /\ \A i \in 1..(Len(looks) + 1) : s[i] = IF i <= Len(looks) THEN looks[i] ELSE engine
      BY <1>1, AppendProperties
    <3> HIDE DEF s
    <3>2. Len(s) = 2 /\ \A i \in 1..2 : s[i] = IF i <= 1 THEN looks[i] ELSE engine
      BY <1>3, <3>1
    <3>3. 1 \in 1..2 /\ 2 \in 1..2 /\ 1 <= 1 /\ ~(2 <= 1)
      OBVIOUS
    <3>4. s[1] = looks[1] /\ s[2] = engine
      BY <3>2, <3>3
    <3> QED BY <3>1, <3>2, <3>4
  <2>2. DOMAIN s = 1..2 /\ s # <<>> /\ s # <<engine>>
    <3> HIDE DEF s
    <3> QED BY <2>1, LenProperties
  <2> HIDE DEF s
  <2> QED BY <1>3, <2>1, <2>2 DEF s
<1> QED BY <1>2, <1>3

(* A call answers well that is not over, or returns its last look, or comes *)
(* back empty for a reason.                                                *)
LEMMA NotAnswered ==
  ASSUME ~Answered' PROVE Answers'
BY DEF Answers, ReturnsSnapshot, EmptyForAReason

(* It returns its last look, or there is no memory for that.               *)
LEMMA Returns ==
  ASSUME Expressible(call.kind, looks[Len(looks)])' =>
           (result \in {Returned(Meaning(call.kind, looks[Len(looks)])), Thrown("memory")})',
         (looks # <<>> => Len(looks) \in DOMAIN looks)'
  PROVE  Answers'
<1> SUFFICES ASSUME Answered' PROVE Answers'
  BY NotAnswered
<1>1. Expressible(call.kind, looks[Len(looks)])'
  BY DEF Answered
<1>2. (result = Returned(Meaning(call.kind, looks[Len(looks)])))'
  <2>1. result' # Thrown("memory")
    <3>1. result'.error # "memory"
      BY DEF Answered
    <3> QED BY <3>1 DEF Thrown
  <2> QED BY <1>1, <2>1
<1>3. ReturnsSnapshot'
  BY <1>2 DEF ReturnsSnapshot
<1>4. EmptyForAReason'
  BY <1>2 DEF EmptyForAReason, Returned, Empty
<1> QED BY <1>3, <1>4 DEF Answers

(* It comes back empty for a reason.                                       *)
LEMMA ComesBackEmpty ==
  ASSUME (result = Empty)',
         (died \/ (Answered => Need(call.kind, looks[1]) < Need(call.kind, looks[Len(looks)])))'
  PROVE  Answers'
<1>1. ReturnsSnapshot'
  BY DEF ReturnsSnapshot
<1>2. EmptyForAReason'
  BY DEF EmptyForAReason
<1> QED BY <1>1, <1>2 DEF Answers

-----------------------------------------------------------------------------
(* The actions.                                                            *)
LEMMA GrownType ==
  ASSUME TypeOK, NEW need, Grown(need)
  PROVE  /\ engine' \in Engine /\ good' \in BOOLEAN /\ freed' \in BOOLEAN
         /\ mem' \in [1..MemSize -> Byte] /\ cap' \in 0..MemSize /\ cap' \in Nat /\ MemSize \in Nat
         /\ BeyondUntouched'
BY Numbers DEF TypeOK, Grown, Memory, BeyondUntouched

(* A look keeps the types and what lies beyond the block.                  *)
LEMMA LookKeeps ==
  ASSUME TypeOK, BeyondUntouched, NEW kind \in Kinds, NEW need, Grown(need), Outcome(kind),
         looks' \in Seq(Engine), Len(looks') \in 1..2, died' \in BOOLEAN
  PROVE  TypeOK' /\ BeyondUntouched'
<1>1. /\ engine' \in Engine /\ good' \in BOOLEAN /\ freed' \in BOOLEAN
      /\ mem' \in [1..MemSize -> Byte] /\ cap' \in 0..MemSize /\ cap' \in Nat /\ MemSize \in Nat
      /\ BeyondUntouched'
  BY GrownType
<1>2. call'.kind \in Kinds \cup {"none"} /\ (call'.need = 0 \/ call'.need \in cap'+1 .. MemSize)
  <2>1. CASE Done(kind)
    BY <2>1 DEF Done
  <2>2. CASE AsksAgain(kind)
    <3>1. PICK p : call' = [kind |-> kind, need |-> p] /\ Refused(kind, p)
      BY <2>2 DEF AsksAgain
    <3>2. Need(kind, engine) \in Nat /\ Need(kind, engine) <= MemSize
      BY EngineType DEF TypeOK
    <3>3. p \in Nat /\ cap' < p /\ p <= Need(kind, engine)
      BY <3>1 DEF Refused
    <3>4. p \in cap'+1 .. MemSize
      <4> DEFINE c == cap'
                 m == Need(kind, engine)
      <4>1. c \in Nat /\ p \in Nat /\ m \in Nat /\ c < p /\ p <= m /\ m <= MemSize /\ MemSize \in Nat
        BY <1>1, <3>2, <3>3
      <4> HIDE DEF c, m
      <4>2. p \in c+1 .. MemSize
        BY <4>1
      <4> QED BY <4>2 DEF c
    <3>5. call'.kind = kind /\ call'.need = p
      BY <3>1
    <3> QED BY <3>4, <3>5
  <2> QED BY <2>1, <2>2 DEF Outcome, InVain, Bad, Answering
<1>3. Len(looks') <= 2
  <2> DEFINE l == Len(looks')
  <2>1. l \in 1..2
    OBVIOUS
  <2> HIDE DEF l
  <2>2. l <= 2
    BY <2>1
  <2> QED BY <2>2 DEF l
<1> QED BY <1>1, <1>2, <1>3 DEF TypeOK

(* The first look of a call.                                               *)
LEMMA FirstKeeps ==
  ASSUME GetterInv, NEW kind \in Kinds, NEW junk \in Junk, First(kind, junk)
  PROVE  GetterInv'
<1>1. TypeOK /\ BeyondUntouched /\ Idle /\ ~freed /\ looks' = <<engine>> /\ died' = ~good
  BY DEF GetterInv, First
<1>2. Grown(StatusCap) /\ Outcome(kind)
  BY <1>1, Numbers, LookIs DEF First
<1>3. /\ looks' \in Seq(Engine) /\ Len(looks') \in 1..2 /\ looks'[Len(looks')] = engine
      /\ DOMAIN looks' = 1..Len(looks') /\ Len(looks') = 1 /\ looks'[1] = engine
  BY <1>1, LooksAre
<1>4. good \in BOOLEAN /\ died' \in BOOLEAN /\ freed' = freed
  BY <1>1, <1>2 DEF TypeOK, Grown
<1>5. TypeOK' /\ BeyondUntouched'
  BY <1>1, <1>2, <1>3, <1>4, LookKeeps
<1>6. CASE AsksAgain(kind)
  <2>1. PICK p : call' = [kind |-> kind, need |-> p] /\ Refused(kind, p)
    BY <1>6 DEF AsksAgain
  <2>2. call'.kind = kind /\ call'.need = p
    BY <2>1
  <2>3. cap' \in Nat /\ p \in Nat /\ cap' < p
    BY <1>1, <1>2, <2>1, GrownType DEF Refused
  <2>4. ~Idle' /\ ~Answered'
    BY <2>2, <2>3 DEF Idle, Answered
  <2>5. Waiting'
    BY <1>1, <1>3, <1>4, <1>6, <2>1, <2>2 DEF Waiting, Refused, AsksAgain, Expressible, Need
  <2> QED BY <1>5, <2>4, <2>5, NotAnswered DEF GetterInv
<1>7. CASE ~AsksAgain(kind)
  <2>1. call' = [kind |-> kind, need |-> 0]
    BY <1>2, <1>7 DEF Outcome, InVain, Bad, Answering, Done
  <2>2. call'.kind = kind /\ Idle'
    BY <2>1 DEF Idle
  <2>3. CASE Bad(kind)
    BY <1>1, <1>5, <2>2, <2>3, ComesBackEmpty DEF Bad, GetterInv
  <2>4. CASE Answering(kind)
    <3>1. Expressible(call.kind, looks[Len(looks)])' =>
      (result \in {Returned(Meaning(call.kind, looks[Len(looks)])), Thrown("memory")})'
      BY <1>3, <2>2, <2>4 DEF Answering, Expressible, Meaning
    <3>2. (looks # <<>> => Len(looks) \in DOMAIN looks)'
      BY <1>3
    <3> QED BY <1>5, <2>2, <3>1, <3>2, Returns DEF GetterInv
  <2> QED BY <1>1, <1>2, <1>7, <2>3, <2>4 DEF Outcome, InVain
<1> QED BY <1>6, <1>7

(* The second: what is refused again has grown since the first.            *)
LEMMA RetryKeeps ==
  ASSUME GetterInv, NEW junk \in Junk, Retry(junk)
  PROVE  GetterInv'
<1> DEFINE kind == call.kind
           need == call.need
<1>1. TypeOK /\ BeyondUntouched /\ ~Idle /\ Waiting /\ looks' = Append(looks, engine) /\ died' = (died \/ ~good)
  BY DEF GetterInv, Retry
<1>2. kind \in Kinds /\ need \in cap+1 .. MemSize /\ cap \in Nat /\ MemSize \in Nat
  <2>1. cap \in Nat /\ MemSize \in Nat
    BY <1>1, Numbers DEF TypeOK
  <2> QED BY <1>1, <2>1 DEF TypeOK, Waiting, Idle
<1>3. need \in 1..MemSize /\ cap < need
  BY <1>2
<1>4. Look(kind, need, junk)
  BY DEF Retry
<1> HIDE DEF kind, need
<1>5. Grown(need) /\ Outcome(kind)
  BY <1>1, <1>2, <1>3, <1>4, LookIs
<1>6. cap' = need /\ freed' = freed
  BY <1>3, <1>5 DEF Grown
<1>7. /\ looks' \in Seq(Engine) /\ Len(looks') \in 1..2 /\ looks'[Len(looks')] = engine
      /\ DOMAIN looks' = 1..Len(looks') /\ Len(looks') = 2 /\ looks'[1] = looks[1]
  BY <1>1, LooksAre DEF Waiting
<1>8. good \in BOOLEAN /\ died' \in BOOLEAN
  BY <1>1 DEF TypeOK
<1>9. TypeOK' /\ BeyondUntouched'
  BY <1>1, <1>2, <1>5, <1>7, <1>8, LookKeeps
<1>10. call' = [kind |-> kind, need |-> 0]
  BY <1>1, <1>5 DEF Outcome, AsksAgain, InVain, Bad, Answering, Done
<1>11. call'.kind = kind /\ Idle'
  BY <1>10 DEF Idle
<1>12. CASE Bad(kind)
  BY <1>1, <1>9, <1>11, <1>12, ComesBackEmpty DEF Bad, GetterInv
<1>13. CASE Answering(kind)
  <2>1. Expressible(call.kind, looks[Len(looks)])' =>
      (result \in {Returned(Meaning(call.kind, looks[Len(looks)])), Thrown("memory")})'
    BY <1>7, <1>11, <1>13 DEF Answering, Expressible, Meaning
  <2>2. (looks # <<>> => Len(looks) \in DOMAIN looks)'
    BY <1>7
  <2> QED BY <1>9, <1>11, <2>1, <2>2, Returns DEF GetterInv
<1>14. CASE InVain(kind)
  <2>1. PICK p : Refused(kind, p)
    BY <1>14 DEF InVain
  <2>2. need < p /\ p <= Need(kind, engine)
    BY <1>6, <2>1 DEF Refused
  <2>3. ASSUME Answered' PROVE (Need(call.kind, looks[1]) < Need(call.kind, looks[Len(looks)]))'
    <3>1. Expressible(kind, looks[1])
      BY <1>7, <1>11, <2>3 DEF Answered, Expressible
    <3>2. need = Need(kind, looks[1])
      BY <1>1, <3>1 DEF Waiting, kind, need
    <3>3. need \in Nat /\ p \in Nat /\ Need(kind, engine) \in Nat
      BY <1>1, <1>2, <1>3, <2>1, EngineType DEF TypeOK, Refused
    <3>4. Need(kind, looks[1]) < Need(kind, engine)
      BY <2>2, <3>2, <3>3
    <3> QED BY <1>7, <1>11, <3>4 DEF Need
  <2>4. (result = Empty)'
    BY <1>14 DEF InVain
  <2> QED BY <1>9, <1>11, <2>3, <2>4, ComesBackEmpty DEF GetterInv
<1> QED BY <1>1, <1>5, <1>12, <1>13, <1>14 DEF Outcome, AsksAgain

(* The engine's steps touch nothing a getter has seen.                     *)
LEMMA EngineKeeps ==
  ASSUME GetterInv, EngineChanges \/ TorrentGoes
  PROVE  GetterInv'
<1>1. /\ UNCHANGED <<mem, cap, freed, call, result, looks, died>>
      /\ engine' \in Engine /\ good' \in BOOLEAN
  BY DEF GetterInv, TypeOK, EngineChanges, TorrentGoes
<1>2. TypeOK' /\ BeyondUntouched'
  BY <1>1 DEF GetterInv, TypeOK, BeyondUntouched
<1>3. ~Idle' => Waiting'
  BY <1>1 DEF GetterInv, Idle, Waiting, Expressible, Need
<1>4. Answers'
  BY <1>1 DEF GetterInv, Answers, ReturnsSnapshot, EmptyForAReason, Answered, Idle, Expressible, Need, Meaning
<1> QED BY <1>2, <1>3, <1>4 DEF GetterInv

(* A call that could not grow the buffer has thrown.                       *)
LEMMA NoMemoryKeeps ==
  ASSUME GetterInv, NEW kind \in Kinds, NEW need, NoMemory(kind, need)
  PROVE  GetterInv'
<1>1. /\ UNCHANGED <<engine, good, mem, cap, looks, died>> /\ freed' \in BOOLEAN
      /\ call' = [kind |-> kind, need |-> 0] /\ result' = Thrown("memory")
  BY DEF NoMemory
<1>2. call'.kind = kind /\ call'.need = 0 /\ result'.error = "memory"
  BY <1>1 DEF Thrown
<1>3. TypeOK' /\ BeyondUntouched'
  BY <1>1, <1>2 DEF GetterInv, TypeOK, BeyondUntouched
<1>4. Idle' /\ ~Answered'
  BY <1>2 DEF Idle, Answered
<1> QED BY <1>3, <1>4, NotAnswered DEF GetterInv

(* A call over a block that was given back promises nothing.               *)
LEMMA FreedKeeps ==
  ASSUME GetterInv, NEW kind \in Kinds, FirstIntoFreed(kind)
  PROVE  GetterInv'
<1>1. /\ UNCHANGED <<engine, good, mem, cap, freed>> /\ freed /\ looks' = <<engine>> /\ died' = ~good
      /\ call' = [kind |-> kind, need |-> 0]
  BY DEF FirstIntoFreed
<1>2. call'.kind = kind /\ call'.need = 0
  BY <1>1
<1>3. looks' \in Seq(Engine) /\ Len(looks') \in 1..2
  BY <1>1, LooksAre DEF GetterInv
<1>4. Len(looks') <= 2
  <2> DEFINE l == Len(looks')
  <2>1. l \in 1..2
    BY <1>3
  <2> HIDE DEF l
  <2>2. l <= 2
    BY <2>1
  <2> QED BY <2>2 DEF l
<1>5. TypeOK' /\ BeyondUntouched'
  BY <1>1, <1>2, <1>3, <1>4 DEF GetterInv, TypeOK, BeyondUntouched
<1>6. Idle' /\ ~Answered'
  BY <1>1, <1>2 DEF Idle, Answered
<1> QED BY <1>5, <1>6, NotAnswered DEF GetterInv

(* Nothing changes.                                                        *)
LEMMA StutterKeeps == ASSUME GetterInv, UNCHANGED vars PROVE GetterInv'
BY DEF vars, GetterInv, TypeOK, BeyondUntouched, Waiting, Answers, ReturnsSnapshot, EmptyForAReason,
       Answered, Idle, Expressible, Need, Meaning

(* GetterInv is inductive.                                                 *)
LEMMA GetterInvHolds == Spec => []GetterInv
<1>1. GetterInv /\ [Next]_vars => GetterInv'
  <2> SUFFICES ASSUME GetterInv, [Next]_vars PROVE GetterInv'
    OBVIOUS
  <2>1. CASE EngineChanges \/ TorrentGoes
    BY <2>1, EngineKeeps
  <2>2. ASSUME NEW kind \in Kinds, NEW junk \in Junk, First(kind, junk) PROVE GetterInv'
    BY <2>2, FirstKeeps
  <2>3. ASSUME NEW junk \in Junk, Retry(junk) PROVE GetterInv'
    BY <2>3, RetryKeeps
  <2>4. ASSUME NEW kind \in Kinds, NoMemory(kind, StatusCap) PROVE GetterInv'
    BY <2>4, NoMemoryKeeps
  <2>5. CASE ~Idle /\ NoMemory(call.kind, call.need)
    <3>1. call.kind \in Kinds
      BY <2>5 DEF GetterInv, Waiting
    <3> QED BY <2>5, <3>1, NoMemoryKeeps
  <2>6. ASSUME NEW kind \in Kinds, FirstIntoFreed(kind) PROVE GetterInv'
    BY <2>6, FreedKeeps
  <2>7. CASE UNCHANGED vars
    BY <2>7, StutterKeeps
  <2> QED BY <2>1, <2>2, <2>3, <2>4, <2>5, <2>6, <2>7 DEF Next
<1> QED BY InitInv, <1>1, PTL DEF Spec

-----------------------------------------------------------------------------
(***************************************************************************)
(* Every variable keeps its type, and the shim writes nowhere but in the   *)
(* block it was handed: the bytes after it keep their value, whatever the  *)
(* engine holds and however often the block is grown.                      *)
(***************************************************************************)
THEOREM WritesCorrect == Spec => []WritesInside
<1>1. GetterInv => WritesInside
  BY DEF GetterInv, WritesInside
<1> QED BY <1>1, GetterInvHolds, PTL

(***************************************************************************)
(* What a getter returns is what the engine held at its last look, read    *)
(* back through the bytes, or nothing, and nothing only for a reason: the  *)
(* torrent was bad, there was nothing, or the snapshot grew between the    *)
(* two looks.                                                              *)
(***************************************************************************)
THEOREM AnswersCorrect == Spec => []Answers
<1>1. GetterInv => Answers
  BY DEF GetterInv
<1> QED BY <1>1, GetterInvHolds, PTL
=============================================================================
