------------------------- MODULE OnionTransfer_proofs -------------------------
(***************************************************************************)
(* Theorems about quickshare's private transfer, for any shares, edits,    *)
(* requests and foreign streams, every cut of a stream into reads, and any *)
(* number of callers and faults:                                           *)
(*   BooksCorrect  gate, rows, file handles, watchdogs and temporary files *)
(*                 agree, and a read leaves less than a frame in the buffer *)
(*   DeliveredCorrect  what is saved is what was promised and shared, and    *)
(*                 what the sender counts as sent went out whole             *)
(*   FailsForAReasonCorrect  a download fails for the stream, the file, the  *)
(*                 disk or a lost rest, never for where reads were cut       *)
(*                                                                         *)
(* What a read does with the buffer is a recursive function; its facts are *)
(* by induction, in the form of sets: a set of naturals has a least one.   *)
(***************************************************************************)
EXTENDS OnionTransfer, SequenceTheorems, WellFoundedInduction, TLAPS

-----------------------------------------------------------------------------
(* Induction, and the existence of what is defined by steps.               *)
LEMMA Least ==
  ASSUME NEW T, T \subseteq Nat, T # {}
  PROVE  \E x \in T : \A y \in T : x <= y
<1> DEFINE R == {p \in Nat \X Nat : p[1] < p[2]}
<1>1. IsWellFoundedOn(R, Nat)
  BY NatLessThanWellFounded DEF OpToRel
<1>2. PICK x \in T : \A y \in T : ~(<<y, x>> \in R)
  <2> HIDE DEF R
  <2> QED BY <1>1, WFMin
<1>3. \A y \in T : <<y, x>> \in R <=> y < x
  OBVIOUS
<1>4. x \in Nat /\ \A y \in T : y \in Nat /\ ~(y < x)
  BY <1>2, <1>3
<1> QED BY <1>4

LEMMA Upto ==
  ASSUME NEW N \in Nat, NEW G \in SUBSET (0..N), 0 \in G, \A k \in 1..N : k - 1 \in G => k \in G
  PROVE  G = 0..N
<1> DEFINE B == (0..N) \ G
<1> SUFFICES ASSUME B # {} PROVE FALSE
  OBVIOUS
<1>0. B \subseteq Nat
  OBVIOUS
<1>1. PICK n \in B : \A m \in B : n <= m
  <2> HIDE DEF B
  <2> QED BY <1>0, Least
<1>2. n \in 1..N /\ n - 1 \in 0..N /\ ~(n <= n - 1)
  BY <1>1
<1> QED BY <1>1, <1>2

Iterates(h, F, r, N) == h[0] = r /\ \A k \in 1..N : h[k] = F[h[k - 1]]

LEMMA Iteration ==
  ASSUME NEW S, NEW F \in [S -> S], NEW r \in S, NEW N \in Nat
  PROVE  \E h \in [0..N -> S] : Iterates(h, F, r, N)
<1> DEFINE Good(n) == \E h \in [0..n -> S] : h[0] = r /\ \A k \in 1..n : h[k] = F[h[k - 1]]
           G == {n \in 0..N : Good(n)}
<1>1. Good(0)
  <2>1. [k \in 0..0 |-> r] \in [0..0 -> S] /\ [k \in 0..0 |-> r][0] = r
    OBVIOUS
  <2> DEFINE z == [k \in 0..0 |-> r]
  <2>2. \A k \in 1..0 : z[k] = F[z[k - 1]]
    OBVIOUS
  <2> QED BY <2>1, <2>2
<1>2. ASSUME NEW n \in 1..N, Good(n - 1) PROVE Good(n)
  <2>1. PICK h \in [0..(n - 1) -> S] : h[0] = r /\ \A k \in 1..(n - 1) : h[k] = F[h[k - 1]]
    BY <1>2
  <2> DEFINE g == [k \in 0..n |-> IF k = n THEN F[h[n - 1]] ELSE h[k]]
  <2>2. g \in [0..n -> S]
    OBVIOUS
  <2>3. g[0] = r /\ \A k \in 1..n : g[k] = F[g[k - 1]]
    BY <2>1
  <2> QED BY <2>2, <2>3
<1> HIDE DEF Good
<1>3. G = 0..N
  <2>1. 0 \in G /\ \A k \in 1..N : k - 1 \in G => k \in G
    BY <1>1, <1>2
  <2> HIDE DEF G
  <2>2. G \in SUBSET (0..N)
    BY DEF G
  <2> QED BY <2>1, <2>2, Upto
<1>4. Good(N)
  BY <1>3
<1> QED BY <1>4 DEF Good, Iterates

-----------------------------------------------------------------------------
(* The receiver's record.                                                  *)
Cells == Seq(Nat)
Files == Cells \cup {NoFile}

(* What a browser or an app says, in words.                                 *)
Words == {"", "B", "TXO"} \cup UNION {{q[i] : i \in 1..Len(q)} : q \in Requests}

Rcv == [who : {"none", "app", "browser", "stranger"}, asks : Words, lib : {"none", "dialing", "open", "gone"},
        state : {"", "header", "body", "done"}, buf : Cells, key : BOOLEAN, enc : Nat, total : Nat, got : Nat,
        named : BOOLEAN, tmp : Files, saved : Files, fresh : BOOLEAN, watch : BOOLEAN,
        row : {"", "connecting", "active", "done", "error"}]

(* Inside a handler: a download at its header, one that writes, one that    *)
(* was aborted.                                                            *)
AtHeader(r)  == r.state = "header" /\ r.row = "connecting" /\ ~r.named /\ r.tmp = NoFile /\ r.watch
               /\ r.got = 0
Writing(r)   == r.state \in {"body", "done"} /\ r.row = "active" /\ r.named /\ r.watch
                /\ r.tmp \in Cells /\ Len(r.tmp) = r.got
Aborted(r, bad) == r.state = "" /\ r.row = "error" /\ ~r.named /\ r.buf = <<>> /\ (r.tmp # NoFile => bad # "none")

Same(x, r) == x.who = r.who /\ x.key = r.key /\ x.asks = r.asks /\ x.watch = r.watch

LEMMA Constants ==
  /\ Magic \in Nat /\ Radix \in Nat /\ MaxTotal \in Nat /\ MaxRequest \in Nat
  /\ Chunk \in Nat \ {0} /\ Radix # 0
  /\ HeaderCells = 3 /\ PrologueCells = 2 /\ LengthCells = 2
  /\ NoFile \notin Cells
<1>1. Magic \in Nat /\ Radix \in Nat /\ MaxTotal \in Nat /\ MaxRequest \in Nat /\ NoFile \notin Cells
      /\ Chunk \in 1..(Radix * Radix - 1)
  BY TransferAssumption DEF Cells
<1>2. Radix # 0
  BY <1>1
<1>3. Radix * Radix - 1 \in Int
  BY <1>1
<1> QED BY <1>1, <1>2, <1>3 DEF HeaderCells, PrologueCells, LengthCells

LEMMA AbortIs ==
  ASSUME NEW bad, NEW r \in Rcv, r.named \/ r.tmp = NoFile
  PROVE  /\ RecvAbort(r, bad) \in Rcv /\ Aborted(RecvAbort(r, bad), bad) /\ Same(RecvAbort(r, bad), r)
         /\ RecvAbort(r, bad).lib = "gone"
<1>1. <<>> \in Cells /\ NoFile \in Files /\ 0 \in Nat
  BY DEF Cells, Files
<1> DEFINE x == RecvAbort(r, bad)
<1>2. x \in Rcv
  BY <1>1 DEF Rcv, RecvAbort, RecvClear
<1>3. /\ x.state = "" /\ x.row = "error" /\ ~x.named /\ x.buf = <<>> /\ x.lib = "gone"
      /\ x.who = r.who /\ x.key = r.key /\ x.asks = r.asks /\ x.watch = r.watch
  BY DEF Rcv, RecvAbort, RecvClear
<1>4. x.tmp = IF r.named /\ bad # "delete" THEN NoFile ELSE r.tmp
  BY DEF Rcv, RecvAbort, RecvClear
<1> HIDE DEF x
<1>5. x.tmp # NoFile => bad # "none"
  BY <1>4
<1> QED BY <1>2, <1>3, <1>5 DEF Aborted, Same, x

LEMMA DropIs ==
  ASSUME NEW q \in Cells, NEW n \in 0..Len(q)
  PROVE  Drop(q, n) \in Cells /\ Len(Drop(q, n)) = Len(q) - n
         /\ \A i \in 1..(Len(q) - n) : Drop(q, n)[i] = q[n + i]
BY DEF Cells, Drop

Mid(r, bad) == r \in Rcv /\ (AtHeader(r) \/ Writing(r) \/ Aborted(r, bad))

(* What is left in the buffer is less than a frame.                         *)
Partial(r) == r.state = "body" => Len(r.buf) < LengthCells + Chunk

(* A round writes a frame, ends at the terminator, gives up, or leaves the  *)
(* record as it is, for good. In each other case the buffer gets shorter.   *)
LEMMA FrameStepIs ==
  ASSUME NEW bad, NEW r, Mid(r, bad)
  PROVE  /\ Mid(FrameStep(r, bad), bad) /\ Same(FrameStep(r, bad), r)
         /\ Len(FrameStep(r, bad).buf) < Len(r.buf) \/ (FrameStep(r, bad) = r /\ Partial(r))
         /\ r.state # "body" \/ FrameStep(r, bad).state = "header" => FrameStep(r, bad) = r
<1> DEFINE n == r.buf[1] * Radix + r.buf[2]
           y == FrameStep(r, bad)
           z == [r EXCEPT !.tmp = @ \o SubSeq(r.buf, LengthCells + 1, LengthCells + n),
                          !.got = @ + n, !.buf = Drop(@, LengthCells + n)]
<1>0. r \in Rcv /\ Same(r, r)
  BY DEF Mid, Same
<1>1. CASE r.state # "body" \/ Len(r.buf) < LengthCells
  <2>1. y = r
    BY <1>1 DEF FrameStep
  <2>2. r.buf \in Cells
    BY <1>0 DEF Rcv
  <2>3. Len(r.buf) < LengthCells => Len(r.buf) < LengthCells + Chunk
    BY <2>2, Constants DEF Cells
  <2> QED BY <1>0, <1>1, <2>1, <2>3 DEF Partial
<1>2. CASE r.state = "body" /\ ~(Len(r.buf) < LengthCells)
  <2>1. r.buf \in Cells /\ Len(r.buf) \in Nat /\ Len(r.buf) >= 2 /\ Writing(r)
    <3>1. r.buf \in Cells
      BY <1>0 DEF Rcv
    <3>3. Len(r.buf) \in Nat
      BY <3>1 DEF Cells
    <3>2. Writing(r)
      BY <1>2 DEF Mid, AtHeader, Aborted
    <3> QED BY <1>2, <3>1, <3>2, <3>3, Constants
  <2>2. n \in Nat
    <3>1. r.buf[1] \in Nat /\ r.buf[2] \in Nat
      BY <2>1 DEF Cells
    <3>2. \A a, b \in Nat : a * Radix + b \in Nat
      BY Constants
    <3> QED BY <3>1, <3>2
  <2> HIDE DEF n
  <2>3. CASE n = 0
    <3>1. y = [r EXCEPT !.buf = Drop(@, LengthCells), !.state = "done"]
      BY <1>2, <2>3 DEF FrameStep, n
    <3>2. Drop(r.buf, LengthCells) \in Cells /\ Len(Drop(r.buf, LengthCells)) < Len(r.buf)
      BY <2>1, DropIs, Constants
    <3> HIDE DEF y
    <3>3. y \in Rcv
      BY <1>0, <3>1, <3>2 DEF Rcv
    <3>4. /\ y.state = "done" /\ y.row = r.row /\ y.named = r.named /\ y.watch = r.watch /\ y.tmp = r.tmp
          /\ y.got = r.got /\ y.who = r.who /\ y.key = r.key /\ y.asks = r.asks /\ y.buf = Drop(r.buf, LengthCells)
      BY <1>0, <3>1 DEF Rcv
    <3>5. Writing(y) /\ Same(y, r)
      BY <2>1, <3>4 DEF Writing, Same
    <3> QED BY <1>2, <3>2, <3>3, <3>4, <3>5 DEF Mid, y
  <2>4. ASSUME y = RecvAbort(r, bad) PROVE Mid(y, bad) /\ Same(y, r) /\ Len(y.buf) < Len(r.buf) /\ y.state # "header"
    <3>1. y \in Rcv /\ Aborted(y, bad) /\ Same(y, r)
      BY <1>0, <2>1, <2>4, AbortIs DEF Writing
    <3> HIDE DEF y
    <3>2. y.buf = <<>> /\ Len(<<>>) = 0
      BY <3>1 DEF Aborted
    <3>3. Mid(y, bad) /\ y.state # "header"
      BY <3>1 DEF Mid, Aborted
    <3> QED BY <2>1, <3>1, <3>2, <3>3, Constants
  <2>5. CASE n # 0 /\ (n > Chunk \/ (~(Len(r.buf) < LengthCells + n) /\ bad = "write"))
    <3>1. y = RecvAbort(r, bad)
      BY <1>2, <2>5 DEF FrameStep, n
    <3> QED BY <1>2, <2>4, <3>1
  <2>6. CASE n # 0 /\ ~(n > Chunk) /\ Len(r.buf) < LengthCells + n
    <3>1. y = r
      BY <1>2, <2>6 DEF FrameStep, n
    <3>2. Len(r.buf) < LengthCells + Chunk
      BY <2>1, <2>2, <2>6, Constants
    <3> QED BY <1>0, <1>2, <3>1, <3>2 DEF Partial
  <2>7. CASE n # 0 /\ ~(n > Chunk) /\ ~(Len(r.buf) < LengthCells + n) /\ bad # "write"
    <3>1. y = z
      BY <1>2, <2>7 DEF FrameStep, n
    <3> DEFINE f == SubSeq(r.buf, LengthCells + 1, LengthCells + n)
               d == Drop(r.buf, LengthCells + n)
    <3>2. LengthCells + n \in 0..Len(r.buf)
      BY <2>1, <2>2, <2>7, Constants
    <3>3. d \in Cells /\ Len(d) < Len(r.buf)
      BY <2>1, <2>2, <3>2, DropIs, Constants
    <3>4. f \in Cells /\ Len(f) = n
      BY <2>1, <2>2, <3>2, Constants DEF Cells
    <3>5. r.tmp \in Cells /\ r.got = Len(r.tmp) /\ r.got \in Nat
      BY <1>0, <2>1 DEF Writing, Rcv
    <3>6. r.tmp \o f \in Cells /\ Len(r.tmp \o f) = r.got + n /\ r.got + n \in Nat
      BY <2>2, <3>4, <3>5 DEF Cells
    <3>7. y = [r EXCEPT !.tmp = r.tmp \o f, !.got = r.got + n, !.buf = d]
      BY <3>1
    <3> HIDE DEF y, f, d
    <3>8. y \in Rcv
      BY <1>0, <3>3, <3>6, <3>7 DEF Rcv, Files
    <3>9. /\ y.state = r.state /\ y.row = r.row /\ y.named = r.named /\ y.watch = r.watch /\ y.tmp = r.tmp \o f
          /\ y.got = r.got + n /\ y.who = r.who /\ y.key = r.key /\ y.asks = r.asks /\ y.buf = d
      BY <1>0, <3>7 DEF Rcv
    <3>10. Writing(y) /\ Same(y, r)
      BY <2>1, <3>6, <3>9 DEF Writing, Same
    <3> QED BY <1>2, <3>3, <3>8, <3>9, <3>10 DEF Mid, y
  <2> QED BY <1>2, <2>3, <2>5, <2>6, <2>7
<1> QED BY <1>1, <1>2

(* The rounds of the loop, as a sequence of records.                        *)
Rounds(h, r, bad) ==
  /\ h \in [0..Len(r.buf) -> {x \in Rcv : Mid(x, bad)}] /\ h[0] = r
  /\ \A k \in 1..Len(r.buf) : h[k] = FrameStep(h[k - 1], bad)

LEMMA DrainedIs ==
  ASSUME NEW bad, NEW r, Mid(r, bad)
  PROVE  \E h : Rounds(h, r, bad) /\ Drained(r, bad) = h[Len(r.buf)]
<1> DEFINE N == Len(r.buf)
           S == {x \in Rcv : Mid(x, bad)}
           F == [x \in S |-> FrameStep(x, bad)]
           Eq(g) == g = [k \in 0..N |-> IF k = 0 THEN r ELSE FrameStep(g[k - 1], bad)]
           g == CHOOSE x : Eq(x)
<1>1. N \in Nat /\ r \in S
  <2>1. r \in Rcv /\ r.buf \in Cells
    BY DEF Mid, Rcv
  <2> QED BY <2>1 DEF Cells
<1>2. F \in [S -> S]
  BY FrameStepIs DEF Mid
<1>3. \E h \in [0..N -> S] : Iterates(h, F, r, N)
  <2> HIDE DEF N, S, F
  <2> QED BY <1>1, <1>2, Iteration
<1>4. PICK h \in [0..N -> S] : h[0] = r /\ \A k \in 1..N : h[k] = F[h[k - 1]]
  BY <1>3 DEF Iterates
<1>5. ASSUME NEW k \in 1..N PROVE h[k] = FrameStep(h[k - 1], bad)
  <2>1. k - 1 \in 0..N
    BY <1>1
  <2>2. h[k - 1] \in S /\ h[k] = F[h[k - 1]]
    BY <1>4, <2>1
  <2> QED BY <2>2
<1>6. Eq(h)
  <2> HIDE DEF S, N
  <2> QED BY <1>1, <1>4, <1>5
<1>7. Eq(g)
  BY <1>6
<1>8. g = h
  <2> DEFINE G == {k \in 0..N : g[k] = h[k]}
  <2>0. g = [k \in 0..N |-> IF k = 0 THEN r ELSE FrameStep(g[k - 1], bad)]
    BY <1>7
  <2> HIDE DEF g, N
  <2>1. 0 \in G
    BY <1>1, <1>4, <2>0
  <2>2. \A k \in 1..N : k - 1 \in G => k \in G
    BY <1>1, <1>5, <2>0
  <2>3. G = 0..N
    <3> HIDE DEF N, g
    <3>1. G \in SUBSET (0..N)
      OBVIOUS
    <3> HIDE DEF G
    <3> QED BY <1>1, <2>1, <2>2, <3>1, Upto
  <2>4. DOMAIN g = 0..N /\ DOMAIN h = 0..N
    BY <1>4, <1>7
  <2> QED BY <1>6, <1>7, <2>0, <2>3, <2>4
<1>9. Drained(r, bad) = g[N]
  BY DEF Drained
<1> QED BY <1>4, <1>5, <1>8, <1>9 DEF Rounds

(* After as many rounds as the buffer has cells no whole frame is in it.    *)
LEMMA DrainedMid ==
  ASSUME NEW bad, NEW r, Mid(r, bad)
  PROVE  /\ Mid(Drained(r, bad), bad) /\ Same(Drained(r, bad), r) /\ Partial(Drained(r, bad))
         /\ r.state # "body" \/ Drained(r, bad).state = "header" => Drained(r, bad) = r
<1> DEFINE N == Len(r.buf)
<1>1. PICK h : Rounds(h, r, bad) /\ Drained(r, bad) = h[N]
  BY DrainedIs
<1>2. N \in Nat
  <2>1. r.buf \in Cells
    BY DEF Mid, Rcv
  <2> QED BY <2>1 DEF Cells
<1>3. \A k \in 0..N : Mid(h[k], bad) /\ Len(h[k].buf) \in Nat
  <2>1. \A k \in 0..N : h[k] \in Rcv /\ Mid(h[k], bad)
    BY <1>1 DEF Rounds
  <2>2. \A k \in 0..N : h[k].buf \in Cells
    BY <2>1 DEF Rcv
  <2> QED BY <2>1, <2>2 DEF Cells
<1> DEFINE Settled(x) == FrameStep(x, bad) = x /\ Partial(x)
           Ok(k) == /\ Same(h[k], r)
                    /\ Settled(h[k]) \/ Len(h[k].buf) <= N - k
                    /\ r.state # "body" \/ h[k].state = "header" => h[k] = r
           G == {k \in 0..N : Ok(k)}
<1>4. Ok(0)
  <2>1. h[0] = r
    BY <1>1 DEF Rounds
  <2> QED BY <1>2, <2>1 DEF Same
<1>5. ASSUME NEW k \in 1..N, Ok(k - 1) PROVE Ok(k)
  <2>1. h[k] = FrameStep(h[k - 1], bad)
    BY <1>1 DEF Rounds
  <2>2. k - 1 \in 0..N /\ k \in 0..N
    BY <1>2
  <2> HIDE DEF N
  <2>3. Mid(h[k - 1], bad) /\ Len(h[k - 1].buf) \in Nat /\ Len(h[k].buf) \in Nat
    BY <1>3, <2>2
  <2>4. /\ Same(h[k], h[k - 1])
        /\ Len(h[k].buf) < Len(h[k - 1].buf) \/ (h[k] = h[k - 1] /\ Partial(h[k - 1]))
        /\ h[k - 1].state # "body" \/ h[k].state = "header" => h[k] = h[k - 1]
    BY <2>1, <2>3, FrameStepIs
  <2>5. Same(h[k], r) /\ (r.state # "body" \/ h[k].state = "header" => h[k] = r)
    BY <1>5, <2>4 DEF Same
  <2>6. CASE Settled(h[k - 1])
    BY <2>1, <2>5, <2>6
  <2>7. CASE Len(h[k - 1].buf) <= N - (k - 1)
    <3>1. CASE h[k] = h[k - 1] /\ Partial(h[k - 1])
      BY <2>1, <2>5, <3>1
    <3>2. CASE Len(h[k].buf) < Len(h[k - 1].buf)
      <4>1. Len(h[k].buf) <= N - k
        BY <1>2, <2>3, <2>7, <3>2
      <4> QED BY <2>5, <4>1
    <3> QED BY <2>4, <3>1, <3>2
  <2> QED BY <1>5, <2>6, <2>7
<1> HIDE DEF Ok
<1>6. Ok(N)
  <2>1. 0 \in G /\ \A k \in 1..N : k - 1 \in G => k \in G
    BY <1>2, <1>4, <1>5
  <2>2. G \in SUBSET (0..N)
    OBVIOUS
  <2> HIDE DEF G, N
  <2>3. G = 0..N
    BY <1>2, <2>1, <2>2, Upto
  <2>4. N \in G
    BY <1>2, <2>3
  <2> QED BY <2>4 DEF G
<1>7. Partial(h[N])
  <2>1. CASE Settled(h[N])
    BY <2>1
  <2>2. CASE Len(h[N].buf) <= N - N
    <3>1. Len(h[N].buf) < LengthCells + Chunk
      BY <1>2, <1>3, <2>2, Constants
    <3> QED BY <3>1 DEF Partial
  <2> QED BY <1>6, <2>1, <2>2 DEF Ok
<1>8. Same(h[N], r) /\ (r.state # "body" \/ h[N].state = "header" => h[N] = r)
  BY <1>6 DEF Ok
<1> QED BY <1>1, <1>2, <1>3, <1>7, <1>8

-----------------------------------------------------------------------------
(* A read, from one state at rest to the next.                             *)
Rest(r) ==
  /\ r \in Rcv
  /\ \/ AtHeader(r) /\ Len(r.buf) < HeaderCells
     \/ Writing(r) /\ r.state = "body" /\ Len(r.buf) < LengthCells + Chunk
     \/ r.state = "" /\ r.row \notin {"connecting", "active"} /\ ~r.named /\ r.buf = <<>>

LEMMA ParseHeaderIs ==
  ASSUME NEW bad, NEW r \in Rcv, AtHeader(r)
  PROVE  /\ Mid(ParseHeader(r, bad), bad) /\ Same(ParseHeader(r, bad), r)
         /\ ParseHeader(r, bad).state = "header" => Len(ParseHeader(r, bad).buf) < HeaderCells
         /\ ParseHeader(r, bad).state # "done"
<1> DEFINE y == ParseHeader(r, bad)
           agreed == r.buf[3] <= MaxTotal /\ r.buf[2] = Flag(r.key)
           room   == bad # "open" /\ (bad = "space" => r.buf[3] = 0)
           ok     == r.buf[1] = Magic /\ r.buf[2] \in {0, 1}
           z == [r EXCEPT !.enc = r.buf[2], !.total = r.buf[3], !.named = TRUE, !.tmp = <<>>,
                          !.buf = Drop(@, HeaderCells), !.state = "body", !.row = "active"]
<1>1. r.buf \in Cells
  BY DEF Rcv
<1>2. Len(r.buf) \in Nat
  BY <1>1 DEF Cells
<1>3. \/ y = r /\ Len(r.buf) < HeaderCells
      \/ y = RecvAbort(r, bad)
      \/ y = z /\ ~(Len(r.buf) < HeaderCells) /\ ok
  <2> HIDE DEF agreed, room
  <2>1. y = IF Len(r.buf) < PrologueCells THEN r
            ELSE IF ~ok THEN RecvAbort(r, bad)
            ELSE IF Len(r.buf) < HeaderCells THEN r
            ELSE IF ~agreed \/ ~room THEN RecvAbort(r, bad) ELSE z
    BY DEF ParseHeader, agreed, room
  <2>2. Len(r.buf) < PrologueCells => Len(r.buf) < HeaderCells
    BY <1>2, Constants
  <2> HIDE DEF y, z, ok
  <2> QED BY <2>1, <2>2
<1>4. CASE y = r /\ Len(r.buf) < HeaderCells
  <2> HIDE DEF y
  <2>1. Mid(y, bad) /\ Same(y, r) /\ y.state # "done"
    BY <1>4 DEF Mid, Same, AtHeader
  <2> QED BY <1>4, <2>1 DEF y
<1>5. CASE y = RecvAbort(r, bad)
  <2> HIDE DEF y
  <2>1. y \in Rcv /\ Aborted(y, bad) /\ Same(y, r)
    BY <1>5, AbortIs DEF AtHeader
  <2> QED BY <2>1 DEF Mid, Aborted, y
<1>6. CASE y = z /\ ~(Len(r.buf) < HeaderCells) /\ ok
  <2>1. Len(r.buf) >= 3 /\ 3 \in 0..Len(r.buf)
    BY <1>2, <1>6, Constants
  <2>2. r.buf[2] \in Nat /\ r.buf[3] \in Nat
    BY <1>1, <2>1 DEF Cells
  <2> DEFINE d == Drop(r.buf, HeaderCells)
  <2>3. d \in Cells
    BY <1>1, <2>1, DropIs, Constants
  <2>4. y = [r EXCEPT !.enc = r.buf[2], !.total = r.buf[3], !.named = TRUE, !.tmp = <<>>,
                      !.buf = d, !.state = "body", !.row = "active"]
    BY <1>6
  <2>5. <<>> \in Cells /\ Len(<<>>) = 0
    BY DEF Cells
  <2> HIDE DEF d, y
  <2>6. y \in Rcv
    BY <2>2, <2>3, <2>4, <2>5 DEF Rcv, Files
  <2>7. /\ y.state = "body" /\ y.row = "active" /\ y.named /\ y.watch = r.watch /\ y.tmp = <<>> /\ y.got = r.got
        /\ y.who = r.who /\ y.key = r.key /\ y.asks = r.asks
    BY <2>4 DEF Rcv
  <2>8. r.watch /\ r.got = 0
    BY DEF AtHeader
  <2>9. Writing(y) /\ Same(y, r)
    BY <2>5, <2>7, <2>8 DEF Writing, Same
  <2> QED BY <2>6, <2>7, <2>9 DEF Mid, y
<1> QED BY <1>3, <1>4, <1>5, <1>6

(* A temporary file outlives its download only when a disk fails.          *)
Unmoved(r, bad) == r.tmp # NoFile => r.row \in {"done", "error"} /\ bad # "none"
Left(r, r0, bad) == r.state = "body" \/ Unmoved(r, bad) \/ (r0.state = "" /\ r = r0)

LEMMA UnlockIs ==
  ASSUME NEW c \in Cells, Unlockable(c)
  PROVE  Unlock(c) \in Cells
<1>1. Len(c) \in Nat /\ 1 \in 0..Len(c)
  BY DEF Unlockable, Cells
<1> QED BY <1>1, DropIs DEF Unlock

(* What a receiver that has all it will get makes of it.                    *)
LEMMA FinishIs ==
  ASSUME NEW bad, NEW r \in Rcv, Writing(r)
  PROVE  LET y == RecvFinish(r, bad) IN
         /\ y \in Rcv /\ Same(y, r) /\ y.state = "" /\ y.buf = <<>> /\ ~y.named /\ y.lib = "gone"
         /\ y.row \in {"done", "error"} /\ (y.tmp # NoFile => bad # "none")
         /\ y.row = "done" => /\ r.got = r.total
                              /\ r.enc = 0 => y.saved = r.tmp
                              /\ r.enc # 0 => Unlockable(r.tmp) /\ y.saved = Unlock(r.tmp)
         /\ r.got = r.total /\ bad = "none" /\ (r.enc # 0 => Unlockable(r.tmp)) => y.row = "done"
<1> DEFINE y     == RecvFinish(r, bad)
           r1    == [RecvClear(r) EXCEPT !.lib = "gone"]
           fails == bad = "land" \/ (r.enc # 0 /\ ~Unlockable(r.tmp))
           stays == IF r.enc = 0 THEN fails ELSE bad = "delete"
           left  == IF stays THEN r.tmp ELSE NoFile
           kept  == IF r.enc = 0 THEN r.tmp ELSE Unlock(r.tmp)
<1>1. <<>> \in Cells /\ NoFile \in Files /\ 0 \in Nat /\ r.tmp \in Cells /\ r.tmp \in Files
  BY DEF Cells, Files, Writing
<1>2. r1 \in Rcv
  BY <1>1 DEF Rcv, RecvClear
<1>3. /\ r1.state = "" /\ r1.buf = <<>> /\ ~r1.named /\ r1.lib = "gone"
      /\ r1.who = r.who /\ r1.key = r.key /\ r1.asks = r.asks /\ r1.watch = r.watch
  BY DEF Rcv, RecvClear
<1>4. left \in Files /\ (left # NoFile => bad # "none")
  BY <1>1
<1>5. r.got # r.total => y = RecvAbort(r, bad)
  BY DEF RecvFinish
<1>6. r.got = r.total /\ fails => y = [r1 EXCEPT !.row = "error", !.tmp = left]
  BY DEF RecvFinish
<1>7. r.got = r.total /\ ~fails => y = [r1 EXCEPT !.row = "done", !.tmp = left, !.saved = kept]
  BY DEF RecvFinish
<1>8. ~fails => kept \in Files
  BY <1>1, UnlockIs DEF Files
<1>9. fails => bad # "none" \/ ~(r.enc # 0 => Unlockable(r.tmp))
  OBVIOUS
<1>10. ~fails => (r.enc = 0 => kept = r.tmp) /\ (r.enc # 0 => Unlockable(r.tmp) /\ kept = Unlock(r.tmp))
  OBVIOUS
<1> HIDE DEF y, r1, left, kept, fails
<1>11. CASE r.got # r.total
  <2>1. y \in Rcv /\ Aborted(y, bad) /\ Same(y, r) /\ y.lib = "gone"
    BY <1>5, <1>11, AbortIs DEF Writing
  <2> QED BY <1>11, <2>1 DEF Aborted, y
<1>12. CASE r.got = r.total /\ fails
  <2>1. y = [r1 EXCEPT !.row = "error", !.tmp = left]
    BY <1>6, <1>12
  <2>2. y \in Rcv
    BY <1>2, <1>4, <2>1 DEF Rcv
  <2>3. /\ y.state = "" /\ y.buf = <<>> /\ ~y.named /\ y.lib = "gone" /\ y.row = "error" /\ y.tmp = left
        /\ y.who = r.who /\ y.key = r.key /\ y.asks = r.asks /\ y.watch = r.watch
    BY <1>2, <1>3, <2>1 DEF Rcv
  <2> QED BY <1>4, <1>9, <1>12, <2>2, <2>3 DEF Same, y
<1>13. CASE r.got = r.total /\ ~fails
  <2>1. y = [r1 EXCEPT !.row = "done", !.tmp = left, !.saved = kept]
    BY <1>7, <1>13
  <2>2. y \in Rcv
    BY <1>2, <1>4, <1>8, <1>13, <2>1 DEF Rcv
  <2>3. /\ y.state = "" /\ y.buf = <<>> /\ ~y.named /\ y.lib = "gone" /\ y.row = "done" /\ y.tmp = left
        /\ y.saved = kept /\ y.who = r.who /\ y.key = r.key /\ y.asks = r.asks /\ y.watch = r.watch
    BY <1>2, <1>3, <2>1 DEF Rcv
  <2> QED BY <1>4, <1>10, <1>13, <2>2, <2>3 DEF Same, y
<1> QED BY <1>11, <1>12, <1>13

LEMMA RecvFinishIs ==
  ASSUME NEW bad, NEW r \in Rcv, Writing(r)
  PROVE  /\ Rest(RecvFinish(r, bad)) /\ Same(RecvFinish(r, bad), r)
         /\ RecvFinish(r, bad).state = ""
         /\ Unmoved(RecvFinish(r, bad), bad)
<1> DEFINE y == RecvFinish(r, bad)
<1>1. /\ y \in Rcv /\ Same(y, r) /\ y.state = "" /\ y.buf = <<>> /\ ~y.named
      /\ y.row \in {"done", "error"} /\ (y.tmp # NoFile => bad # "none")
  BY FinishIs
<1> QED BY <1>1 DEF Rest, Unmoved

(* The stages of a read.                                                    *)
Taken(r, data)   == [r EXCEPT !.buf = @ \o data, !.fresh = TRUE]
Parsed(r, bad)   == IF r.state = "header" THEN ParseHeader(r, bad) ELSE r
Complete(r)      == r.state = "done" \/ (r.state = "body" /\ r.got >= r.total)

LEMMA RecvDataStages ==
  ASSUME NEW bad, NEW r, NEW data, r.state \notin {"", "done"}
  PROVE  LET r3 == Drained(Parsed(Taken(r, data), bad), bad)
         IN  RecvData(r, data, bad) = IF Complete(r3) THEN RecvFinish(r3, bad) ELSE r3
BY DEF RecvData, Taken, Parsed, Complete

LEMMA TakenIs ==
  ASSUME NEW bad, NEW r, Rest(r), r.state # "", NEW data \in Cells
  PROVE  /\ Mid(Taken(r, data), bad) /\ Same(Taken(r, data), r)
         /\ Taken(r, data).state \in {"header", "body"} /\ Taken(r, data).buf = r.buf \o data
         /\ r.state = "header" => AtHeader(Taken(r, data))
<1> DEFINE y == Taken(r, data)
<1>1. r \in Rcv /\ r.buf \o data \in Cells
  <2>1. r \in Rcv
    BY DEF Rest
  <2>2. r.buf \in Cells
    BY <2>1 DEF Rcv
  <2>3. r.buf \o data \in Cells
    BY <2>2, ConcatProperties DEF Cells
  <2> QED BY <2>1, <2>3
<1>2. y = [r EXCEPT !.buf = r.buf \o data, !.fresh = TRUE]
  BY DEF Taken
<1> HIDE DEF y
<1>3. y \in Rcv
  BY <1>1, <1>2 DEF Rcv
<1>4. /\ y.state = r.state /\ y.row = r.row /\ y.named = r.named /\ y.watch = r.watch /\ y.tmp = r.tmp
      /\ y.got = r.got /\ y.who = r.who /\ y.key = r.key /\ y.asks = r.asks /\ y.buf = r.buf \o data
  BY <1>1, <1>2 DEF Rcv
<1>5. (r.state = "header" /\ AtHeader(r)) \/ (r.state = "body" /\ Writing(r))
  BY DEF Rest, AtHeader
<1> QED BY <1>3, <1>4, <1>5 DEF Mid, Same, AtHeader, Writing, y

LEMMA RecvDataIs ==
  ASSUME NEW bad, NEW r, Rest(r), NEW data \in Cells
  PROVE  Rest(RecvData(r, data, bad)) /\ Same(RecvData(r, data, bad), r) /\ Left(RecvData(r, data, bad), r, bad)
<1>1. CASE r.state = ""
  <2>1. RecvData(r, data, bad) = r
    BY <1>1 DEF RecvData
  <2> QED BY <1>1, <2>1 DEF Same, Left
<1>2. CASE r.state # ""
  <2> DEFINE r1 == Taken(r, data)
             r2 == Parsed(r1, bad)
             r3 == Drained(r2, bad)
             y  == RecvData(r, data, bad)
  <2>1. r.state \notin {"", "done"}
    BY <1>2 DEF Rest, AtHeader
  <2>2. y = IF Complete(r3) THEN RecvFinish(r3, bad) ELSE r3
    BY <2>1, RecvDataStages
  <2>3. /\ Mid(r1, bad) /\ Same(r1, r) /\ r1.state \in {"header", "body"}
    BY <1>2, TakenIs
  <2> HIDE DEF r1
  <2>4. Mid(r2, bad) /\ Same(r2, r) /\ r2.state # "done" /\ (r2.state = "header" => Len(r2.buf) < HeaderCells)
    <3>1. CASE r1.state = "header"
      <4>1. r1 \in Rcv /\ AtHeader(r1) /\ r2 = ParseHeader(r1, bad)
        BY <2>3, <3>1 DEF Mid, Writing, Aborted, Parsed
      <4> QED BY <2>3, <4>1, ParseHeaderIs DEF Same
    <3>2. CASE r1.state # "header"
      BY <2>3, <3>2 DEF Parsed
    <3> QED BY <3>1, <3>2
  <2> HIDE DEF r2
  <2>5. Mid(r3, bad) /\ Same(r3, r) /\ Partial(r3) /\ (r2.state # "body" \/ r3.state = "header" => r3 = r2)
    BY <2>4, DrainedMid DEF Same
  <2> HIDE DEF r3, y
  <2>6. CASE Complete(r3)
    <3>1. r3 \in Rcv /\ Writing(r3)
      BY <2>5, <2>6 DEF Mid, Complete, AtHeader, Aborted
    <3>2. y = RecvFinish(r3, bad)
      BY <2>2, <2>6
    <3>3. Rest(y) /\ Same(y, r3) /\ Unmoved(y, bad)
      <4>1. Rest(RecvFinish(r3, bad)) /\ Same(RecvFinish(r3, bad), r3)
        BY <3>1, RecvFinishIs
      <4>2. Unmoved(RecvFinish(r3, bad), bad)
        BY <3>1, RecvFinishIs
      <4> QED BY <3>2, <4>1, <4>2
    <3> QED BY <2>5, <3>3 DEF Left, Same, y
  <2>7. CASE ~Complete(r3)
    <3>1. y = r3 /\ y.state # "done"
      BY <2>2, <2>7 DEF Complete
    <3>2. CASE y.state = "header"
      <4>1. r2.state = "header"
        BY <2>5, <3>1, <3>2
      <4> QED BY <2>4, <2>5, <3>1, <3>2, <4>1 DEF Mid, Rest, AtHeader, Writing, Aborted, Left, Unmoved, y
    <3>3. CASE y.state # "header"
      BY <2>5, <3>1, <3>3 DEF Mid, Rest, AtHeader, Writing, Aborted, Partial, Left, Unmoved, y
    <3> QED BY <3>2, <3>3
  <2> QED BY <2>6, <2>7
<1> QED BY <1>1, <1>2

-----------------------------------------------------------------------------
(* The invariant: types, what holds of each stream, and the gate.           *)
Snd == [lib : {"none", "open", "gone"}, req : Seq(Words), row : {"", "active", "done", "error"},
        path : BOOLEAN, off : Nat, raw : BOOLEAN, fresh : BOOLEAN, pump : BOOLEAN, watch : BOOLEAN]

AppSays == Seq({"B", "TXO"})

Types ==
  /\ share \in Shares /\ file \in Files /\ faults \in 0..share.faults
  /\ tx \in [Streams -> Snd] /\ rx \in [Streams -> Rcv] /\ toTx \in [Streams -> Seq(Words)]
  /\ sent \in [Streams -> Seq(Int)] /\ fed \in [Streams -> Nat] /\ cut \in [Streams -> Int]

(* A stream before it is dialed; only apps and browsers are served; what is *)
(* sent to an app is cells, as an app asks for nothing else.                *)
Untouched(s) == rx[s] = NoRx /\ tx[s] = NoTx /\ sent[s] = <<>> /\ fed[s] = 0 /\ cut[s] = Lasting /\ toTx[s] = <<>>

StreamInv(s) ==
  /\ fed[s] \in 0..Arriving(s) /\ cut[s] <= Len(sent[s])
  /\ rx[s].who = "none" => Untouched(s)
  /\ rx[s].who # "browser" => sent[s] \in Cells
  /\ tx[s].lib # "none" => rx[s].who \in {"app", "browser"}
  /\ rx[s].who = "app" => toTx[s] \in AppSays /\ tx[s].req \in AppSays

RecvInv(s) ==
  /\ Rest(rx[s])
  /\ rx[s].state # "" => rx[s].who \in {"app", "stranger"}
  /\ rx[s].tmp # NoFile => rx[s].state = "body" \/ (Ended(s) /\ s \in badDisk)

SendInv(s) ==
  /\ tx[s].lib = "none" => tx[s] = NoTx
  /\ tx[s].path <=> tx[s].row = "active"
  /\ tx[s].path => cur = s /\ tx[s].pump /\ tx[s].lib = "open" /\ file # NoFile

GateInv ==
  /\ busy \in BOOLEAN /\ cur \in {0} \cup Streams /\ (busy <=> cur # 0)
  /\ cur # 0 => tx[cur].watch

Inv == Types /\ GateInv /\ \A s \in Streams : StreamInv(s) /\ RecvInv(s) /\ SendInv(s)

LEMMA StreamsNat == Streams \subseteq Nat \ {0}
<1>1. \A n : 0 \notin 1..n /\ 1..n \subseteq Nat
  OBVIOUS
<1> QED BY <1>1, TransferAssumption

(* What the receiver's handlers do: they set its record, take what came,    *)
(* and speak to the sender.                                                 *)
LEMMA ReceiverSets ==
  ASSUME Inv, NEW s \in Streams, NEW r, rx' = [rx EXCEPT ![s] = r],
         Rest(r), r.who = rx[s].who, rx[s].who # "none", r.state # "" => rx[s].state # "",
         r.tmp # NoFile => r.state = "body" \/ (r.row \in {"done", "error"} /\ s \in badDisk'),
         UNCHANGED <<share, file, busy, cur, tx, sent, cut>>,
         badDisk \subseteq badDisk', faults' \in 0..share.faults,
         toTx' \in [Streams -> Seq(Words)], \A q \in Streams \ {s} : toTx'[q] = toTx[q],
         rx[s].who = "app" => toTx'[s] \in AppSays,
         fed' \in [Streams -> Nat], \A q \in Streams \ {s} : fed'[q] = fed[q], fed'[s] \in 0..Arriving(s)
  PROVE  Inv'
<1>1. rx'[s] = r /\ \A q \in Streams \ {s} : rx'[q] = rx[q]
  BY DEF Inv, Types
<1>2. Types'
  BY DEF Inv, Types, Rest
<1>3. GateInv'
  BY DEF Inv, GateInv
<1>4. ASSUME NEW q \in Streams PROVE Arriving(q)' = Arriving(q)
  BY DEF Arriving
<1>5. StreamInv(s)'
  BY <1>1, <1>4 DEF Inv, StreamInv
<1>6. RecvInv(s)'
  BY <1>1 DEF Inv, RecvInv, Ended
<1>7. ASSUME NEW q \in Streams \ {s} PROVE StreamInv(q)'
  BY <1>1, <1>4, <1>7 DEF Inv, StreamInv, Untouched
<1>8. ASSUME NEW q \in Streams \ {s} PROVE RecvInv(q)'
  BY <1>1, <1>8 DEF Inv, RecvInv, Ended
<1>9. ASSUME NEW q \in Streams PROVE SendInv(q)'
  BY DEF Inv, SendInv
<1> QED BY <1>2, <1>3, <1>5, <1>6, <1>7, <1>8, <1>9 DEF Inv

(* What the sender's handlers do: they set its record, write, listen, and   *)
(* take or open the gate.                                                   *)
Holds(s, t) == UNCHANGED <<busy, cur>> /\ (cur = s => t.watch) /\ (t.path => cur = s)
Opens(s, t) == cur = s /\ busy' = FALSE /\ cur' = 0 /\ ~t.path
Takes(s, t) == ~busy /\ busy' = TRUE /\ cur' = s /\ t.watch /\ ~t.path

LEMMA SenderSets ==
  ASSUME Inv, NEW s \in Streams, NEW t \in Snd, tx' = [tx EXCEPT ![s] = t],
         t.lib # "none", rx[s].who \in {"app", "browser"},
         t.path <=> t.row = "active", t.path => t.pump /\ t.lib = "open" /\ file # NoFile,
         Holds(s, t) \/ Opens(s, t) \/ Takes(s, t),
         UNCHANGED <<share, file, rx, fed, cut>>,
         badDisk \subseteq badDisk', faults' \in 0..share.faults,
         toTx' \in [Streams -> Seq(Words)], \A q \in Streams \ {s} : toTx'[q] = toTx[q],
         rx[s].who = "app" => toTx'[s] \in AppSays /\ t.req \in AppSays,
         NEW w \in Seq(Int), sent' = [sent EXCEPT ![s] = sent[s] \o w],
         rx[s].who = "app" => w \in Cells
  PROVE  Inv'
<1>1. tx'[s] = t /\ \A q \in Streams \ {s} : tx'[q] = tx[q]
  BY DEF Inv, Types
<1>2. sent'[s] = sent[s] \o w /\ \A q \in Streams \ {s} : sent'[q] = sent[q]
  BY DEF Inv, Types
<1>3. sent[s] \in Seq(Int) /\ sent'[s] \in Seq(Int) /\ Len(sent[s]) \in Nat
      /\ Len(sent'[s]) \in Nat /\ Len(sent[s]) <= Len(sent'[s])
  <2>1. sent[s] \in Seq(Int)
    BY DEF Inv, Types
  <2>2. sent[s] \o w \in Seq(Int) /\ Len(sent[s] \o w) = Len(sent[s]) + Len(w)
    BY <2>1, ConcatProperties
  <2> QED BY <1>2, <2>1, <2>2
<1>4. Types'
  BY <1>3 DEF Inv, Types
<1>5. s # 0 /\ 0 \notin Streams
  BY StreamsNat
<1>6. GateInv'
  <2>1. CASE Holds(s, t)
    BY <1>1, <2>1 DEF Inv, GateInv, Holds
  <2>2. CASE Opens(s, t)
    BY <2>2 DEF GateInv, Opens
  <2>3. CASE Takes(s, t)
    BY <1>1, <1>5, <2>3 DEF GateInv, Takes
  <2> QED BY <2>1, <2>2, <2>3
<1>7. ASSUME NEW q \in Streams PROVE RecvInv(q)'
  BY DEF Inv, RecvInv, Ended
<1>8. SendInv(s)'
  BY <1>1 DEF SendInv, Holds, Opens, Takes
<1>9. ASSUME NEW q \in Streams \ {s} PROVE SendInv(q)'
  <2>1. tx'[q] = tx[q] /\ SendInv(q)
    BY <1>1 DEF Inv
  <2>2. tx[q].path => cur' = q
    <3>1. CASE Takes(s, t)
      BY <1>5, <2>1, <3>1, StreamsNat DEF SendInv, Takes, Inv, GateInv
    <3>2. CASE ~Takes(s, t)
      BY <2>1, <3>2 DEF SendInv, Holds, Opens
    <3> QED BY <3>1, <3>2
  <2> QED BY <2>1, <2>2 DEF SendInv
<1>10. ASSUME NEW q \in Streams \ {s} PROVE StreamInv(q)'
  <2>1. Arriving(q)' = Arriving(q)
    BY <1>2 DEF Arriving
  <2> QED BY <1>1, <1>2, <2>1 DEF Inv, StreamInv, Untouched
<1>11. StreamInv(s)'
  <2>1. StreamInv(s) /\ fed[s] \in Nat /\ cut[s] \in Int
    BY DEF Inv, Types
  <2>2. fed[s] \in 0..Arriving(s)'
    BY <1>3, <2>1 DEF StreamInv, Arriving
  <2>3. cut[s] <= Len(sent'[s])
    BY <1>3, <2>1 DEF StreamInv
  <2>4. rx[s].who = "app" => sent'[s] \in Cells
    <3> SUFFICES ASSUME rx[s].who = "app" PROVE sent[s] \o w \in Cells
      BY <1>2
    <3>1. sent[s] \in Cells /\ w \in Cells
      BY <2>1 DEF StreamInv
    <3> QED BY <3>1, ConcatProperties DEF Cells
  <2> QED BY <1>1, <2>1, <2>2, <2>3, <2>4 DEF StreamInv
<1> QED BY <1>4, <1>6, <1>7, <1>8, <1>9, <1>10, <1>11 DEF Inv

-----------------------------------------------------------------------------
(* The receiver's actions.                                                 *)
LEMMA At ==
  ASSUME Inv, NEW s \in Streams
  PROVE  /\ rx[s] \in Rcv /\ Rest(rx[s]) /\ RecvInv(s) /\ StreamInv(s) /\ SendInv(s) /\ tx[s] \in Snd
         /\ toTx[s] \in Seq(Words) /\ sent[s] \in Seq(Int) /\ fed[s] \in Nat /\ cut[s] \in Int
         /\ faults \in 0..share.faults /\ share.faults \in Nat /\ Len(share.content) \in Nat
         /\ share.content \in Cells /\ share.locked \in BOOLEAN
<1>1. share \in [content : Seq(Nat), locked : BOOLEAN, web : BOOLEAN, callers : Nat, faults : Nat]
  BY TransferAssumption DEF Inv, Types
<1>2. share.faults \in Nat /\ share.content \in Cells /\ share.locked \in BOOLEAN
  BY <1>1 DEF Cells
<1>3. Len(share.content) \in Nat
  BY <1>2 DEF Cells
<1> QED BY <1>2, <1>3 DEF Inv, Types, RecvInv, Rest

LEMMA Dialed ==
  ASSUME Inv, NEW s \in Streams, rx[s].lib # "none" \/ rx[s].watch
  PROVE  rx[s].who # "none"
<1>1. NoRx.lib = "none" /\ ~NoRx.watch
  BY DEF NoRx
<1>2. rx[s].who = "none" => rx[s] = NoRx
  BY DEF Inv, StreamInv, Untouched
<1> QED BY <1>1, <1>2

LEMMA Saying ==
  /\ RequestMagic \in Seq(Words) \ {<<>>} /\ RequestMagic \in AppSays
  /\ <<>> \in Seq(Words) /\ <<>> \in AppSays
  /\ Requests \subseteq Seq(Words) \ {<<>>} /\ "" \in Words
<1>1. <<>> \in Seq(Words) /\ <<>> \in AppSays
  BY DEF AppSays
<1>2. "B" \in Words /\ "TXO" \in Words /\ "" \in Words
  BY DEF Words
<1>3. \A S : \A a, b \in S : <<a, b>> \in Seq(S) /\ <<a, b>> # <<>>
  OBVIOUS
<1>4. RequestMagic \in Seq(Words) /\ RequestMagic # <<>>
  BY <1>2, <1>3 DEF RequestMagic
<1>5. RequestMagic \in Seq({"B", "TXO"})
  BY <1>3 DEF RequestMagic
<1>6. ASSUME NEW q \in Requests PROVE q \in Seq(Words) \ {<<>>}
  <2> DEFINE W == {q[i] : i \in 1..Len(q)}
  <2>1. q # <<>> /\ q \in Seq(W)
    BY TransferAssumption
  <2>2. W \subseteq Words
    BY DEF Words
  <2> HIDE DEF W
  <2>3. q \in Seq(Words)
    BY <2>1, <2>2
  <2> QED BY <2>1, <2>3
<1> QED BY <1>1, <1>2, <1>4, <1>5, <1>6 DEF AppSays

LEMMA DialStep ==
  ASSUME Inv, NEW s \in Streams, NEW who \in {"app", "browser", "stranger"}, NEW key \in BOOLEAN, NEW wire \in Cells,
         Dial(s, who, key, wire)
  PROVE  Inv'
<1> DEFINE r == [NoRx EXCEPT !.who = who, !.lib = "dialing", !.key = key,
                             !.state = IF who = "browser" THEN "" ELSE "header",
                             !.watch = who # "browser",
                             !.row = IF who = "browser" THEN "" ELSE "connecting"]
<1>1. /\ rx[s].who = "none" /\ rx' = [rx EXCEPT ![s] = r] /\ sent' = [sent EXCEPT ![s] = wire]
      /\ UNCHANGED <<share, file, busy, cur, tx, toTx, fed, cut, faults, badDisk>>
  BY DEF Dial, SetRx, gate, history
<1>2. <<>> \in Cells /\ NoFile \in Files /\ Len(<<>>) = 0 /\ 0 < HeaderCells
  BY Constants DEF Cells, Files
<1>3. /\ r.who = who /\ r.state = (IF who = "browser" THEN "" ELSE "header") /\ r.watch = (who # "browser")
      /\ r.row = (IF who = "browser" THEN "" ELSE "connecting") /\ r.buf = <<>> /\ ~r.named /\ r.tmp = NoFile /\ r.got = 0
  BY DEF NoRx
<1>4. r \in Rcv
  <2>1. NoRx \in Rcv
    <3>1. "" \in Words
      BY Saying
    <3> QED BY <1>2, <3>1 DEF NoRx, Rcv
  <2> DEFINE st == IF who = "browser" THEN "" ELSE "header"
             rw == IF who = "browser" THEN "" ELSE "connecting"
  <2>2. r = [NoRx EXCEPT !.who = who, !.lib = "dialing", !.key = key, !.state = st,
                         !.watch = who # "browser", !.row = rw]
    OBVIOUS
  <2>3. st \in {"", "header"} /\ rw \in {"", "connecting"} /\ (who # "browser") \in BOOLEAN
    OBVIOUS
  <2> HIDE DEF st, rw, r
  <2> QED BY <2>1, <2>2, <2>3 DEF Rcv
<1> HIDE DEF r
<1>5. Rest(r)
  BY <1>2, <1>3, <1>4 DEF Rest, AtHeader
<1>6. Untouched(s) /\ StreamInv(s)
  BY <1>1 DEF Inv, StreamInv
<1>7. rx'[s] = r /\ sent'[s] = wire /\ \A q \in Streams \ {s} : rx'[q] = rx[q] /\ sent'[q] = sent[q]
  BY <1>1 DEF Inv, Types
<1>8. wire \in Seq(Int) /\ Len(wire) \in Nat
  BY DEF Cells
<1>9. Types'
  BY <1>1, <1>4, <1>8 DEF Inv, Types
<1>10. GateInv' /\ \A q \in Streams : SendInv(q)'
  BY <1>1 DEF Inv, GateInv, SendInv
<1>11. StreamInv(s)'
  <2>1. Arriving(s)' = Len(wire) /\ fed'[s] = 0 /\ cut'[s] = Lasting /\ Lasting <= Len(wire)
    BY <1>1, <1>6, <1>7, <1>8 DEF Untouched, Arriving, Lasting
  <2>2. NoTx.lib = "none" /\ NoTx.req = <<>>
    BY DEF NoTx
  <2>3. tx'[s].lib = "none" /\ toTx'[s] = <<>> /\ tx'[s].req = <<>> /\ <<>> \in AppSays
    BY <1>1, <1>6, <2>2, Saying DEF Untouched
  <2>4. fed'[s] \in 0..Arriving(s)' /\ cut'[s] <= Len(sent'[s])
    BY <1>7, <1>8, <2>1
  <2> QED BY <1>3, <1>7, <2>3, <2>4 DEF StreamInv
<1>12. RecvInv(s)'
  BY <1>3, <1>5, <1>7 DEF RecvInv
<1>13. ASSUME NEW q \in Streams \ {s} PROVE StreamInv(q)' /\ RecvInv(q)'
  <2>1. Arriving(q)' = Arriving(q)
    BY <1>1, <1>7 DEF Arriving
  <2> QED BY <1>1, <1>7, <2>1 DEF Inv, StreamInv, RecvInv, Ended, Untouched
<1> QED BY <1>9, <1>10, <1>11, <1>12, <1>13 DEF Inv

LEMMA OpenedStep ==
  ASSUME Inv, NEW s \in Streams, AppOpened(s) \/ BrowserOpened(s)
  PROVE  Inv'
<1>1. PICK request : /\ RxOpened(s, request) /\ request \in Seq(Words) \ {<<>>}
                     /\ rx[s].who = "app" => request \in AppSays
  BY Saying DEF AppOpened, BrowserOpened
<1> DEFINE r == [rx[s] EXCEPT !.lib = "open", !.fresh = rx[s].state # "", !.asks = request[1]]
           says == IF tx[s].lib = "gone" THEN <<>> ELSE request
<1>2. /\ rx[s].lib = "dialing" /\ rx' = [rx EXCEPT ![s] = r] /\ toTx' = [toTx EXCEPT ![s] = says]
      /\ UNCHANGED <<share, file, busy, cur, tx, sent, fed, cut, faults, badDisk>>
  BY <1>1 DEF RxOpened, SetRx, gate, down, history
<1>3. rx[s] \in Rcv /\ Rest(rx[s]) /\ RecvInv(s) /\ StreamInv(s)
  BY At
<1>4. request[1] \in Words /\ says \in Seq(Words) /\ (rx[s].who = "app" => says \in AppSays)
  <2>1. request[1] \in Words
    BY <1>1
  <2>2. <<>> \in Seq(Words) /\ <<>> \in AppSays
    BY DEF AppSays
  <2> QED BY <1>1, <2>1, <2>2
<1> HIDE DEF says
<1>5. r \in Rcv
  BY <1>3, <1>4 DEF Rcv
<1>6. /\ r.who = rx[s].who /\ r.state = rx[s].state /\ r.tmp = rx[s].tmp /\ r.row = rx[s].row
      /\ r.buf = rx[s].buf /\ r.named = rx[s].named /\ r.watch = rx[s].watch /\ r.got = rx[s].got
  BY <1>3 DEF Rcv
<1> HIDE DEF r
<1>7. Rest(r)
  BY <1>3, <1>5, <1>6 DEF Rest, AtHeader, Writing
<1>8. rx[s].who # "none"
  BY <1>2, Dialed
<1>9. toTx' \in [Streams -> Seq(Words)] /\ toTx'[s] = says /\ \A q \in Streams \ {s} : toTx'[q] = toTx[q]
  BY <1>2, <1>4 DEF Inv, Types
<1>10. fed' \in [Streams -> Nat] /\ fed'[s] \in 0..Arriving(s) /\ faults' \in 0..share.faults
  BY <1>2, <1>3 DEF Inv, Types, StreamInv
<1>11. r.tmp # NoFile => r.state = "body" \/ (r.row \in {"done", "error"} /\ s \in badDisk')
  BY <1>2, <1>3, <1>6 DEF RecvInv, Ended
<1> QED BY <1>2, <1>4, <1>6, <1>7, <1>8, <1>9, <1>10, <1>11, ReceiverSets

(* A download that is given up, or one that was over already.               *)
Over(r, bad) == IF r.state = "" THEN [r EXCEPT !.lib = "gone"] ELSE RecvAbort(r, bad)

LEMMA OverIs ==
  ASSUME NEW bad, NEW r, Rest(r)
  PROVE  /\ Rest(Over(r, bad)) /\ Over(r, bad).who = r.who /\ Over(r, bad).state = ""
         /\ r.state = "" => Over(r, bad).tmp = r.tmp /\ Over(r, bad).row = r.row
         /\ r.state # "" => Over(r, bad).row = "error" /\ (Over(r, bad).tmp # NoFile => bad # "none")
<1> DEFINE y == Over(r, bad)
<1>0. r \in Rcv
  BY DEF Rest
<1>1. CASE r.state = ""
  <2>1. y = [r EXCEPT !.lib = "gone"]
    BY <1>1 DEF Over
  <2> HIDE DEF y
  <2>2. y \in Rcv
    BY <1>0, <2>1 DEF Rcv
  <2>3. /\ y.who = r.who /\ y.state = r.state /\ y.tmp = r.tmp /\ y.row = r.row /\ y.buf = r.buf /\ y.named = r.named
    BY <1>0, <2>1 DEF Rcv
  <2> QED BY <1>1, <2>2, <2>3 DEF Rest, AtHeader, Writing, y
<1>2. CASE r.state # ""
  <2>1. y = RecvAbort(r, bad)
    BY <1>2 DEF Over
  <2>2. r.named \/ r.tmp = NoFile
    BY <1>2 DEF Rest, AtHeader, Writing
  <2> HIDE DEF y
  <2>3. y \in Rcv /\ Aborted(y, bad) /\ Same(y, r)
    BY <1>0, <2>1, <2>2, AbortIs
  <2> QED BY <1>2, <2>3 DEF Aborted, Rest, Same, y
<1> QED BY <1>1, <1>2

LEMMA OverSteps ==
  ASSUME Inv, NEW s \in Streams, DialFails(s) \/ RxClosed(s) \/ BrowserLeaves(s)
  PROVE  /\ rx[s].lib \in {"dialing", "open"} /\ refused \subseteq refused' /\ (DialFails(s) => s \in refused')
         /\ UNCHANGED <<share, file, busy, cur, tx, toTx, sent, fed, cut, timedOut, edited>>
         /\ \E bad \in {"none", "delete"} : Disk(s, bad) /\ rx' = [rx EXCEPT ![s] = Over(rx[s], bad)]
<1>1. CASE DialFails(s)
  <2>1. Disk(s, "none") /\ rx' = [rx EXCEPT ![s] = Over(rx[s], "none")]
    BY <1>1 DEF DialFails, Over, SetRx, Disk
  <2> QED BY <1>1, <2>1 DEF DialFails, gate, down
<1>2. CASE RxClosed(s) /\ rx[s].state = ""
  <2>1. Disk(s, "none") /\ rx' = [rx EXCEPT ![s] = Over(rx[s], "none")]
    BY <1>2 DEF RxClosed, Over, SetRx, Disk
  <2>2. rx[s].lib = "open"
    BY <1>2 DEF RxClosed
  <2> QED BY <1>2, <2>1, <2>2 DEF RxClosed, DialFails, gate, down
<1>3. CASE RxClosed(s) /\ rx[s].state # ""
  <2>1. \E bad \in {"none", "delete"} : Disk(s, bad) /\ rx' = [rx EXCEPT ![s] = Over(rx[s], bad)]
    BY <1>3 DEF RxClosed, Over, SetRx, GivesUp
  <2>2. rx[s].lib = "open"
    BY <1>3 DEF RxClosed
  <2> QED BY <1>3, <2>1, <2>2 DEF RxClosed, DialFails, gate, down
<1>4. CASE BrowserLeaves(s)
  <2>1. rx[s].state = "" /\ rx[s].lib = "open"
    BY <1>4, At DEF BrowserLeaves, RecvInv
  <2>2. Disk(s, "none") /\ rx' = [rx EXCEPT ![s] = Over(rx[s], "none")]
    BY <1>4, <2>1 DEF BrowserLeaves, Over, SetRx, Disk, history
  <2> QED BY <1>4, <2>1, <2>2 DEF BrowserLeaves, DialFails, gate, down, history
<1> QED BY <1>1, <1>2, <1>3, <1>4

LEMMA DiskIs ==
  ASSUME Inv, NEW s \in Streams, NEW bad, Disk(s, bad)
  PROVE  faults' \in 0..share.faults /\ badDisk \subseteq badDisk' /\ (bad # "none" => s \in badDisk')
<1>1. faults \in 0..share.faults /\ share.faults \in Nat
  BY At
<1> QED BY <1>1 DEF Disk

LEMMA OverStep ==
  ASSUME Inv, NEW s \in Streams, DialFails(s) \/ RxClosed(s) \/ BrowserLeaves(s)
  PROVE  Inv'
<1>1. /\ rx[s].lib \in {"dialing", "open"} /\ UNCHANGED <<share, file, busy, cur, tx, toTx, sent, fed, cut>>
      /\ \E bad \in {"none", "delete"} : Disk(s, bad) /\ rx' = [rx EXCEPT ![s] = Over(rx[s], bad)]
  BY OverSteps
<1>2. PICK bad \in {"none", "delete"} : Disk(s, bad) /\ rx' = [rx EXCEPT ![s] = Over(rx[s], bad)]
  BY <1>1
<1>3. rx[s] \in Rcv /\ Rest(rx[s]) /\ RecvInv(s) /\ StreamInv(s)
  BY At
<1> DEFINE r == Over(rx[s], bad)
<1>4. /\ Rest(r) /\ r.who = rx[s].who /\ r.state = ""
      /\ rx[s].state = "" => r.tmp = rx[s].tmp /\ r.row = rx[s].row
      /\ rx[s].state # "" => r.row = "error" /\ (r.tmp # NoFile => bad # "none")
  BY <1>3, OverIs
<1>5. rx[s].who # "none"
  BY <1>1, Dialed
<1>6. faults' \in 0..share.faults /\ badDisk \subseteq badDisk' /\ (bad # "none" => s \in badDisk')
  BY <1>2, DiskIs
<1>7. rx' = [rx EXCEPT ![s] = r]
  BY <1>2
<1> HIDE DEF r
<1>8. r.tmp # NoFile => r.state = "body" \/ (r.row \in {"done", "error"} /\ s \in badDisk')
  BY <1>3, <1>4, <1>6 DEF RecvInv, Ended
<1>9. /\ toTx' \in [Streams -> Seq(Words)] /\ fed' \in [Streams -> Nat] /\ fed'[s] \in 0..Arriving(s)
      /\ (rx[s].who = "app" => toTx'[s] \in AppSays)
  BY <1>1, <1>3 DEF Inv, Types, StreamInv
<1> QED BY <1>1, <1>4, <1>5, <1>6, <1>7, <1>8, <1>9, ReceiverSets

LEMMA ReadStep ==
  ASSUME Inv, NEW s \in Streams, RxData(s)
  PROVE  Inv'
<1>1. PICK k \in 1..(Arriving(s) - fed[s]), bad \in {"none"} \cup DiskCalls : RecvStream(s, k, bad)
  BY DEF RxData
<1> DEFINE data == SubSeq(sent[s], fed[s] + 1, fed[s] + k)
           r    == RecvData(rx[s], data, bad)
<1>2. /\ rx' = [rx EXCEPT ![s] = r] /\ fed' = [fed EXCEPT ![s] = @ + k]
      /\ Disk(s, bad)
      /\ UNCHANGED <<share, file, busy, cur, tx, toTx, sent, cut>>
      /\ rx[s].lib = "open" /\ rx[s].who # "browser"
  BY <1>1 DEF RecvStream, RxData, SetRx, gate
<1>3. rx[s] \in Rcv /\ Rest(rx[s]) /\ RecvInv(s) /\ StreamInv(s)
  BY At
<1>4. sent[s] \in Cells /\ fed[s] \in Nat /\ fed[s] \in 0..Arriving(s) /\ cut[s] \in Int /\ cut[s] <= Len(sent[s])
  BY <1>2, <1>3, At DEF StreamInv
<1>5. Arriving(s) \in Int /\ Arriving(s) <= Len(sent[s]) /\ Len(sent[s]) \in Nat
  BY <1>4 DEF Arriving, Cells
<1>6. fed[s] + k \in 0..Arriving(s) /\ fed[s] + 1 \in 1..Len(sent[s]) /\ fed[s] + k \in 1..Len(sent[s])
  BY <1>1, <1>4, <1>5
<1>7. data \in Cells
  BY <1>4, <1>6, SubSeqProperties DEF Cells
<1> HIDE DEF data
<1>8. Rest(r) /\ Same(r, rx[s]) /\ Left(r, rx[s], bad)
  BY <1>3, <1>7, RecvDataIs
<1> HIDE DEF r
<1>9. rx[s].state = "" => r = rx[s]
  <2>1. rx[s].state = "" => RecvData(rx[s], data, bad) = rx[s]
    BY DEF RecvData
  <2> QED BY <2>1 DEF r
<1>13. faults' \in 0..share.faults /\ badDisk \subseteq badDisk' /\ (bad # "none" => s \in badDisk')
  BY <1>2, DiskIs
<1>10. r.tmp # NoFile => r.state = "body" \/ (r.row \in {"done", "error"} /\ s \in badDisk')
  BY <1>3, <1>8, <1>13 DEF Left, Unmoved, RecvInv, Ended
<1>11. rx[s].who # "none"
  BY <1>2, Dialed
<1>12. fed' \in [Streams -> Nat] /\ fed'[s] \in 0..Arriving(s) /\ \A q \in Streams \ {s} : fed'[q] = fed[q]
  BY <1>2, <1>6 DEF Inv, Types
<1>14. toTx' \in [Streams -> Seq(Words)] /\ (rx[s].who = "app" => toTx'[s] \in AppSays)
  BY <1>2, <1>3 DEF Inv, Types, StreamInv
<1>15. r.who = rx[s].who /\ (r.state # "" => rx[s].state # "")
  BY <1>8, <1>9 DEF Same
<1> QED BY <1>2, <1>8, <1>10, <1>11, <1>12, <1>13, <1>14, <1>15, ReceiverSets

(* A watchdog gives its stream up when nothing came, or goes on.            *)
Watched(s, r, bad) ==
  LET live == rx[s].state # ""
      idle == live /\ ~rx[s].fresh
      r1   == [rx[s] EXCEPT !.fresh = FALSE, !.watch = live /\ ~idle]
  IN  r = IF idle THEN RecvAbort(r1, bad) ELSE r1

LEMMA WatchSteps ==
  ASSUME NEW s, RecvWatchdog(s)
  PROVE  /\ rx[s].watch /\ UNCHANGED <<share, file, busy, cur, tx, toTx, sent, fed, cut, refused, edited>>
         /\ timedOut' = IF rx[s].state # "" /\ ~rx[s].fresh THEN timedOut \cup {s} ELSE timedOut
         /\ \E r, bad : Watched(s, r, bad) /\ Disk(s, bad) /\ rx' = [rx EXCEPT ![s] = r]
<1> DEFINE live == rx[s].state # ""
           idle == live /\ ~rx[s].fresh
           r1   == [rx[s] EXCEPT !.fresh = FALSE, !.watch = live /\ ~idle]
<1>1. /\ rx[s].watch /\ UNCHANGED <<share, file, busy, cur, tx, toTx, sent, fed, cut, refused, edited>>
      /\ timedOut' = IF idle THEN timedOut \cup {s} ELSE timedOut
      /\ IF idle THEN GivesUp(s, r1) ELSE rx' = [rx EXCEPT ![s] = r1] /\ UNCHANGED <<faults, badDisk>>
  BY DEF RecvWatchdog, SetRx, gate, down
<1>2. CASE idle
  <2>1. PICK bad : rx' = [rx EXCEPT ![s] = RecvAbort(r1, bad)] /\ Disk(s, bad)
    BY <1>1, <1>2 DEF GivesUp, SetRx
  <2>2. Watched(s, RecvAbort(r1, bad), bad)
    BY <1>2 DEF Watched
  <2> QED BY <1>1, <2>1, <2>2
<1>3. CASE ~idle
  <2>1. Watched(s, r1, "none") /\ Disk(s, "none") /\ rx' = [rx EXCEPT ![s] = r1]
    BY <1>1, <1>3 DEF Watched, Disk
  <2> QED BY <1>1, <2>1
<1> QED BY <1>2, <1>3

LEMMA RecvWatchdogStep ==
  ASSUME Inv, NEW s \in Streams, RecvWatchdog(s)
  PROVE  Inv'
<1>0. /\ rx[s].watch /\ UNCHANGED <<share, file, busy, cur, tx, toTx, sent, fed, cut>>
      /\ \E r, bad : Watched(s, r, bad) /\ Disk(s, bad) /\ rx' = [rx EXCEPT ![s] = r]
  BY WatchSteps
<1>1. PICK r, bad : Watched(s, r, bad) /\ Disk(s, bad) /\ rx' = [rx EXCEPT ![s] = r]
  BY <1>0
<1> DEFINE live == rx[s].state # ""
           idle == live /\ ~rx[s].fresh
           r1   == [rx[s] EXCEPT !.fresh = FALSE, !.watch = live /\ ~idle]
<1>2. rx[s] \in Rcv /\ Rest(rx[s]) /\ RecvInv(s) /\ StreamInv(s)
  BY At
<1>3. r1 \in Rcv /\ (r = IF idle THEN RecvAbort(r1, bad) ELSE r1)
  BY <1>1, <1>2 DEF Rcv, Watched
<1>4. /\ r1.who = rx[s].who /\ r1.state = rx[s].state /\ r1.tmp = rx[s].tmp /\ r1.row = rx[s].row
      /\ r1.buf = rx[s].buf /\ r1.named = rx[s].named /\ r1.got = rx[s].got /\ r1.watch = (live /\ ~idle)
  BY <1>2 DEF Rcv
<1> HIDE DEF r1
<1>5. /\ Rest(r) /\ r.who = rx[s].who /\ (r.state # "" => rx[s].state # "")
      /\ r.tmp # NoFile => \/ r.tmp = rx[s].tmp /\ r.row = rx[s].row /\ r.state = rx[s].state
                           \/ r.row = "error" /\ bad # "none"
  <2>1. CASE idle
    <3>1. r1.named \/ r1.tmp = NoFile
      BY <1>2, <1>4, <2>1 DEF Rest, AtHeader, Writing
    <3>2. r = RecvAbort(r1, bad)
      BY <1>3, <2>1
    <3>3. r \in Rcv /\ Aborted(r, bad) /\ Same(r, r1)
      BY <1>3, <3>1, <3>2, AbortIs
    <3> QED BY <1>4, <2>1, <3>3 DEF Aborted, Rest, Same
  <2>2. CASE ~idle
    <3>1. r = r1
      BY <1>3, <2>2
    <3> QED BY <1>2, <1>3, <1>4, <2>2, <3>1 DEF Rest, AtHeader, Writing
  <2> QED BY <2>1, <2>2
<1>6. rx[s].who # "none"
  BY <1>0, Dialed
<1>7. faults' \in 0..share.faults /\ badDisk \subseteq badDisk' /\ (bad # "none" => s \in badDisk')
  BY <1>1, DiskIs
<1>8. r.tmp # NoFile => r.state = "body" \/ (r.row \in {"done", "error"} /\ s \in badDisk')
  BY <1>2, <1>5, <1>7 DEF RecvInv, Ended
<1>9. /\ toTx' \in [Streams -> Seq(Words)] /\ fed' \in [Streams -> Nat] /\ fed'[s] \in 0..Arriving(s)
      /\ (rx[s].who = "app" => toTx'[s] \in AppSays)
  BY <1>0, <1>2 DEF Inv, Types, StreamInv
<1> QED BY <1>0, <1>1, <1>5, <1>6, <1>7, <1>8, <1>9, ReceiverSets

-----------------------------------------------------------------------------
(* The sender's actions.                                                   *)
LEMMA CleanupIs ==
  ASSUME NEW t \in Snd
  PROVE  /\ ServeCleanup(t) \in Snd /\ ~ServeCleanup(t).path /\ ServeCleanup(t).req = <<>>
         /\ ServeCleanup(t).lib = t.lib /\ ServeCleanup(t).row = t.row
<1> DEFINE y == ServeCleanup(t)
<1>1. y = [t EXCEPT !.path = FALSE, !.off = 0, !.fresh = FALSE, !.req = <<>>, !.raw = FALSE]
  BY DEF ServeCleanup
<1> HIDE DEF y
<1>2. y \in Snd
  BY <1>1, Saying DEF Snd
<1> QED BY <1>1, <1>2 DEF Snd, y

LEMMA ServeAbortIs ==
  ASSUME NEW t \in Snd
  PROVE  /\ ServeAbort(t) \in Snd /\ ~ServeAbort(t).path /\ ServeAbort(t).req = <<>>
         /\ ServeAbort(t).lib = "gone" /\ ServeAbort(t).row # "active"
<1> DEFINE x == [t EXCEPT !.row = IF @ = "" THEN "" ELSE "error", !.lib = "gone"]
<1>1. x \in Snd /\ x.lib = "gone" /\ x.row # "active"
  BY DEF Snd
<1>2. ServeAbort(t) = ServeCleanup(x)
  BY DEF ServeAbort
<1> HIDE DEF x
<1> QED BY <1>1, <1>2, CleanupIs

(* A step of the sender on stream s that leaves its record as t and writes  *)
(* w.                                                                      *)
Moves(s, t, w) ==
  /\ tx' = [tx EXCEPT ![s] = t] /\ sent' = [sent EXCEPT ![s] = sent[s] \o w]
  /\ t.lib # "none" /\ (t.path <=> t.row = "active") /\ (t.path => t.pump /\ t.lib = "open" /\ file # NoFile)
  /\ Holds(s, t) \/ Opens(s, t) \/ Takes(s, t)
  /\ rx[s].who = "app" => t.req \in AppSays /\ w \in Cells
  /\ badDisk \subseteq badDisk' /\ faults' \in 0..share.faults

LEMMA MovesKeep ==
  ASSUME Inv, NEW s \in Streams, NEW t \in Snd, NEW w \in Seq(Int), Moves(s, t, w),
         rx[s].who \in {"app", "browser"}, UNCHANGED <<share, file, rx, fed, cut>>,
         toTx' \in [Streams -> Seq(Words)], \A q \in Streams \ {s} : toTx'[q] = toTx[q],
         rx[s].who = "app" => toTx'[s] \in AppSays
  PROVE  Inv'
<1>1. /\ tx' = [tx EXCEPT ![s] = t] /\ sent' = [sent EXCEPT ![s] = sent[s] \o w]
      /\ t.lib # "none" /\ (t.path <=> t.row = "active") /\ (t.path => t.pump /\ t.lib = "open" /\ file # NoFile)
      /\ Holds(s, t) \/ Opens(s, t) \/ Takes(s, t)
      /\ badDisk \subseteq badDisk' /\ faults' \in 0..share.faults
      /\ rx[s].who = "app" => toTx'[s] \in AppSays /\ t.req \in AppSays
      /\ rx[s].who = "app" => w \in Cells
  BY DEF Moves
<1> QED BY <1>1, SenderSets

LEMMA Silent ==
  ASSUME Inv, NEW s \in Streams, UNCHANGED sent
  PROVE  sent' = [sent EXCEPT ![s] = sent[s] \o <<>>]
<1>1. sent[s] \in Seq(Int) /\ sent \in [Streams -> Seq(Int)]
  BY DEF Inv, Types
<1>2. sent[s] \o <<>> = sent[s]
  BY <1>1
<1> QED BY <1>1, <1>2

LEMMA EndsIs ==
  ASSUME NEW s, NEW t, Ends(s, t), ~t.path
  PROVE  tx' = [tx EXCEPT ![s] = t] /\ (Holds(s, t) \/ Opens(s, t))
BY DEF Ends, SetTx, OpenGate, gate, Holds, Opens

(* A handler that closes its stream, and one that keeps it.                 *)
LEMMA EndsMoves ==
  ASSUME Inv, NEW s \in Streams, NEW t, NEW w, Ends(s, t), sent' = [sent EXCEPT ![s] = sent[s] \o w],
         ~t.path, t.req = <<>>, t.lib = "gone", t.row # "active",
         rx[s].who = "app" => w \in Cells,
         badDisk \subseteq badDisk', faults' \in 0..share.faults
  PROVE  Moves(s, t, w)
<1>1. tx' = [tx EXCEPT ![s] = t] /\ (Holds(s, t) \/ Opens(s, t))
  BY EndsIs
<1> QED BY <1>1, Saying DEF Moves

LEMMA GoesOnMoves ==
  ASSUME Inv, NEW s \in Streams, NEW t, NEW w, GoesOn(s, t), sent' = [sent EXCEPT ![s] = sent[s] \o w],
         cur = s => t.watch, t.path => cur = s,
         t.lib # "none", t.path <=> t.row = "active", t.path => t.pump /\ t.lib = "open" /\ file # NoFile,
         rx[s].who = "app" => t.req \in AppSays /\ w \in Cells,
         badDisk \subseteq badDisk', faults' \in 0..share.faults
  PROVE  Moves(s, t, w)
BY DEF Moves, GoesOn, SetTx, gate, Holds

LEMMA Served ==
  ASSUME Inv, NEW s \in Streams, tx[s].lib # "none" \/ tx[s].watch \/ tx[s].pump
  PROVE  tx[s].lib # "none" /\ rx[s].who \in {"app", "browser"}
<1>1. NoTx.lib = "none" /\ ~NoTx.watch /\ ~NoTx.pump
  BY DEF NoTx
<1>2. tx[s].lib = "none" => tx[s] = NoTx
  BY DEF Inv, SendInv
<1> QED BY <1>1, <1>2 DEF Inv, StreamInv

LEMMA AcceptStep ==
  ASSUME Inv, NEW s \in Streams, Accept(s)
  PROVE  Inv'
<1>1. /\ tx[s].lib = "none" /\ rx[s].who \in {"app", "browser"}
      /\ UNCHANGED <<share, file, rx, fed, cut, sent, faults, badDisk>>
  BY DEF Accept, down
<1>2. tx[s] \in Snd /\ SendInv(s) /\ StreamInv(s) /\ GateInv /\ sent[s] \in Seq(Int) /\ toTx \in [Streams -> Seq(Words)]
  BY At DEF Inv, Types
<1>3. ~tx[s].path /\ tx[s].row # "active"
  BY <1>1, <1>2 DEF SendInv
<1>4. sent' = [sent EXCEPT ![s] = sent[s] \o <<>>] /\ <<>> \in Seq(Int) /\ <<>> \in Cells
  BY <1>1, Silent DEF Cells
<1>5. badDisk \subseteq badDisk' /\ faults' \in 0..share.faults
  BY <1>1, At
<1>6. CASE busy
  <2> DEFINE t == [tx[s] EXCEPT !.lib = "gone"]
  <2>1. tx' = [tx EXCEPT ![s] = t] /\ toTx' = [toTx EXCEPT ![s] = <<>>] /\ UNCHANGED gate
    BY <1>6 DEF Accept, SetTx
  <2>2. t \in Snd /\ t.lib = "gone" /\ t.path = tx[s].path /\ t.row = tx[s].row /\ t.watch = tx[s].watch
        /\ t.req = tx[s].req
    BY <1>2 DEF Snd
  <2> HIDE DEF t
  <2>3. Holds(s, t)
    BY <1>2, <1>3, <2>1, <2>2, StreamsNat DEF Holds, gate, GateInv
  <2>4. rx[s].who = "app" => t.req \in AppSays
    BY <1>2, <2>2 DEF StreamInv
  <2>5. Moves(s, t, <<>>)
    BY <1>3, <1>4, <1>5, <2>1, <2>2, <2>3, <2>4 DEF Moves
  <2>6. toTx' \in [Streams -> Seq(Words)] /\ (\A q \in Streams \ {s} : toTx'[q] = toTx[q]) /\ toTx'[s] = <<>>
    BY <1>2, <2>1, Saying
  <2> QED BY <1>1, <1>4, <2>2, <2>5, <2>6, MovesKeep, Saying
<1>7. CASE ~busy
  <2> DEFINE t == [tx[s] EXCEPT !.lib = "open", !.watch = TRUE]
  <2>1. tx' = [tx EXCEPT ![s] = t] /\ busy' = TRUE /\ cur' = s /\ UNCHANGED toTx
    BY <1>7 DEF Accept, SetTx
  <2>2. t \in Snd /\ t.lib = "open" /\ t.path = tx[s].path /\ t.row = tx[s].row /\ t.watch
        /\ t.req = tx[s].req
    BY <1>2 DEF Snd
  <2> HIDE DEF t
  <2>3. Takes(s, t)
    BY <1>3, <1>7, <2>1, <2>2 DEF Takes
  <2>4. rx[s].who = "app" => t.req \in AppSays /\ toTx'[s] \in AppSays
    BY <1>2, <2>1, <2>2 DEF StreamInv
  <2>5. Moves(s, t, <<>>)
    BY <1>3, <1>4, <1>5, <2>1, <2>2, <2>3, <2>4 DEF Moves
  <2> QED BY <1>1, <1>2, <1>4, <2>1, <2>2, <2>4, <2>5, MovesKeep
<1> QED BY <1>6, <1>7

LEMMA TxClosedStep ==
  ASSUME Inv, NEW s \in Streams, TxClosed(s)
  PROVE  Inv'
<1>1. /\ tx[s].lib = "open" /\ toTx' = [toTx EXCEPT ![s] = <<>>]
      /\ UNCHANGED <<share, file, rx, fed, cut, sent, faults, badDisk>>
  BY DEF TxClosed, down, history
<1>2. tx[s] \in Snd /\ SendInv(s) /\ StreamInv(s) /\ GateInv /\ sent[s] \in Seq(Int) /\ toTx \in [Streams -> Seq(Words)]
  BY At DEF Inv, Types
<1>3. sent' = [sent EXCEPT ![s] = sent[s] \o <<>>] /\ <<>> \in Seq(Int) /\ <<>> \in Cells
  BY <1>1, Silent DEF Cells
<1>4. badDisk \subseteq badDisk' /\ faults' \in 0..share.faults /\ rx[s].who \in {"app", "browser"}
  BY <1>1, At, Served
<1>5. toTx' \in [Streams -> Seq(Words)] /\ (\A q \in Streams \ {s} : toTx'[q] = toTx[q]) /\ toTx'[s] = <<>>
  BY <1>1, <1>2, Saying
<1>6. CASE tx[s].row = "active"
  <2>1. Ends(s, ServeAbort(tx[s]))
    BY <1>6 DEF TxClosed
  <2>2. ServeAbort(tx[s]) \in Snd /\ Moves(s, ServeAbort(tx[s]), <<>>)
    BY <1>2, <1>3, <1>4, <2>1, ServeAbortIs, EndsMoves
  <2> QED BY <1>1, <1>3, <1>4, <1>5, <2>2, MovesKeep, Saying
<1>7. CASE tx[s].row # "active"
  <2> DEFINE t == [tx[s] EXCEPT !.lib = "gone"]
  <2>1. GoesOn(s, t)
    BY <1>7 DEF TxClosed
  <2>2. t \in Snd /\ t.lib = "gone" /\ t.path = tx[s].path /\ t.row = tx[s].row /\ t.watch = tx[s].watch
        /\ t.req = tx[s].req
    BY <1>2 DEF Snd
  <2> HIDE DEF t
  <2>3. ~t.path /\ (cur = s => t.watch)
    BY <1>2, <1>7, <2>2, StreamsNat DEF SendInv, GateInv
  <2>4. rx[s].who = "app" => t.req \in AppSays
    BY <1>2, <2>2 DEF StreamInv
  <2>5. Moves(s, t, <<>>)
    BY <1>3, <1>4, <1>7, <2>1, <2>2, <2>3, <2>4, GoesOnMoves
  <2> QED BY <1>1, <1>3, <1>4, <1>5, <2>2, <2>5, MovesKeep, Saying
<1> QED BY <1>6, <1>7

LEMMA SendWatchdogStep ==
  ASSUME Inv, NEW s \in Streams, SendWatchdog(s)
  PROVE  Inv'
<1> DEFINE idle == cur = s /\ ~tx[s].fresh
           t    == [tx[s] EXCEPT !.fresh = FALSE, !.watch = cur = s /\ ~idle]
<1>1. /\ tx[s].watch /\ IF idle THEN Ends(s, ServeAbort(t)) ELSE GoesOn(s, t)
      /\ UNCHANGED <<share, file, rx, fed, cut, sent, faults, badDisk, toTx>>
  BY DEF SendWatchdog, down
<1>2. tx[s] \in Snd /\ SendInv(s) /\ StreamInv(s) /\ GateInv /\ sent[s] \in Seq(Int) /\ toTx \in [Streams -> Seq(Words)]
  BY At DEF Inv, Types
<1>3. sent' = [sent EXCEPT ![s] = sent[s] \o <<>>] /\ <<>> \in Seq(Int) /\ <<>> \in Cells
  BY <1>1, Silent DEF Cells
<1>4. badDisk \subseteq badDisk' /\ faults' \in 0..share.faults /\ rx[s].who \in {"app", "browser"} /\ tx[s].lib # "none"
  BY <1>1, At, Served
<1>5. t \in Snd /\ t.lib = tx[s].lib /\ t.path = tx[s].path /\ t.row = tx[s].row /\ t.watch = (cur = s /\ ~idle)
      /\ t.req = tx[s].req /\ t.pump = tx[s].pump
  BY <1>2 DEF Snd
<1> HIDE DEF t
<1>6. rx[s].who = "app" => t.req \in AppSays /\ toTx'[s] \in AppSays
  BY <1>1, <1>2, <1>5 DEF StreamInv
<1>7. \E x \in Snd : Moves(s, x, <<>>)
  <2>1. CASE idle
    BY <1>1, <1>3, <1>4, <1>5, <2>1, ServeAbortIs, EndsMoves
  <2>2. CASE ~idle
    <3>1. t.path <=> t.row = "active"
      BY <1>2, <1>5 DEF SendInv
    <3>2. (t.path => cur = s /\ t.pump /\ t.lib = "open" /\ file # NoFile) /\ (cur = s => t.watch) /\ t.lib # "none"
      BY <1>2, <1>4, <1>5, <2>2 DEF SendInv
    <3> HIDE DEF idle
    <3> QED BY <1>1, <1>3, <1>4, <1>5, <1>6, <2>2, <3>1, <3>2, GoesOnMoves
  <2> QED BY <2>1, <2>2
<1> QED BY <1>1, <1>2, <1>3, <1>4, <1>6, <1>7, MovesKeep

(* Headers, lengths and the head of a page.                                 *)
LEMMA Framing ==
  /\ <<HttpHead>> \in Seq(Int) /\ <<>> \in Seq(Int) /\ <<>> \in Cells /\ Cells \subseteq Seq(Int)
  /\ \A n \in Nat : FrameLength(n) \in Cells
<1>1. -1 \in Int /\ \A S : <<>> \in Seq(S) /\ \A a \in S : <<a>> \in Seq(S)
  OBVIOUS
<1>2. <<HttpHead>> \in Seq(Int)
  BY <1>1 DEF HttpHead
<1>3. ASSUME NEW n \in Nat PROVE FrameLength(n) \in Cells
  <2>1. n \div Radix \in Nat /\ n % Radix \in Nat
    BY Constants
  <2>2. \A a, b \in Nat : <<a, b>> \in Cells
    BY DEF Cells
  <2> QED BY <2>1, <2>2 DEF FrameLength
<1>4. Cells \subseteq Seq(Int) /\ <<>> \in Cells
  BY DEF Cells
<1> QED BY <1>1, <1>2, <1>3, <1>4

LEMMA HeaderIs ==
  ASSUME Inv
  PROVE  OnionHeader(share.locked, Total) \in Cells
<1>1. share \in [content : Seq(Nat), locked : BOOLEAN, web : BOOLEAN, callers : Nat, faults : Nat]
  BY TransferAssumption DEF Inv, Types
<1>2. Total \in Nat
  <2>1. share.content \in Seq(Nat)
    BY <1>1
  <2> QED BY <2>1 DEF Total
<1>3. Flag(share.locked) \in Nat
  BY DEF Flag
<1>4. \A a, b, c \in Nat : <<a, b, c>> \in Cells
  BY DEF Cells
<1> QED BY <1>2, <1>3, <1>4, Constants DEF OnionHeader

(* What arrives at the gated stream: the request as it is known so far.     *)
Asking(s, t) ==
  /\ t \in Snd /\ cur = s /\ t.lib = "open" /\ t.row # "active" /\ ~t.path /\ t.watch
  /\ t.req # <<>> /\ (rx[s].who = "app" => t.req \in AppSays)

LEMMA BeginSendMoves ==
  ASSUME Inv, NEW s \in Streams, NEW t, Asking(s, t), BeginSend(s, t)
  PROVE  \E x \in Snd, w \in Seq(Int) : Moves(s, x, w)
<1> DEFINE t1 == [t EXCEPT !.row = "active"]
           t2 == [t1 EXCEPT !.path = TRUE, !.off = 0, !.pump = TRUE]
<1>1. t1 \in Snd
  BY DEF Asking, Snd
<1>2. t2 \in Snd /\ t2.lib = "open" /\ t2.row = "active" /\ t2.path /\ t2.pump /\ t2.watch /\ t2.req = t.req
  BY DEF Asking, Snd
<1>3. \/ OpenMayFail(s) /\ Ends(s, ServeAbort(t1)) /\ UNCHANGED sent
      \/ DiskWorks /\ Ends(s, ServeAbort(t1)) /\ UNCHANGED sent
      \/ DiskWorks /\ Writes(s, OnionHeader(share.locked, Total)) /\ GoesOn(s, t2)
  BY DEF BeginSend
<1> HIDE DEF t1, t2
<1>4. (OpenMayFail(s) \/ DiskWorks) => badDisk \subseteq badDisk' /\ faults' \in 0..share.faults
  BY At DEF OpenMayFail, DiskWorks
<1>5. CASE (OpenMayFail(s) \/ DiskWorks) /\ Ends(s, ServeAbort(t1)) /\ UNCHANGED sent
  BY <1>1, <1>4, <1>5, Silent, Framing, ServeAbortIs, EndsMoves
<1>6. CASE DiskWorks /\ Writes(s, OnionHeader(share.locked, Total)) /\ GoesOn(s, t2)
  <2> DEFINE w == OnionHeader(share.locked, Total)
  <2>1. w \in Cells /\ w \in Seq(Int)
    BY Framing, HeaderIs
  <2> HIDE DEF w
  <2>2. sent' = [sent EXCEPT ![s] = sent[s] \o w] /\ file # NoFile
    BY <1>6 DEF Writes, DiskWorks, w
  <2>3. Moves(s, t2, w)
    BY <1>2, <1>4, <1>6, <2>1, <2>2, GoesOnMoves DEF Asking
  <2> QED BY <1>2, <2>1, <2>3
<1> QED BY <1>3, <1>5, <1>6

LEMMA DropsMoves ==
  ASSUME Inv, NEW s \in Streams, NEW t \in Snd, Drops(s, t)
  PROVE  \E x \in Snd, w \in Seq(Int) : Moves(s, x, w)
<1>1. Ends(s, ServeAbort(t)) /\ UNCHANGED <<sent, faults, badDisk>>
  BY DEF Drops
<1>2. badDisk \subseteq badDisk' /\ faults' \in 0..share.faults
  BY <1>1, At
<1>3. Moves(s, ServeAbort(t), <<>>)
  BY <1>1, <1>2, Silent, Framing, ServeAbortIs, EndsMoves
<1> QED BY <1>3, ServeAbortIs, Framing

LEMMA WaitsMoves ==
  ASSUME Inv, NEW s \in Streams, NEW t, Asking(s, t), Waits(s, t)
  PROVE  \E x \in Snd, w \in Seq(Int) : Moves(s, x, w)
<1>1. GoesOn(s, t) /\ UNCHANGED <<sent, faults, badDisk>>
  BY DEF Waits
<1>2. badDisk \subseteq badDisk' /\ faults' \in 0..share.faults
  BY <1>1, At
<1>3. Moves(s, t, <<>>)
  BY <1>1, <1>2, Silent, Framing, GoesOnMoves DEF Asking
<1> QED BY <1>3, Framing DEF Asking

LEMMA HttpMoves ==
  ASSUME Inv, NEW s \in Streams, NEW t, Asking(s, t), rx[s].who # "app", ServeHttp(s, t)
  PROVE  \E x \in Snd, w \in Seq(Int) : Moves(s, x, w)
<1> DEFINE a  == [t EXCEPT !.lib = "gone"]
           t1 == [t EXCEPT !.row = "active"]
           d  == [t1 EXCEPT !.row = "done", !.lib = "gone"]
           t2 == [t1 EXCEPT !.path = TRUE, !.raw = TRUE, !.pump = TRUE]
<1>0. t \in Snd /\ sent[s] \in Seq(Int) /\ cur = s
  BY At DEF Asking
<1>1. /\ t1 \in Snd
      /\ a \in Snd /\ a.lib = "gone" /\ a.row = t.row
      /\ d \in Snd /\ d.lib = "gone" /\ d.row = "done"
  BY <1>0 DEF Snd
<1>2. t2 \in Snd /\ t2.lib = t.lib /\ t2.row = "active" /\ t2.path /\ t2.pump /\ t2.watch = t.watch
  BY <1>0 DEF Snd
<1>3. \/ HttpText(s, t)
      \/ Ends(s, ServeAbort(t1)) /\ UNCHANGED <<sent, faults, badDisk>>
      \/ Writes(s, <<HttpHead>>) /\ Ends(s, ServeCleanup(d)) /\ UNCHANGED <<faults, badDisk>>
      \/ Writes(s, <<HttpHead>>) /\ OpenMayFail(s) /\ Ends(s, ServeAbort(t1))
      \/ Writes(s, <<HttpHead>>) /\ DiskWorks /\ GoesOn(s, t2)
  BY DEF ServeHttp, HttpDownload
<1>4. HttpText(s, t) => Ends(s, ServeCleanup(a)) /\ UNCHANGED <<faults, badDisk>>
                        /\ (Writes(s, <<HttpHead>>) \/ UNCHANGED sent)
  BY DEF HttpText
<1> HIDE DEF a, t1, t2, d
<1>5. (OpenMayFail(s) \/ DiskWorks \/ UNCHANGED <<faults, badDisk>>)
        => badDisk \subseteq badDisk' /\ faults' \in 0..share.faults
  BY At DEF OpenMayFail, DiskWorks
<1>6. Writes(s, <<HttpHead>>) \/ UNCHANGED sent
        => \E w \in Seq(Int) : sent' = [sent EXCEPT ![s] = sent[s] \o w]
  BY Silent, Framing DEF Writes
<1>7. ASSUME NEW x \in Snd, Ends(s, x), ~x.path, x.req = <<>>, x.lib = "gone", x.row # "active",
             Writes(s, <<HttpHead>>) \/ UNCHANGED sent,
             OpenMayFail(s) \/ DiskWorks \/ UNCHANGED <<faults, badDisk>>
      PROVE  \E w \in Seq(Int) : Moves(s, x, w)
  BY <1>5, <1>6, <1>7, EndsMoves
<1>8. CASE Ends(s, ServeAbort(t1)) /\ (Writes(s, <<HttpHead>>) \/ UNCHANGED sent)
           /\ (OpenMayFail(s) \/ UNCHANGED <<faults, badDisk>>)
  BY <1>1, <1>7, <1>8, ServeAbortIs
<1>9. CASE HttpText(s, t)
  <2>1. a.row # "active"
    BY <1>1 DEF Asking
  <2> QED BY <1>1, <1>4, <1>7, <1>9, <2>1, CleanupIs
<1>10. CASE Writes(s, <<HttpHead>>) /\ Ends(s, ServeCleanup(d)) /\ UNCHANGED <<faults, badDisk>>
  BY <1>1, <1>7, <1>10, CleanupIs
<1>11. CASE Writes(s, <<HttpHead>>) /\ DiskWorks /\ GoesOn(s, t2)
  <2>1. file # NoFile
    BY <1>11 DEF DiskWorks
  <2>2. sent' = [sent EXCEPT ![s] = sent[s] \o <<HttpHead>>]
    BY <1>11 DEF Writes
  <2>3. Moves(s, t2, <<HttpHead>>)
    BY <1>0, <1>2, <1>5, <1>11, <2>1, <2>2, GoesOnMoves DEF Asking
  <2> QED BY <1>2, <2>3, Framing
<1> QED BY <1>3, <1>8, <1>9, <1>10, <1>11

LEMMA ServeMoves ==
  ASSUME Inv, NEW s \in Streams, NEW t, Asking(s, t), Serve(s, t)
  PROVE  \E x \in Snd, w \in Seq(Int) : Moves(s, x, w)
<1>1. t \in Snd
  BY DEF Asking
<1>2. CASE t.req[1] \in {"G", "H"}
  <2>1. rx[s].who # "app"
    <3> SUFFICES ASSUME rx[s].who = "app" PROVE FALSE
      OBVIOUS
    <3>1. t.req \in Seq({"B", "TXO"}) /\ t.req # <<>>
      BY DEF Asking, AppSays
    <3>2. t.req[1] \in {"B", "TXO"}
      BY <3>1
    <3> QED BY <1>2, <3>2
  <2>2. ServeHttp(s, t) \/ Drops(s, t) \/ Waits(s, t)
    BY <1>2 DEF Serve
  <2> QED BY <1>1, <2>1, <2>2, HttpMoves, DropsMoves, WaitsMoves
<1>3. CASE t.req[1] \notin {"G", "H"}
  <2>1. BeginSend(s, t) \/ Drops(s, t) \/ Waits(s, t)
    BY <1>3 DEF Serve
  <2> QED BY <1>1, <2>1, BeginSendMoves, DropsMoves, WaitsMoves
<1> QED BY <1>2, <1>3

LEMMA TxDataStep ==
  ASSUME Inv, NEW s \in Streams, TxData(s)
  PROVE  Inv'
<1>1. PICK k \in 1..Len(toTx[s]) :
        /\ toTx' = [toTx EXCEPT ![s] = Drop(@, k)]
        /\ IF cur # s \/ tx[s].row = "active" THEN UNCHANGED <<tx, gate, sent, faults, badDisk>>
           ELSE Serve(s, [tx[s] EXCEPT !.req = @ \o SubSeq(toTx[s], 1, k), !.fresh = TRUE])
  BY DEF TxData
<1>2. tx[s].lib = "open" /\ UNCHANGED <<share, file, rx, fed, cut>>
  BY DEF TxData
<1>3. tx[s] \in Snd /\ SendInv(s) /\ StreamInv(s) /\ GateInv /\ sent[s] \in Seq(Int) /\ toTx \in [Streams -> Seq(Words)]
      /\ toTx[s] \in Seq(Words) /\ tx[s].req \in Seq(Words)
  BY At DEF Inv, Types, Snd
<1>4. rx[s].who \in {"app", "browser"}
  BY <1>2, Served
<1> DEFINE came == SubSeq(toTx[s], 1, k)
           left == Drop(toTx[s], k)
<1>5. \A W : toTx[s] \in Seq(W) => came \in Seq(W) /\ left \in Seq(W)
  BY <1>1, <1>3 DEF Drop
<1>6. came # <<>> /\ Len(came) = k /\ k \in Nat /\ k > 0
  BY <1>1, <1>3
<1>7. toTx' \in [Streams -> Seq(Words)] /\ (\A q \in Streams \ {s} : toTx'[q] = toTx[q]) /\ toTx'[s] = left
  BY <1>1, <1>3, <1>5
<1>8. rx[s].who = "app" => left \in AppSays /\ came \in AppSays /\ tx[s].req \in AppSays
  BY <1>3, <1>5 DEF StreamInv, AppSays
<1> HIDE DEF came, left
<1>9. CASE cur # s \/ tx[s].row = "active"
  <2>1. UNCHANGED <<tx, busy, cur, sent, faults, badDisk>>
    BY <1>1, <1>9 DEF gate
  <2>2. tx' = [tx EXCEPT ![s] = tx[s]] /\ sent' = [sent EXCEPT ![s] = sent[s] \o <<>>]
    BY <2>1, Silent DEF Inv, Types
  <2>3. Holds(s, tx[s])
    BY <1>3, <2>1, StreamsNat DEF Holds, SendInv, GateInv
  <2>4. Moves(s, tx[s], <<>>)
    BY <1>2, <1>3, <1>8, <2>1, <2>2, <2>3, At, Framing DEF Moves, SendInv
  <2> QED BY <1>2, <1>3, <1>4, <1>7, <1>8, <2>4, Framing, MovesKeep
<1>10. CASE ~(cur # s \/ tx[s].row = "active")
  <2> DEFINE req == tx[s].req \o came
             t   == [tx[s] EXCEPT !.req = req, !.fresh = TRUE]
  <2>1. Serve(s, t)
    BY <1>1, <1>10 DEF came
  <2>2. req \in Seq(Words) /\ req # <<>>
    <3>1. came \in Seq(Words)
      BY <1>3, <1>5
    <3>2. Len(req) = Len(tx[s].req) + k /\ Len(tx[s].req) \in Nat /\ req \in Seq(Words)
      BY <1>3, <1>6, <3>1, ConcatProperties
    <3>3. Len(req) # 0 /\ Len(<<>>) = 0
      BY <1>6, <3>2
    <3> QED BY <3>2, <3>3
  <2>3. rx[s].who = "app" => req \in AppSays
    BY <1>8, ConcatProperties DEF AppSays
  <2> HIDE DEF req
  <2>4. t \in Snd /\ t.lib = tx[s].lib /\ t.row = tx[s].row /\ t.path = tx[s].path /\ t.watch = tx[s].watch
        /\ t.req = req
    BY <1>3, <2>2 DEF Snd
  <2> HIDE DEF t
  <2>5. tx[s].watch /\ ~tx[s].path /\ cur = s
    BY <1>3, <1>10, StreamsNat DEF SendInv, GateInv
  <2>6. Asking(s, t)
    BY <1>2, <1>10, <2>2, <2>3, <2>4, <2>5 DEF Asking
  <2>7. PICK x \in Snd, w \in Seq(Int) : Moves(s, x, w)
    BY <2>1, <2>6, ServeMoves
  <2> QED BY <1>2, <1>4, <1>7, <1>8, <2>7, MovesKeep
<1> QED BY <1>9, <1>10

LEMMA SliceIs ==
  ASSUME NEW q \in Cells, NEW off \in Nat, NEW m \in 0..Len(q)
  PROVE  SubSeq(q, off + 1, m) \in Cells /\ Len(SubSeq(q, off + 1, m)) \in Nat
BY DEF Cells

(* A tick of the pump: nothing to do, the end of the file or a read that    *)
(* failed, a write that is refused, or a frame.                             *)
LEMMA PumpSteps ==
  ASSUME NEW s, Pump(s)
  PROVE  LET t     == [tx[s] EXCEPT !.pump = FALSE]
             upto  == IF t.off + Chunk <= Len(file) THEN t.off + Chunk ELSE Len(file)
             slice == SubSeq(file, t.off + 1, upto)
             n     == Len(slice)
             frame == IF t.raw THEN slice ELSE FrameLength(n) \o slice
             last  == IF t.raw THEN <<>> ELSE Terminator
             d     == [t EXCEPT !.row = "done", !.lib = "gone"]
             t2    == [t EXCEPT !.off = @ + n, !.fresh = TRUE, !.pump = TRUE]
         IN  /\ t # tx[s] /\ UNCHANGED <<share, file, rx, toTx, fed, cut, refused, timedOut, edited>>
             /\ Disk(s, "none") \/ Disk(s, "read")
             /\ \/ ~t.path /\ GoesOn(s, t) /\ UNCHANGED sent
                \/ /\ t.path /\ (n = 0 \/ Disk(s, "read")) /\ Ends(s, ServeCleanup(d))
                   /\ Writes(s, last) \/ (WriteMayFail(s) /\ UNCHANGED sent)
                \/ t.path /\ WriteMayFail(s) /\ Ends(s, ServeAbort(t)) /\ UNCHANGED sent
                \/ t.path /\ n # 0 /\ Writes(s, frame) /\ GoesOn(s, t2)
<1> DEFINE t     == [tx[s] EXCEPT !.pump = FALSE]
           upto  == IF t.off + Chunk <= Len(file) THEN t.off + Chunk ELSE Len(file)
           slice == SubSeq(file, t.off + 1, upto)
           n     == Len(slice)
           frame == IF t.raw THEN slice ELSE FrameLength(n) \o slice
           last  == IF t.raw THEN <<>> ELSE Terminator
           d     == [t EXCEPT !.row = "done", !.lib = "gone"]
           t2    == [t EXCEPT !.off = @ + n, !.fresh = TRUE, !.pump = TRUE]
<1>1. /\ t # tx[s] /\ UNCHANGED <<share, file, rx, toTx, fed, cut, refused, timedOut, edited>>
      /\ \/ ~t.path /\ SetTx(s, t) /\ UNCHANGED <<gate, sent>> /\ Disk(s, "none")
         \/ t.path /\ Sends(s, t, slice) /\ Disk(s, "none")
         \/ t.path /\ slice # <<>> /\ Sends(s, t, <<>>) /\ Disk(s, "read")
  BY DEF Pump
<1>2. Len(<<>>) = 0
  OBVIOUS
<1>3. Sends(s, t, <<>>) => Ends(s, ServeCleanup(d)) /\ (Writes(s, last) \/ (WriteMayFail(s) /\ UNCHANGED sent))
  BY <1>2 DEF Sends
<1>4. Sends(s, t, slice) =>
        \/ n = 0 /\ Ends(s, ServeCleanup(d)) /\ (Writes(s, last) \/ (WriteMayFail(s) /\ UNCHANGED sent))
        \/ WriteMayFail(s) /\ Ends(s, ServeAbort(t)) /\ UNCHANGED sent
        \/ n # 0 /\ Writes(s, frame) /\ GoesOn(s, t2)
  BY DEF Sends
<1>5. SetTx(s, t) /\ UNCHANGED <<gate, sent>> => GoesOn(s, t) /\ UNCHANGED sent
  BY DEF GoesOn
<1> HIDE DEF t, upto, slice, n, frame, last, d, t2
<1>6. /\ Disk(s, "none") \/ Disk(s, "read")
      /\ \/ ~t.path /\ GoesOn(s, t) /\ UNCHANGED sent
         \/ /\ t.path /\ (n = 0 \/ Disk(s, "read")) /\ Ends(s, ServeCleanup(d))
            /\ Writes(s, last) \/ (WriteMayFail(s) /\ UNCHANGED sent)
         \/ t.path /\ WriteMayFail(s) /\ Ends(s, ServeAbort(t)) /\ UNCHANGED sent
         \/ t.path /\ n # 0 /\ Writes(s, frame) /\ GoesOn(s, t2)
  BY <1>1, <1>3, <1>4, <1>5
<1> QED BY <1>1, <1>6 DEF t, upto, slice, n, frame, last, d, t2

LEMMA PumpStep ==
  ASSUME Inv, NEW s \in Streams, Pump(s)
  PROVE  Inv'
<1> DEFINE t     == [tx[s] EXCEPT !.pump = FALSE]
           upto  == IF t.off + Chunk <= Len(file) THEN t.off + Chunk ELSE Len(file)
           slice == SubSeq(file, t.off + 1, upto)
           n     == Len(slice)
           frame == IF t.raw THEN slice ELSE FrameLength(n) \o slice
           last  == IF t.raw THEN <<>> ELSE Terminator
           d     == [t EXCEPT !.row = "done", !.lib = "gone"]
           t2    == [t EXCEPT !.off = @ + n, !.fresh = TRUE, !.pump = TRUE]
<1>1. /\ t # tx[s] /\ UNCHANGED <<share, file, rx, toTx, fed, cut>>
      /\ Disk(s, "none") \/ Disk(s, "read")
      /\ \/ ~t.path /\ GoesOn(s, t) /\ UNCHANGED sent
         \/ t.path /\ Ends(s, ServeCleanup(d)) /\ (Writes(s, last) \/ UNCHANGED sent)
         \/ t.path /\ Ends(s, ServeAbort(t)) /\ UNCHANGED sent
         \/ t.path /\ Writes(s, frame) /\ GoesOn(s, t2)
  BY PumpSteps
<1>2. tx[s] \in Snd /\ SendInv(s) /\ StreamInv(s) /\ GateInv /\ sent[s] \in Seq(Int) /\ toTx \in [Streams -> Seq(Words)]
  BY At DEF Inv, Types
<1>3. tx[s].pump
  BY <1>1, <1>2 DEF Snd
<1>4. tx[s].lib # "none" /\ rx[s].who \in {"app", "browser"}
  BY <1>3, Served
<1>5. badDisk \subseteq badDisk' /\ faults' \in 0..share.faults
  BY <1>1, DiskIs
<1>6. t \in Snd /\ t.lib = tx[s].lib /\ t.row = tx[s].row /\ t.path = tx[s].path /\ t.watch = tx[s].watch
      /\ t.req = tx[s].req /\ t.off \in Nat
  BY <1>2 DEF Snd
<1> HIDE DEF t
<1>7. d \in Snd /\ d.lib = "gone" /\ d.row = "done"
  BY <1>6 DEF Snd
<1> HIDE DEF d
<1>8. (cur = s => t.watch) /\ (t.path => cur = s /\ t.lib = "open" /\ file # NoFile) /\ (t.path <=> t.row = "active")
  BY <1>2, <1>6, StreamsNat DEF SendInv, GateInv
<1>9. rx[s].who = "app" => t.req \in AppSays /\ toTx'[s] \in AppSays
  BY <1>1, <1>2, <1>6 DEF StreamInv
<1>10. t.path => slice \in Cells /\ n \in Nat /\ frame \in Cells
  <2> SUFFICES ASSUME t.path PROVE slice \in Cells /\ n \in Nat /\ frame \in Cells
    OBVIOUS
  <2>1. file \in Cells
    BY <1>8 DEF Inv, Types, Files
  <2>2. upto \in 0..Len(file)
    <3>1. Len(file) \in Nat
      BY <2>1 DEF Cells
    <3> QED BY <1>6, <3>1, Constants
  <2> HIDE DEF upto
  <2>3. slice \in Cells /\ n \in Nat
    BY <1>6, <2>1, <2>2, SliceIs
  <2> HIDE DEF slice, n
  <2>4. FrameLength(n) \in Cells
    BY <2>3, Framing
  <2>5. FrameLength(n) \o slice \in Cells
    BY <2>3, <2>4, ConcatProperties DEF Cells
  <2> QED BY <2>3, <2>5
<1>11. last \in Cells
  BY Framing, Constants DEF Terminator
<1> HIDE DEF slice, frame, last, upto
<1>12. \E x \in Snd, w \in Seq(Int) : Moves(s, x, w)
  <2>1. CASE ~t.path /\ GoesOn(s, t) /\ UNCHANGED sent
    BY <1>4, <1>5, <1>6, <1>8, <1>9, <2>1, Silent, Framing, GoesOnMoves
  <2>2. CASE t.path /\ Ends(s, ServeCleanup(d)) /\ (Writes(s, last) \/ UNCHANGED sent)
    <3>1. ServeCleanup(d) \in Snd /\ ~ServeCleanup(d).path /\ ServeCleanup(d).req = <<>>
          /\ ServeCleanup(d).lib = "gone" /\ ServeCleanup(d).row # "active"
      BY <1>7, CleanupIs
    <3>2. PICK w \in Cells : sent' = [sent EXCEPT ![s] = sent[s] \o w]
      BY <1>11, <2>2, Silent, Framing DEF Writes
    <3>3. Moves(s, ServeCleanup(d), w)
      BY <1>5, <2>2, <3>1, <3>2, EndsMoves
    <3> QED BY <3>1, <3>3, Framing
  <2>3. CASE t.path /\ Ends(s, ServeAbort(t)) /\ UNCHANGED sent
    BY <1>5, <1>6, <2>3, Silent, Framing, ServeAbortIs, EndsMoves
  <2>4. CASE t.path /\ Writes(s, frame) /\ GoesOn(s, t2)
    <3>1. t2 \in Snd /\ t2.lib = t.lib /\ t2.row = t.row /\ t2.path = t.path /\ t2.watch = t.watch
          /\ t2.req = t.req /\ t2.pump
      <4>1. t.off + n \in Nat
        BY <1>6, <1>10, <2>4
      <4> HIDE DEF n
      <4> QED BY <1>6, <4>1 DEF Snd
    <3> HIDE DEF t2, n
    <3>2. sent' = [sent EXCEPT ![s] = sent[s] \o frame]
      BY <2>4 DEF Writes
    <3>3. Moves(s, t2, frame)
      BY <1>4, <1>5, <1>6, <1>8, <1>9, <1>10, <2>4, <3>1, <3>2, GoesOnMoves
    <3> QED BY <1>10, <2>4, <3>1, <3>3, Framing
  <2> QED BY <1>1, <2>1, <2>2, <2>3, <2>4
<1> QED BY <1>1, <1>2, <1>4, <1>9, <1>12, MovesKeep

-----------------------------------------------------------------------------
(* The world, and the invariant.                                           *)
LEMMA BreakStep ==
  ASSUME Inv, NEW s \in Streams, Break(s)
  PROVE  Inv'
<1>1. PICK k \in fed[s]..Len(sent[s]) : cut' = [cut EXCEPT ![s] = k]
  BY DEF Break
<1>2. /\ faults < share.faults /\ rx[s].lib \in {"dialing", "open"} /\ faults' = faults + 1
      /\ UNCHANGED <<share, file, busy, cur, tx, rx, toTx, sent, fed, badDisk>>
  BY DEF Break, gate, history
<1>3. fed[s] \in Nat /\ Len(sent[s]) \in Nat /\ cut \in [Streams -> Int] /\ k \in Nat /\ fed[s] <= k /\ k <= Len(sent[s])
  BY <1>1, At DEF Inv, Types
<1>4. cut'[s] = k /\ \A q \in Streams \ {s} : cut'[q] = cut[q]
  BY <1>1, <1>3
<1>5. Types'
  BY <1>1, <1>2, <1>3, At DEF Inv, Types
<1>6. GateInv' /\ \A q \in Streams : RecvInv(q)' /\ SendInv(q)'
  BY <1>2 DEF Inv, GateInv, RecvInv, Ended, SendInv
<1>7. rx[s].who # "none"
  BY <1>2, Dialed
<1>8. StreamInv(s)'
  <2>1. Arriving(s)' = k
    BY <1>3, <1>4 DEF Arriving, Lasting
  <2> QED BY <1>2, <1>3, <1>4, <1>7, <2>1 DEF Inv, StreamInv
<1>9. ASSUME NEW q \in Streams \ {s} PROVE StreamInv(q)'
  <2>1. Arriving(q)' = Arriving(q)
    BY <1>2, <1>4 DEF Arriving
  <2> QED BY <1>2, <1>4, <2>1 DEF Inv, StreamInv, Untouched
<1> QED BY <1>5, <1>6, <1>8, <1>9 DEF Inv

LEMMA EditStep ==
  ASSUME Inv, Edit
  PROVE  Inv'
<1>1. /\ faults < share.faults /\ faults' = faults + 1 /\ file' \in Edits
      /\ file' = NoFile => \A s \in Streams : ~tx[s].path
      /\ UNCHANGED <<share, busy, cur, tx, rx, toTx, sent, fed, cut, badDisk>>
  BY DEF Edit, gate, down
<1>2. file' \in Files /\ faults' \in 0..share.faults
  BY <1>1, TransferAssumption DEF Inv, Types, Files, Cells
<1>3. Types'
  BY <1>1, <1>2 DEF Inv, Types
<1>4. GateInv' /\ \A q \in Streams : RecvInv(q)' /\ SendInv(q)' /\ StreamInv(q)'
  BY <1>1 DEF Inv, GateInv, RecvInv, Ended, SendInv, StreamInv, Arriving, Untouched
<1> QED BY <1>3, <1>4 DEF Inv

LEMMA InitInv == Init => Inv
<1> SUFFICES ASSUME Init PROVE Inv
  OBVIOUS
<1>1. share \in [content : Seq(Nat), locked : BOOLEAN, web : BOOLEAN, callers : Nat, faults : Nat]
  BY TransferAssumption DEF Init
<1>2. file \in Files /\ share.faults \in Nat
  BY <1>1 DEF Init, Files, Cells
<1>3. NoTx \in Snd /\ NoTx.lib = "none" /\ NoTx.req = <<>> /\ ~NoTx.path /\ NoTx.row = ""
  BY Saying DEF NoTx, Snd
<1>4. NoRx \in Rcv /\ NoRx.who = "none" /\ NoRx.state = "" /\ NoRx.row = "" /\ ~NoRx.named /\ NoRx.buf = <<>>
      /\ NoRx.tmp = NoFile
  BY Saying, Framing DEF NoRx, Rcv, Files
<1>5. \A s \in Streams : /\ tx[s] = NoTx /\ rx[s] = NoRx /\ toTx[s] = <<>>
                         /\ sent[s] = <<>> /\ fed[s] = 0 /\ cut[s] = Lasting
  BY DEF Init, Each
<1>6. Types
  <2>1. tx \in [Streams -> Snd] /\ rx \in [Streams -> Rcv]
    BY <1>3, <1>4 DEF Init, Each
  <2>2. toTx \in [Streams -> Seq(Words)] /\ sent \in [Streams -> Seq(Int)]
    BY Saying, Framing DEF Init, Each
  <2>3. fed \in [Streams -> Nat] /\ cut \in [Streams -> Int]
    BY DEF Init, Each, Lasting
  <2> QED BY <1>2, <2>1, <2>2, <2>3 DEF Init, Types
<1>7. GateInv
  BY DEF Init, GateInv
<1>8. ASSUME NEW s \in Streams PROVE StreamInv(s)
  <2>1. Arriving(s) = Len(<<>>) /\ Len(<<>>) = 0 /\ Lasting <= 0
    BY <1>5 DEF Arriving, Lasting
  <2>2. fed[s] \in 0..Arriving(s) /\ cut[s] <= Len(sent[s])
    BY <1>5, <2>1
  <2> QED BY <1>3, <1>4, <1>5, <2>2, Framing DEF StreamInv, Untouched
<1>9. ASSUME NEW s \in Streams PROVE RecvInv(s) /\ SendInv(s)
  BY <1>3, <1>4, <1>5 DEF RecvInv, SendInv, Rest
<1> QED BY <1>6, <1>7, <1>8, <1>9 DEF Inv

LEMMA DialsStep ==
  ASSUME Inv, NEW s \in Streams, DialApp(s) \/ DialBrowser(s) \/ DialStranger(s)
  PROVE  Inv'
<1>1. PICK who \in {"app", "browser", "stranger"}, key \in BOOLEAN, wire \in Cells : Dial(s, who, key, wire)
  <2>1. share.locked \in BOOLEAN /\ <<>> \in Cells /\ ForeignWires \subseteq Cells
    BY At, Framing, TransferAssumption DEF Cells
  <2> QED BY <2>1 DEF DialApp, DialBrowser, DialStranger
<1> QED BY <1>1, DialStep

LEMMA NextInv == Inv /\ [Next]_vars => Inv'
<1> SUFFICES ASSUME Inv, [Next]_vars PROVE Inv'
  OBVIOUS
<1>1. CASE Edit
  BY <1>1, EditStep
<1>2. CASE \E s \in Streams : Receiver(s)
  BY <1>2, DialsStep, OverStep, OpenedStep, ReadStep, RecvWatchdogStep DEF Receiver
<1>3. CASE \E s \in Streams : Sender(s)
  BY <1>3, AcceptStep, TxDataStep, PumpStep, TxClosedStep, SendWatchdogStep DEF Sender
<1>4. CASE \E s \in Streams : Break(s)
  BY <1>4, BreakStep
<1>5. CASE UNCHANGED vars
  <2>1. UNCHANGED <<share, file, busy, cur, tx, rx, toTx, sent, fed, cut, faults, badDisk>>
    BY <1>5 DEF vars, gate, down, history
  <2> QED BY <2>1 DEF Inv, Types, GateInv, StreamInv, RecvInv, Ended, SendInv, Arriving, Untouched
<1> QED BY <1>1, <1>2, <1>3, <1>4, <1>5 DEF Next

LEMMA InvBooks == Inv => BooksKept
<1> SUFFICES ASSUME Inv PROVE BooksKept
  OBVIOUS
<1>1. ASSUME NEW s \in Streams
      PROVE  /\ tx[s].lib \in {"none", "open", "gone"} /\ tx[s].row \in {"", "active", "done", "error"}
             /\ rx[s].lib \in {"none", "dialing", "open", "gone"} /\ rx[s].state \in {"", "header", "body"}
             /\ rx[s].row \in {"", "connecting", "active", "done", "error"}
             /\ fed[s] \in 0..Arriving(s) /\ cut[s] <= Len(sent[s])
  <2>1. tx[s] \in Snd /\ rx[s] \in Rcv /\ Rest(rx[s]) /\ StreamInv(s)
    BY At
  <2>2. rx[s].state \in {"", "header", "body"}
    BY <2>1 DEF Rest, AtHeader
  <2> QED BY <2>1, <2>2 DEF Snd, Rcv, StreamInv
<1>2. TypeOK
  BY <1>1 DEF TypeOK, Inv, GateInv, Types
<1>3. GateKept
  BY DEF GateKept, Inv, GateInv, SendInv
<1>4. ReceiverKept
  <2> SUFFICES ASSUME NEW s \in Streams
               PROVE  /\ rx[s].state # "" <=> rx[s].row \in {"connecting", "active"}
                      /\ rx[s].state # "" => rx[s].watch
                      /\ rx[s].state = "body" <=> rx[s].row = "active"
                      /\ rx[s].state = "body" => rx[s].named /\ Len(rx[s].tmp) = rx[s].got
                      /\ rx[s].tmp # NoFile => rx[s].state = "body" \/ (Ended(s) /\ s \in badDisk)
    BY DEF ReceiverKept
  <2>1. Rest(rx[s]) /\ RecvInv(s)
    BY At
  <2> QED BY <2>1 DEF Rest, AtHeader, Writing, RecvInv
<1>5. BufferBounded
  <2> SUFFICES ASSUME NEW s \in Streams
               PROVE  Len(rx[s].buf) < IF rx[s].state = "body" THEN LengthCells + Chunk ELSE HeaderCells
    BY DEF BufferBounded
  <2>1. Rest(rx[s])
    BY At
  <2>2. Len(<<>>) = 0 /\ 0 < HeaderCells
    BY Constants
  <2> QED BY <2>1, <2>2 DEF Rest, AtHeader, Writing
<1> QED BY <1>2, <1>3, <1>4, <1>5 DEF BooksKept

(* Whoever calls, reads, breaks off, stalls or edits, in whatever order: the *)
(* gate of qsOnionPeer, the rows, the open file and its pump, the watchdogs  *)
(* and the temporary files agree, and no read leaves a whole frame behind.   *)
THEOREM BooksCorrect == Spec => []BooksKept
<1>1. Spec => []Inv
  BY InitInv, NextInv, PTL DEF Spec
<1> QED BY <1>1, InvBooks, PTL

-----------------------------------------------------------------------------
(* What a wire carries.                                                    *)

(* A function whose value at a place is read off one further on, up to M.   *)
Onward(nx, E, M) == nx \in [1..M -> Nat] /\ \A i \in (1..M) \ E : nx[i] \in 1..M /\ nx[i] > i
Descends(f, nx, E, G, e, M) == \A i \in 1..M : f[i] = IF i \in E THEN e ELSE G[i][f[nx[i]]]

LEMMA Descent ==
  ASSUME NEW M \in Nat \ {0}, NEW S, NEW e \in S, NEW E \in SUBSET (1..M), NEW G \in [1..M -> [S -> S]],
         NEW nx, Onward(nx, E, M)
  PROVE  \E f \in [1..M -> S] : Descends(f, nx, E, G, e, M)
<1> USE DEF Onward, Descends
<1> DEFINE Val(f, i) == IF i \in E THEN e ELSE G[i][f[nx[i]]]
           Good(k) == \E f \in [1..M -> S] : \A i \in 1..M : i > M - k => f[i] = Val(f, i)
           T == {k \in 0..M : Good(k)}
<1>1. Good(0)
  <2>1. [i \in 1..M |-> e] \in [1..M -> S] /\ \A i \in 1..M : ~(i > M - 0)
    OBVIOUS
  <2> QED BY <2>1
<1>2. ASSUME NEW k \in 1..M, Good(k - 1) PROVE Good(k)
  <2>1. PICK f \in [1..M -> S] : \A i \in 1..M : i > M - (k - 1) => f[i] = Val(f, i)
    BY <1>2
  <2> DEFINE j == M - (k - 1)
             v == Val(f, j)
             g == [i \in 1..M |-> IF i = j THEN v ELSE f[i]]
  <2>2. j \in 1..M /\ j = M - k + 1
    OBVIOUS
  <2>3. v \in S
    BY <2>2
  <2>4. g \in [1..M -> S]
    BY <2>3
  <2>5. ASSUME NEW i \in 1..M, i > M - k PROVE g[i] = Val(g, i)
    <3>1. i = j \/ i > j
      BY <2>2, <2>5
    <3>2. i \notin E => nx[i] \in 1..M /\ nx[i] # j
      BY <2>2, <3>1
    <3>3. Val(g, i) = Val(f, i)
      BY <3>2
    <3>4. CASE i = j
      BY <3>3, <3>4
    <3>5. CASE i > j
      BY <2>1, <2>2, <3>3, <3>5
    <3> QED BY <3>1, <3>4, <3>5
  <2> QED BY <2>4, <2>5
<1> HIDE DEF Good
<1>3. T = 0..M
  <2>1. 0 \in T /\ \A k \in 1..M : k - 1 \in T => k \in T
    BY <1>1, <1>2
  <2>2. T \in SUBSET (0..M)
    OBVIOUS
  <2> HIDE DEF T
  <2> QED BY <2>1, <2>2, Upto
<1>4. Good(M)
  <2> HIDE DEF T
  <2>1. M \in T
    BY <1>3
  <2> QED BY <2>1 DEF T
<1>5. PICK f \in [1..M -> S] : \A i \in 1..M : i > M - M => f[i] = Val(f, i)
  BY <1>4 DEF Good
<1>6. \A i \in 1..M : i > M - M
  OBVIOUS
<1>7. Descends(f, nx, E, G, e, M)
  BY <1>5, <1>6
<1> QED BY <1>7

LEMMA DescentIn ==
  ASSUME NEW M \in Nat \ {0}, NEW S, NEW E \in SUBSET (1..M), NEW nx, Onward(nx, E, M), NEW f,
         \A i \in 1..M : i \in E \/ f[nx[i]] \in S => f[i] \in S
  PROVE  \A i \in 1..M : f[i] \in S
<1> USE DEF Onward
<1> DEFINE T == {k \in 0..M : \A i \in 1..M : i > M - k => f[i] \in S}
<1>1. 0 \in T
  OBVIOUS
<1>2. ASSUME NEW k \in 1..M, k - 1 \in T PROVE k \in T
  <2>1. \A i \in 1..M : i > M - (k - 1) => f[i] \in S
    BY <1>2
  <2>2. ASSUME NEW i \in 1..M, i > M - k PROVE f[i] \in S
    <3>1. CASE i \in E
      BY <3>1
    <3>2. CASE i \notin E
      <4>1. nx[i] \in 1..M /\ nx[i] > M - (k - 1)
        BY <2>2, <3>2
      <4>2. f[nx[i]] \in S
        BY <2>1, <4>1
      <4> QED BY <3>2, <4>2
    <3> QED BY <3>1, <3>2
  <2> QED BY <2>2
<1>3. T = 0..M
  <2>1. T \in SUBSET (0..M)
    OBVIOUS
  <2> HIDE DEF T
  <2> QED BY <1>1, <1>2, <2>1, Upto
<1>4. M \in T
  <2> HIDE DEF T
  <2> QED BY <1>3
<1> QED BY <1>4

(* The frame that begins after the first q cells has n of them.             *)
Frame(w, q, n) == n \in 1..Chunk /\ q + 2 + n <= Len(w) /\ w[q + 1] * Radix + w[q + 2] = n

(* The cells after the header up to p are whole frames, which carry body:   *)
(* the least relation with its first pair that a frame extends.             *)
Pairs == Nat \X Cells

Extends(w, R) ==
  /\ <<3, <<>>>> \in R
  /\ \A q \in Nat, b \in Cells, n \in 1..Chunk :
       <<q, b>> \in R /\ Frame(w, q, n) => <<q + 2 + n, b \o SubSeq(w, q + 3, q + 2 + n)>> \in R

Carries(w, p, body) == <<p, body>> \in Pairs /\ \A R \in SUBSET Pairs : Extends(w, R) => <<p, body>> \in R

LEMMA CarriesStart == ASSUME NEW w PROVE Carries(w, 3, <<>>)
<1>1. <<3, <<>>>> \in Pairs
  BY Framing DEF Pairs
<1> QED BY <1>1 DEF Carries, Extends

LEMMA FrameIs ==
  ASSUME NEW w \in Cells, NEW q \in Nat, NEW n, Frame(w, q, n)
  PROVE  /\ n \in Nat \ {0} /\ q + 2 + n \in Nat /\ q + 2 + n <= Len(w) /\ Len(w) \in Nat
         /\ SubSeq(w, q + 3, q + 2 + n) \in Cells /\ Len(SubSeq(w, q + 3, q + 2 + n)) = n
         /\ w[q + 1] \in Nat /\ w[q + 2] \in Nat
<1>1. n \in Nat \ {0} /\ q + 2 + n \in Nat /\ q + 2 + n <= Len(w) /\ Len(w) \in Nat
  BY Constants DEF Frame, Cells
<1>2. w[q + 1] \in Nat /\ w[q + 2] \in Nat
  BY <1>1 DEF Cells
<1>3. q + 3 \in 1..Len(w) /\ q + 2 + n \in 1..Len(w) /\ q + 3 <= q + 2 + n
  BY <1>1
<1>4. SubSeq(w, q + 3, q + 2 + n) \in Seq(Nat) /\ Len(SubSeq(w, q + 3, q + 2 + n)) = n
  BY <1>1, <1>3 DEF Cells
<1> QED BY <1>1, <1>2, <1>4 DEF Cells

LEMMA CarriesNext ==
  ASSUME NEW w \in Cells, NEW p, NEW body, Carries(w, p, body), NEW n, Frame(w, p, n)
  PROVE  Carries(w, p + 2 + n, body \o SubSeq(w, p + 3, p + 2 + n))
<1> DEFINE b == body \o SubSeq(w, p + 3, p + 2 + n)
<1>1. p \in Nat /\ body \in Cells /\ n \in 1..Chunk
  BY DEF Carries, Pairs, Frame
<1>2. p + 2 + n \in Nat /\ SubSeq(w, p + 3, p + 2 + n) \in Cells
  BY <1>1, FrameIs
<1>3. b \in Cells
  BY <1>1, <1>2, ConcatProperties DEF Cells
<1>4. <<p + 2 + n, b>> \in Pairs
  BY <1>2, <1>3 DEF Pairs
<1>5. ASSUME NEW R \in SUBSET Pairs, Extends(w, R) PROVE <<p + 2 + n, b>> \in R
  <2>1. <<p, body>> \in R
    BY <1>5 DEF Carries
  <2> QED BY <1>1, <1>5, <2>1 DEF Extends
<1> QED BY <1>4, <1>5 DEF Carries

LEMMA CarriesIn ==
  ASSUME NEW w \in Cells, Len(w) >= 3, NEW p, NEW body, Carries(w, p, body)
  PROVE  p \in 3..Len(w) /\ body \in Cells
<1> DEFINE R == {x \in Pairs : x[1] \in 3..Len(w)}
<1>1. Len(w) \in Nat
  BY DEF Cells
<1>2. <<3, <<>>>> \in R
  <2>1. <<3, <<>>>> \in Pairs
    BY Framing DEF Pairs
  <2>2. 3 \in 3..Len(w)
    BY <1>1
  <2> QED BY <2>1, <2>2
<1>3. ASSUME NEW q \in Nat, NEW b \in Cells, NEW n \in 1..Chunk, <<q, b>> \in R, Frame(w, q, n)
      PROVE  <<q + 2 + n, b \o SubSeq(w, q + 3, q + 2 + n)>> \in R
  <2>1. q \in 3..Len(w)
    BY <1>3
  <2>2. q + 2 + n \in 3..Len(w) /\ q + 2 + n \in Nat
    BY <1>3, <2>1, FrameIs
  <2>3. b \o SubSeq(w, q + 3, q + 2 + n) \in Cells
    BY <1>3, FrameIs, ConcatProperties DEF Cells
  <2> QED BY <2>2, <2>3 DEF Pairs
<1>4. <<p, body>> \in R
  <2>1. Extends(w, R) /\ R \in SUBSET Pairs
    <3> HIDE DEF R
    <3>1. Extends(w, R)
      BY <1>2, <1>3 DEF Extends
    <3> QED BY <3>1 DEF R
  <2> HIDE DEF R
  <2> QED BY <2>1 DEF Carries
<1>5. body \in Cells
  BY DEF Carries, Pairs
<1> QED BY <1>4, <1>5

(* Frames are frames of every wire that begins like this one.               *)
LEMMA CarriesAlike ==
  ASSUME NEW w \in Cells, Len(w) >= 3, NEW p, NEW body, Carries(w, p, body),
         NEW v \in Cells, p <= Len(v), \A i \in 1..p : v[i] = w[i]
  PROVE  Carries(v, p, body)
<1> DEFINE R == {x \in Pairs : x[1] <= p => Carries(v, x[1], x[2])}
<1>0. p \in 3..Len(w) /\ Len(w) \in Nat /\ Len(v) \in Nat
  BY CarriesIn DEF Cells
<1>1. <<3, <<>>>> \in R
  BY CarriesStart, Framing DEF Pairs
<1>2. ASSUME NEW q \in Nat, NEW b \in Cells, NEW n \in 1..Chunk, <<q, b>> \in R, Frame(w, q, n)
      PROVE  <<q + 2 + n, b \o SubSeq(w, q + 3, q + 2 + n)>> \in R
  <2> DEFINE q2 == q + 2 + n
             b2 == b \o SubSeq(w, q + 3, q + 2 + n)
  <2>1. q2 \in Nat /\ n \in Nat \ {0} /\ q2 <= Len(w) /\ SubSeq(w, q + 3, q2) \in Cells
        /\ Len(SubSeq(w, q + 3, q2)) = n
    BY <1>2, FrameIs
  <2>2. b2 \in Cells
    BY <2>1, ConcatProperties DEF Cells
  <2>3. <<q2, b2>> \in Pairs
    BY <2>1, <2>2 DEF Pairs
  <2>4. ASSUME q2 <= p PROVE Carries(v, q2, b2)
    <3>1. Carries(v, q, b)
      BY <1>0, <1>2, <2>1, <2>4
    <3>2. q + 1 \in 1..p /\ q + 2 \in 1..p /\ q + 2 + n <= Len(v)
      BY <1>0, <2>1, <2>4
    <3>3. Frame(v, q, n)
      BY <1>2, <3>2 DEF Frame
    <3>4. SubSeq(v, q + 3, q2) = SubSeq(w, q + 3, q2)
      <4>1. \A i \in 1..n : SubSeq(v, q + 3, q2)[i] = SubSeq(w, q + 3, q2)[i]
        <5> SUFFICES ASSUME NEW i \in 1..n PROVE SubSeq(v, q + 3, q2)[i] = SubSeq(w, q + 3, q2)[i]
          OBVIOUS
        <5>1. q + 2 + i \in 1..p /\ i \in Nat /\ i <= n
          BY <2>1, <2>4, <1>0
        <5>2. SubSeq(v, q + 3, q2)[i] = v[q + 2 + i] /\ SubSeq(w, q + 3, q2)[i] = w[q + 2 + i]
          BY <1>0, <2>1, <3>2, <5>1 DEF Cells
        <5> QED BY <5>1, <5>2
      <4>2. SubSeq(v, q + 3, q2) \in Cells /\ Len(SubSeq(v, q + 3, q2)) = n
        BY <3>3, FrameIs
      <4> HIDE DEF q2
      <4> QED BY <2>1, <4>1, <4>2, SeqEqual DEF Cells
    <3> QED BY <3>1, <3>3, <3>4, CarriesNext
  <2> QED BY <2>3, <2>4
<1>3. <<p, body>> \in R
  <2>1. Extends(w, R) /\ R \in SUBSET Pairs
    <3> HIDE DEF R
    <3>1. Extends(w, R)
      BY <1>1, <1>2 DEF Extends
    <3> QED BY <3>1 DEF R
  <2> HIDE DEF R
  <2> QED BY <2>1 DEF Carries
<1> QED BY <1>0, <1>3

(* The payload, read from the first frame on.                               *)
NoFrame(w, q) == \A n \in 1..Chunk : ~Frame(w, q, n)

Reads(w, from) ==
  /\ from \in [1..(Len(w) + 1) -> Cells]
  /\ \A q \in Nat : q <= Len(w) =>
       /\ NoFrame(w, q) => from[q + 1] = <<>>
       /\ \A n \in 1..Chunk : Frame(w, q, n) => from[q + 1] = SubSeq(w, q + 3, q + 2 + n) \o from[q + 3 + n]

(* The definition of Payload, a cell at a time.                             *)
LengthAt(w, i) == IF i < Len(w) THEN w[i] * Radix + w[i + 1] ELSE 0
StopsAt(w, i) == LengthAt(w, i) = 0 \/ LengthAt(w, i) > Chunk \/ i + LengthCells + LengthAt(w, i) > Len(w) + 1
DataAt(w, i) == SubSeq(w, i + LengthCells, i + LengthCells + LengthAt(w, i) - 1)
ReadAt(w, f, i) == IF StopsAt(w, i) THEN <<>> ELSE DataAt(w, i) \o f[i + LengthCells + LengthAt(w, i)]

LEMMA PayloadIs ==
  ASSUME NEW w \in Cells, ~(Len(w) < HeaderCells), NEW h, h = [i \in 1..(Len(w) + 1) |-> ReadAt(w, h, i)]
  PROVE  \E g : g = [i \in 1..(Len(w) + 1) |-> ReadAt(w, g, i)] /\ Payload(w) = g[HeaderCells + 1]
<1> DEFINE Eq(f) == f = [i \in 1..Len(w) + 1 |->
                           LET n == IF i < Len(w) THEN w[i] * Radix + w[i + 1] ELSE 0
                               next == i + LengthCells + n
                           IN  IF n = 0 \/ n > Chunk \/ next > Len(w) + 1 THEN <<>>
                               ELSE SubSeq(w, i + LengthCells, next - 1) \o f[next]]
           g == CHOOSE f : Eq(f)
<1>1. ASSUME NEW f
      PROVE  Eq(f) <=> f = [i \in 1..(Len(w) + 1) |-> ReadAt(w, f, i)]
  <2> DEFINE Body(i) == LET n == IF i < Len(w) THEN w[i] * Radix + w[i + 1] ELSE 0
                            next == i + LengthCells + n
                        IN  IF n = 0 \/ n > Chunk \/ next > Len(w) + 1 THEN <<>>
                            ELSE SubSeq(w, i + LengthCells, next - 1) \o f[next]
  <2>1. Eq(f) <=> f = [i \in 1..(Len(w) + 1) |-> Body(i)]
    OBVIOUS
  <2>2. ASSUME NEW i \in 1..(Len(w) + 1) PROVE Body(i) = ReadAt(w, f, i)
    <3>1. CASE i < Len(w)
      <4> DEFINE m == w[i] * Radix + w[i + 1]
      <4>1. LengthAt(w, i) = m
        BY <3>1 DEF LengthAt
      <4>3. m \in Nat /\ i \in Nat /\ Len(w) \in Nat /\ LengthCells \in Nat /\ Chunk \in Nat
        <5>1. Len(w) \in Nat
          BY DEF Cells
        <5>2. i \in Nat /\ w[i] \in Nat /\ w[i + 1] \in Nat
          BY <3>1, <5>1 DEF Cells
        <5>3. \A a, b \in Nat : a * Radix + b \in Nat
          BY Constants
        <5> QED BY <5>1, <5>2, <5>3, Constants
      <4>2. Body(i) = IF m = 0 \/ m > Chunk \/ i + LengthCells + m > Len(w) + 1 THEN <<>>
                      ELSE SubSeq(w, i + LengthCells, i + LengthCells + m - 1) \o f[i + LengthCells + m]
        BY <3>1, <4>3
      <4> HIDE DEF Body, m
      <4> QED BY <4>1, <4>2 DEF ReadAt, StopsAt, DataAt
    <3>2. CASE ~(i < Len(w))
      <4>1. LengthAt(w, i) = 0
        BY <3>2 DEF LengthAt
      <4>2. Body(i) = <<>>
        BY <3>2
      <4> HIDE DEF Body
      <4> QED BY <4>1, <4>2 DEF ReadAt, StopsAt
    <3> QED BY <3>1, <3>2
  <2> HIDE DEF Body, Eq
  <2> QED BY <2>1, <2>2
<1>2. Payload(w) = g[HeaderCells + 1]
  BY DEF Payload
<1> HIDE DEF Eq
<1>3. Eq(g)
  BY <1>1
<1> HIDE DEF g
<1> QED BY <1>1, <1>2, <1>3

LEMMA FrameAt ==
  ASSUME NEW w \in Cells, NEW q \in Nat, q <= Len(w)
  PROVE  /\ LengthAt(w, q + 1) \in Nat
         /\ ~StopsAt(w, q + 1) => Frame(w, q, LengthAt(w, q + 1))
         /\ \A n \in 1..Chunk : Frame(w, q, n) => ~StopsAt(w, q + 1) /\ LengthAt(w, q + 1) = n
<1> DEFINE i == q + 1
           m == LengthAt(w, i)
<1>1. Len(w) \in Nat /\ i \in 1..(Len(w) + 1)
  BY DEF Cells
<1>2. m \in Nat
  <2>1. CASE i < Len(w)
    <3>1. w[i] \in Nat /\ w[i + 1] \in Nat
      BY <1>1, <2>1 DEF Cells
    <3>2. \A a, b \in Nat : a * Radix + b \in Nat
      BY Constants
    <3> QED BY <2>1, <3>1, <3>2 DEF LengthAt
  <2>2. CASE ~(i < Len(w))
    BY <2>2 DEF LengthAt
  <2> QED BY <2>1, <2>2
<1>3. ASSUME ~StopsAt(w, i) PROVE Frame(w, q, m)
  <2>1. m # 0 /\ ~(m > Chunk) /\ ~(i + 2 + m > Len(w) + 1)
    BY <1>3, Constants DEF StopsAt
  <2>2. i < Len(w)
    BY <2>1 DEF LengthAt
  <2>3. m = w[q + 1] * Radix + w[q + 2]
    BY <1>1, <2>2 DEF LengthAt
  <2> HIDE DEF m
  <2> QED BY <1>1, <1>2, <2>1, <2>3, Constants DEF Frame
<1>4. ASSUME NEW n \in 1..Chunk, Frame(w, q, n) PROVE ~StopsAt(w, i) /\ m = n
  <2>1. q + 2 + n <= Len(w) /\ n \in Nat \ {0} /\ n <= Chunk
    BY <1>4, Constants DEF Frame
  <2>2. i < Len(w) /\ i + 1 = q + 2
    BY <1>1, <2>1
  <2>3. m = n
    BY <1>4, <2>2 DEF LengthAt, Frame
  <2> HIDE DEF m
  <2> QED BY <1>1, <2>1, <2>3, Constants DEF StopsAt, m
<1> QED BY <1>2, <1>3, <1>4

LEMMA PayloadReads ==
  ASSUME NEW w \in Cells, Len(w) >= 3
  PROVE  \E from : Reads(w, from) /\ Payload(w) = from[4]
<1> DEFINE M == Len(w) + 1
           E  == {i \in 1..M : StopsAt(w, i)}
           G  == [i \in 1..M |-> IF i \in E THEN [c \in Cells |-> c] ELSE [c \in Cells |-> DataAt(w, i) \o c]]
           nx == [i \in 1..M |-> i + LengthCells + LengthAt(w, i)]
<1>1. Len(w) \in Nat /\ M \in Nat \ {0} /\ M = Len(w) + 1 /\ <<>> \in Cells
  <2>1. Len(w) \in Nat
    BY DEF Cells
  <2>2. M \in Nat \ {0} /\ M = Len(w) + 1
    BY <2>1
  <2>3. <<>> \in Cells
    BY Framing
  <2> QED BY <2>1, <2>2, <2>3
<1>2. ASSUME NEW i \in 1..M
      PROVE  /\ LengthAt(w, i) \in Nat
             /\ i \notin E => Frame(w, i - 1, LengthAt(w, i))
  <2>1. i - 1 \in Nat /\ i - 1 <= Len(w) /\ (i - 1) + 1 = i
    BY <1>1
  <2> QED BY <2>1, FrameAt
<1>3. ASSUME NEW i \in (1..M) \ E
      PROVE  /\ nx[i] \in 1..M /\ nx[i] > i
             /\ DataAt(w, i) \in Cells /\ DataAt(w, i) = SubSeq(w, i + 2, i + 1 + LengthAt(w, i))
  <2> DEFINE q == i - 1
             n == LengthAt(w, i)
  <2>1. q \in Nat /\ Frame(w, q, n)
    BY <1>1, <1>2
  <2> HIDE DEF n
  <2>2. n \in Nat \ {0} /\ q + 2 + n \in Nat /\ q + 2 + n <= Len(w) /\ SubSeq(w, q + 3, q + 2 + n) \in Cells
    BY <2>1, FrameIs
  <2>3. q + 3 = i + 2 /\ q + 2 + n = i + 1 + n /\ i + 2 + n - 1 = i + 1 + n
    BY <2>2
  <2>4. DataAt(w, i) = SubSeq(w, i + 2, i + 1 + n)
    BY <2>3, Constants DEF DataAt, n
  <2>5. nx[i] = i + 2 + n
    BY Constants DEF n
  <2> HIDE DEF nx
  <2> QED BY <1>1, <2>2, <2>3, <2>4, <2>5 DEF n
<1>4. G \in [1..M -> [Cells -> Cells]]
  <2> SUFFICES ASSUME NEW i \in 1..M PROVE G[i] \in [Cells -> Cells]
    OBVIOUS
  <2>1. CASE i \in E
    BY <2>1
  <2>2. CASE i \notin E
    <3>1. \A c \in Cells : DataAt(w, i) \o c \in Cells
      BY <1>3, <2>2, ConcatProperties DEF Cells
    <3> HIDE DEF E
    <3> QED BY <2>2, <3>1
  <2> QED BY <2>1, <2>2
<1>5. nx \in [1..M -> Nat]
  BY <1>1, <1>2, Constants
<1>6. E \in SUBSET (1..M)
  OBVIOUS
<1>7. ASSUME NEW f, NEW i \in 1..M, i \notin E => f[nx[i]] \in Cells
      PROVE  ReadAt(w, f, i) = IF i \in E THEN <<>> ELSE G[i][f[nx[i]]]
  BY <1>7 DEF ReadAt
<1> HIDE DEF E, G, nx
<1>12. Onward(nx, E, M) /\ M \in Nat \ {0} /\ <<>> \in Cells
  BY <1>1, <1>3, <1>5 DEF Onward
<1>13. PICK f \in [1..M -> Cells] : Descends(f, nx, E, G, <<>>, M)
  <2> HIDE DEF M
  <2> QED BY <1>4, <1>6, <1>12, Descent
<1>8. \A i \in 1..M : f[i] = IF i \in E THEN <<>> ELSE G[i][f[nx[i]]]
  BY <1>13 DEF Descends
<1>9. f = [i \in 1..M |-> ReadAt(w, f, i)]
  <2> HIDE DEF M
  <2>1. \A i \in 1..M : f[i] = ReadAt(w, f, i)
    BY <1>3, <1>7, <1>8
  <2> QED BY <2>1
<1>10. PICK g : g = [i \in 1..M |-> ReadAt(w, g, i)] /\ Payload(w) = g[4]
  <2>1. ~(Len(w) < HeaderCells) /\ HeaderCells + 1 = 4
    BY <1>1, Constants
  <2> QED BY <1>9, <2>1, PayloadIs
<1>11. \A i \in 1..M : g[i] = ReadAt(w, g, i)
  <2> HIDE DEF M
  <2> QED BY <1>10
<1>14. ASSUME NEW i \in 1..M, i \in E \/ g[nx[i]] \in Cells PROVE g[i] \in Cells
  <2>1. CASE i \in E
    BY <1>11, <1>12, <2>1 DEF ReadAt, E
  <2>2. CASE i \notin E
    <3>1. g[i] = DataAt(w, i) \o g[nx[i]]
      BY <1>11, <2>2 DEF ReadAt, E, nx
    <3> QED BY <1>3, <1>14, <2>2, <3>1, ConcatProperties DEF Cells
  <2> QED BY <2>1, <2>2
<1>15. \A i \in 1..M : g[i] \in Cells
  <2> HIDE DEF M
  <2> QED BY <1>6, <1>12, <1>14, DescentIn
<1>16. g \in [1..M -> Cells]
  BY <1>10, <1>15
<1>17. ASSUME NEW q \in Nat, q <= Len(w)
       PROVE  /\ NoFrame(w, q) => g[q + 1] = <<>>
              /\ \A n \in 1..Chunk : Frame(w, q, n) => g[q + 1] = SubSeq(w, q + 3, q + 2 + n) \o g[q + 3 + n]
  <2>1. q + 1 \in 1..M /\ g[q + 1] = ReadAt(w, g, q + 1)
    BY <1>1, <1>11, <1>17
  <2>2. NoFrame(w, q) => StopsAt(w, q + 1)
    BY <1>17, FrameAt DEF NoFrame, Frame
  <2>3. ASSUME NEW n \in 1..Chunk, Frame(w, q, n)
        PROVE  g[q + 1] = SubSeq(w, q + 3, q + 2 + n) \o g[q + 3 + n]
    <3>1. ~StopsAt(w, q + 1) /\ LengthAt(w, q + 1) = n /\ n \in Nat
      BY <1>17, <2>3, FrameAt, FrameIs
    <3>2. q + 1 + 2 = q + 3 /\ q + 1 + 2 + n - 1 = q + 2 + n /\ q + 1 + 2 + n = q + 3 + n
      BY <3>1
    <3>3. DataAt(w, q + 1) = SubSeq(w, q + 3, q + 2 + n)
      BY <3>1, <3>2, Constants DEF DataAt
    <3>4. ReadAt(w, g, q + 1) = DataAt(w, q + 1) \o g[q + 3 + n]
      BY <3>1, <3>2, Constants DEF ReadAt
    <3> QED BY <2>1, <3>3, <3>4
  <2>4. NoFrame(w, q) => g[q + 1] = <<>>
    BY <2>1, <2>2 DEF ReadAt
  <2> QED BY <2>3, <2>4
<1> QED BY <1>10, <1>16, <1>17 DEF Reads

(* What the frames up to a place carry is a beginning of the payload, and   *)
(* all of it where no frame follows.                                        *)
LEMMA PayloadCarries ==
  ASSUME NEW w \in Cells, Len(w) >= 3, NEW p, NEW body, Carries(w, p, body)
  PROVE  /\ Payload(w) \in Cells /\ Len(body) <= Len(Payload(w)) /\ body = SubSeq(Payload(w), 1, Len(body))
         /\ NoFrame(w, p) => Payload(w) = body
<1>1. PICK from : Reads(w, from) /\ Payload(w) = from[4]
  BY PayloadReads
<1>2. Len(w) \in Nat /\ from \in [1..(Len(w) + 1) -> Cells]
  BY <1>1 DEF Reads, Cells
<1> DEFINE R == {x \in Pairs : x[1] \in 3..Len(w) /\ Payload(w) = x[2] \o from[x[1] + 1]}
<1>3. <<3, <<>>>> \in R
  <2>1. <<3, <<>>>> \in Pairs /\ 3 \in 3..Len(w)
    <3>1. <<3, <<>>>> \in Pairs
      BY Framing DEF Pairs
    <3> QED BY <1>2, <3>1
  <2>2. 4 \in 1..(Len(w) + 1) /\ 3 + 1 = 4
    BY <1>2
  <2>3. from[4] \in Cells
    BY <1>2, <2>2
  <2>4. <<>> \o from[4] = from[4]
    BY <2>3, ConcatEmptySeq DEF Cells
  <2>5. Payload(w) = <<>> \o from[3 + 1]
    BY <1>1, <2>2, <2>4
  <2> QED BY <2>1, <2>5
<1>4. ASSUME NEW q \in Nat, NEW b \in Cells, NEW n \in 1..Chunk, <<q, b>> \in R, Frame(w, q, n)
      PROVE  <<q + 2 + n, b \o SubSeq(w, q + 3, q + 2 + n)>> \in R
  <2> DEFINE d == SubSeq(w, q + 3, q + 2 + n)
  <2>1. q \in 3..Len(w) /\ Payload(w) = b \o from[q + 1]
    BY <1>4
  <2>2. n \in Nat \ {0} /\ q + 2 + n \in Nat /\ q + 2 + n <= Len(w) /\ d \in Cells
    BY <1>4, FrameIs
  <2>3. from[q + 1] = d \o from[q + 3 + n]
    <3>1. q <= Len(w)
      BY <1>2, <2>1
    <3> QED BY <1>1, <1>4, <3>1 DEF Reads
  <2> HIDE DEF d
  <2>4. q + 3 + n = q + 2 + n + 1 /\ q + 3 + n \in 1..(Len(w) + 1) /\ q + 2 + n \in 3..Len(w)
    BY <1>2, <2>1, <2>2
  <2>5. from[q + 3 + n] \in Cells
    BY <1>2, <2>4
  <2>6. b \o (d \o from[q + 3 + n]) = (b \o d) \o from[q + 3 + n] /\ b \o d \in Cells
    <3> DEFINE u == from[q + 3 + n]
    <3>1. b \in Seq(Nat) /\ d \in Seq(Nat) /\ u \in Seq(Nat)
      BY <2>2, <2>5 DEF Cells
    <3> HIDE DEF u
    <3>2. (b \o d) \o u = b \o (d \o u)
      BY <3>1, ConcatAssociative
    <3>3. b \o d \in Seq(Nat)
      BY <3>1, ConcatProperties
    <3> QED BY <3>2, <3>3 DEF Cells, u
  <2> QED BY <2>1, <2>2, <2>3, <2>4, <2>6 DEF Pairs, d
<1>5. <<p, body>> \in R
  <2>1. Extends(w, R) /\ R \in SUBSET Pairs
    <3> HIDE DEF R
    <3>1. Extends(w, R)
      BY <1>3, <1>4 DEF Extends
    <3> QED BY <3>1 DEF R
  <2> HIDE DEF R
  <2> QED BY <2>1 DEF Carries
<1>6. p \in 3..Len(w) /\ body \in Cells /\ Payload(w) = body \o from[p + 1]
  BY <1>5 DEF Pairs
<1>7. from[p + 1] \in Cells /\ p \in Nat /\ p <= Len(w)
  BY <1>2, <1>6
<1>8. Payload(w) \in Cells /\ Len(body) \in Nat /\ Len(body) <= Len(Payload(w))
  BY <1>6, <1>7, ConcatProperties DEF Cells
<1>9. body = SubSeq(Payload(w), 1, Len(body))
  <2>1. \A i \in 1..Len(body) : body[i] = (body \o from[p + 1])[i]
    BY <1>6, <1>7, ConcatProperties DEF Cells
  <2>2. SubSeq(Payload(w), 1, Len(body)) \in Cells /\ Len(SubSeq(Payload(w), 1, Len(body))) = Len(body)
        /\ \A i \in 1..Len(body) : SubSeq(Payload(w), 1, Len(body))[i] = Payload(w)[i]
    BY <1>8 DEF Cells
  <2> QED BY <1>6, <2>1, <2>2, SeqEqual DEF Cells
<1>10. NoFrame(w, p) => Payload(w) = body
  <2> SUFFICES ASSUME NoFrame(w, p) PROVE Payload(w) = body
    OBVIOUS
  <2>1. from[p + 1] = <<>>
    BY <1>1, <1>7 DEF Reads
  <2> QED BY <1>6, <2>1, ConcatEmptySeq DEF Cells
<1> QED BY <1>8, <1>9, <1>10

-----------------------------------------------------------------------------
(* What the receiver has heard.                                             *)
LEMMA SubIs ==
  ASSUME NEW q \in Cells, NEW p \in Nat, NEW n \in Nat, p + n <= Len(q), NEW a, NEW b, a = p + 1, b = p + n
  PROVE  /\ SubSeq(q, a, b) \in Cells /\ Len(SubSeq(q, a, b)) = n
         /\ \A i \in 1..n : SubSeq(q, a, b)[i] = q[p + i]
BY DEF Cells

LEMMA DropMore ==
  ASSUME NEW q \in Cells, NEW p \in 0..Len(q), NEW data \in Cells
  PROVE  Drop(q, p) \o data = Drop(q \o data, p) /\ q \o data \in Cells /\ Len(q \o data) = Len(q) + Len(data)
         /\ \A i \in 1..Len(q) : (q \o data)[i] = q[i]
<1>1. /\ q \o data \in Cells /\ Len(q \o data) = Len(q) + Len(data) /\ Len(q) \in Nat /\ Len(data) \in Nat
      /\ \A i \in 1..(Len(q) + Len(data)) : (q \o data)[i] = IF i <= Len(q) THEN q[i] ELSE data[i - Len(q)]
  BY ConcatProperties DEF Cells
<1>2. p \in 0..Len(q \o data)
  BY <1>1
<1>3. Drop(q, p) \in Cells /\ Len(Drop(q, p)) = Len(q) - p /\ \A i \in 1..(Len(q) - p) : Drop(q, p)[i] = q[p + i]
  BY DropIs
<1>4. /\ Drop(q \o data, p) \in Cells /\ Len(Drop(q \o data, p)) = Len(q) + Len(data) - p
      /\ \A i \in 1..(Len(q) + Len(data) - p) : Drop(q \o data, p)[i] = (q \o data)[p + i]
  <2> DEFINE u == q \o data
  <2>1. u \in Cells /\ p \in 0..Len(u) /\ Len(u) = Len(q) + Len(data)
    BY <1>1, <1>2
  <2> HIDE DEF u
  <2>2. /\ Drop(u, p) \in Cells /\ Len(Drop(u, p)) = Len(u) - p
        /\ \A i \in 1..(Len(u) - p) : Drop(u, p)[i] = u[p + i]
    BY <2>1, DropIs
  <2> QED BY <2>1, <2>2 DEF u
<1> DEFINE a == Drop(q, p)
           x == a \o data
           y == Drop(q \o data, p)
<1>5. /\ x \in Cells /\ Len(x) = Len(q) - p + Len(data)
      /\ \A i \in 1..(Len(a) + Len(data)) : x[i] = IF i <= Len(a) THEN a[i] ELSE data[i - Len(a)]
  <2>1. a \in Seq(Nat) /\ Len(a) = Len(q) - p /\ data \in Seq(Nat)
    BY <1>3 DEF Cells
  <2> HIDE DEF a
  <2>2. /\ a \o data \in Seq(Nat) /\ Len(a \o data) = Len(a) + Len(data)
        /\ \A i \in 1..(Len(a) + Len(data)) : (a \o data)[i] = IF i <= Len(a) THEN a[i] ELSE data[i - Len(a)]
    BY <2>1, ConcatProperties
  <2> QED BY <2>1, <2>2 DEF Cells
<1> HIDE DEF a, x, y
<1>6. ASSUME NEW i \in 1..Len(x) PROVE x[i] = y[i]
  <2>1. i \in 1..(Len(q) + Len(data) - p) /\ y[i] = (q \o data)[p + i] /\ p + i \in 1..(Len(q) + Len(data))
    BY <1>1, <1>4, <1>5 DEF y
  <2>2. CASE i <= Len(q) - p
    <3>1. x[i] = q[p + i]
      BY <1>1, <1>3, <1>5, <2>1, <2>2 DEF a
    <3>2. (q \o data)[p + i] = q[p + i]
      BY <1>1, <2>1, <2>2
    <3> QED BY <2>1, <3>1, <3>2
  <2>3. CASE ~(i <= Len(q) - p)
    <3>1. Len(a) = Len(q) - p
      BY <1>3 DEF a
    <3>2. x[i] = data[i - Len(a)]
      BY <1>1, <1>5, <2>1, <2>3, <3>1
    <3>3. (q \o data)[p + i] = data[p + i - Len(q)] /\ p + i - Len(q) = i - Len(a)
      BY <1>1, <2>1, <2>3, <3>1
    <3> QED BY <2>1, <3>2, <3>3
  <2> QED BY <1>1, <2>1, <2>2, <2>3
<1>7. x = y
  <2>1. y \in Cells /\ Len(y) = Len(x)
    BY <1>1, <1>4, <1>5 DEF y
  <2> QED BY <1>5, <1>6, <2>1, SeqEqual DEF Cells
<1> QED BY <1>1, <1>7 DEF x, y, a

LEMMA DropDrop ==
  ASSUME NEW q \in Cells, NEW p \in 0..Len(q), NEW n \in 0..(Len(q) - p)
  PROVE  Drop(Drop(q, p), n) = Drop(q, p + n)
<1>1. Len(q) \in Nat /\ p \in Nat /\ n \in Nat /\ p + n \in 0..Len(q)
  BY DEF Cells
<1>2. Drop(q, p) \in Cells /\ Len(Drop(q, p)) = Len(q) - p /\ \A i \in 1..(Len(q) - p) : Drop(q, p)[i] = q[p + i]
  BY DropIs
<1>3. /\ Drop(q, p + n) \in Cells /\ Len(Drop(q, p + n)) = Len(q) - (p + n)
      /\ \A i \in 1..(Len(q) - (p + n)) : Drop(q, p + n)[i] = q[p + n + i]
  BY <1>1, DropIs
<1> DEFINE a == Drop(q, p)
           y == Drop(q, p + n)
           x == Drop(a, n)
<1> HIDE DEF a, y, x
<1>4. /\ x \in Cells /\ Len(x) = Len(a) - n /\ \A i \in 1..(Len(a) - n) : x[i] = a[n + i]
  BY <1>2, DropIs DEF a, x
<1>5. ASSUME NEW i \in 1..Len(x) PROVE x[i] = y[i]
  <2>1. i \in 1..(Len(q) - (p + n)) /\ n + i \in 1..(Len(q) - p) /\ i \in 1..(Len(a) - n) /\ p + n + i = p + (n + i)
    BY <1>1, <1>2, <1>4 DEF a
  <2> QED BY <1>2, <1>3, <1>4, <2>1 DEF a, y
<1>6. Len(x) = Len(y)
  <2>1. Len(a) = Len(q) - p /\ Len(x) = Len(a) - n /\ Len(y) = Len(q) - (p + n)
    BY <1>2, <1>3, <1>4 DEF a, y
  <2> QED BY <1>1, <2>1
<1>7. x = y
  BY <1>3, <1>4, <1>5, <1>6, SeqEqual DEF Cells, y
<1> QED BY <1>7 DEF x, y, a

LEMMA SubFrom3 ==
  ASSUME NEW a \in Cells, NEW n \in Nat, 2 + n <= Len(a)
  PROVE  /\ SubSeq(a, 3, 2 + n) \in Cells /\ Len(SubSeq(a, 3, 2 + n)) = n
         /\ \A i \in 1..n : SubSeq(a, 3, 2 + n)[i] = a[2 + i]
BY DEF Cells

LEMMA SubFromP ==
  ASSUME NEW q \in Cells, NEW p \in Nat, NEW n \in Nat, p + 2 + n <= Len(q)
  PROVE  /\ SubSeq(q, p + 3, p + 2 + n) \in Cells /\ Len(SubSeq(q, p + 3, p + 2 + n)) = n
         /\ \A i \in 1..n : SubSeq(q, p + 3, p + 2 + n)[i] = q[p + 2 + i]
BY DEF Cells

LEMMA SubDrop ==
  ASSUME NEW q \in Cells, NEW p \in 0..Len(q), NEW n \in Nat \ {0}, p + 2 + n <= Len(q)
  PROVE  /\ SubSeq(Drop(q, p), 3, 2 + n) = SubSeq(q, p + 3, p + 2 + n)
         /\ Drop(q, p)[1] = q[p + 1] /\ Drop(q, p)[2] = q[p + 2]
<1>1. Len(q) \in Nat /\ p \in Nat /\ n \in Nat
  BY DEF Cells
<1> DEFINE a == Drop(q, p)
           x == SubSeq(a, 3, 2 + n)
           y == SubSeq(q, p + 3, p + 2 + n)
<1>2. a \in Cells /\ Len(a) = Len(q) - p /\ \A i \in 1..(Len(q) - p) : a[i] = q[p + i]
  BY DropIs
<1> HIDE DEF a
<1>3. a[1] = q[p + 1] /\ a[2] = q[p + 2]
  BY <1>1, <1>2
<1>4. /\ x \in Cells /\ Len(x) = n /\ \A i \in 1..n : x[i] = a[2 + i]
  <2>1. 2 + n <= Len(a)
    BY <1>1, <1>2
  <2> QED BY <1>1, <1>2, <2>1, SubFrom3
<1>5. /\ y \in Cells /\ Len(y) = n /\ \A i \in 1..n : y[i] = q[p + 2 + i]
  BY <1>1, SubFromP
<1> HIDE DEF x, y
<1>6. ASSUME NEW i \in 1..n PROVE x[i] = y[i]
  <2>1. 2 + i \in 1..(Len(q) - p) /\ p + (2 + i) = p + 2 + i
    BY <1>1
  <2> QED BY <1>2, <1>4, <1>5, <2>1
<1>7. x = y
  BY <1>4, <1>5, <1>6, SeqEqual DEF Cells
<1> QED BY <1>3, <1>7 DEF x, y, a

(* Of what was handed over: the header as the code wants it, the frames     *)
(* written, and the rest still in the buffer.                               *)
Stored(r, H, body) == HeaderSound(H, r.key) /\ \E p \in Nat : Carries(H, p, body)
Got(r, H) ==
  /\ HeaderSound(H, r.key) /\ r.total = H[3] /\ r.enc = Flag(r.key)
  /\ \E p \in Nat : Carries(H, p, r.tmp) /\ (r.state = "body" => r.buf = Drop(H, p))
Landed(r, body) == r.saved = Unsealed(r.key, body) /\ (r.key => Unlockable(body))
Saved(r, H) == r.row = "done" => \E body \in Cells : Len(body) = H[3] /\ Stored(r, H, body) /\ Landed(r, body)
Hears(r, H) ==
  /\ Saved(r, H)
  /\ r.state = "header" => r.buf = H
  /\ r.state \in {"body", "done"} => Got(r, H)

LEMMA HeaderMore ==
  ASSUME NEW H \in Cells, NEW data \in Cells, NEW key, HeaderSound(H, key)
  PROVE  HeaderSound(H \o data, key) /\ (H \o data)[3] = H[3] /\ Len(H) >= 3 /\ Len(H) \in Nat
<1>1. Len(H) >= 3 /\ Len(H) \in Nat
  BY Constants DEF HeaderSound, Cells
<1>2. 0 \in 0..Len(H)
  BY <1>1
<1>3. Len(H \o data) = Len(H) + Len(data) /\ \A i \in 1..Len(H) : (H \o data)[i] = H[i]
  BY <1>2, DropMore
<1>4. Len(data) \in Nat
  BY DEF Cells
<1>5. (H \o data)[1] = H[1] /\ (H \o data)[2] = H[2] /\ (H \o data)[3] = H[3] /\ Len(H \o data) >= 3
  BY <1>1, <1>3, <1>4
<1> QED BY <1>1, <1>5, Constants DEF HeaderSound, Promised

LEMMA CarriesMore ==
  ASSUME NEW H \in Cells, Len(H) >= 3, NEW data \in Cells, NEW p, NEW body, Carries(H, p, body)
  PROVE  Carries(H \o data, p, body) /\ p \in 3..Len(H)
<1>1. p \in 3..Len(H) /\ Len(H) \in Nat /\ Len(data) \in Nat
  BY CarriesIn DEF Cells
<1>2. 0 \in 0..Len(H)
  BY <1>1
<1>3. H \o data \in Cells /\ Len(H \o data) = Len(H) + Len(data) /\ \A i \in 1..Len(H) : (H \o data)[i] = H[i]
  BY <1>2, DropMore
<1>4. p <= Len(H \o data) /\ \A i \in 1..p : (H \o data)[i] = H[i]
  BY <1>1, <1>3
<1> QED BY <1>1, <1>3, <1>4, CarriesAlike

LEMMA SavedMore ==
  ASSUME NEW H \in Cells, NEW data \in Cells, NEW r, Saved(r, H)
  PROVE  Saved(r, H \o data)
<1> SUFFICES ASSUME r.row = "done"
             PROVE  \E body \in Cells : Len(body) = (H \o data)[3] /\ Stored(r, H \o data, body) /\ Landed(r, body)
  BY DEF Saved
<1>1. PICK body \in Cells : Len(body) = H[3] /\ Stored(r, H, body) /\ Landed(r, body)
  BY DEF Saved
<1>2. PICK p \in Nat : Carries(H, p, body)
  BY <1>1 DEF Stored
<1>3. HeaderSound(H \o data, r.key) /\ (H \o data)[3] = H[3] /\ Len(H) >= 3
  BY <1>1, HeaderMore DEF Stored
<1>4. Carries(H \o data, p, body)
  BY <1>2, <1>3, CarriesMore
<1> QED BY <1>1, <1>3, <1>4 DEF Stored

LEMMA AbortHears ==
  ASSUME NEW bad, NEW r \in Rcv, r.named \/ r.tmp = NoFile, NEW H
  PROVE  Hears(RecvAbort(r, bad), H)
<1>1. Aborted(RecvAbort(r, bad), bad)
  BY AbortIs
<1> QED BY <1>1 DEF Aborted, Hears, Saved

LEMMA TakenHears ==
  ASSUME NEW r, Rest(r), r.state \in {"header", "body"}, NEW H \in Cells, Hears(r, H), NEW data \in Cells
  PROVE  Hears(Taken(r, data), H \o data)
<1> DEFINE y == Taken(r, data)
<1>1. r \in Rcv
  BY DEF Rest
<1>2. y.buf = r.buf \o data /\ y.state = r.state /\ y.row = r.row /\ y.tmp = r.tmp /\ y.key = r.key
      /\ y.total = r.total /\ y.saved = r.saved /\ y.enc = r.enc
  BY <1>1 DEF Taken, Rcv
<1> HIDE DEF y
<1>3. r.row # "done" /\ r.state \in {"header", "body"}
  BY DEF Rest, AtHeader, Writing
<1>4. CASE r.state = "header"
  <2>1. r.buf = H
    BY <1>4 DEF Hears
  <2> QED BY <1>2, <1>3, <1>4, <2>1 DEF Hears, Saved, y
<1>5. CASE r.state = "body"
  <2>1. HeaderSound(H, r.key) /\ r.total = H[3] /\ r.enc = Flag(r.key)
    BY <1>5 DEF Hears, Got
  <2>2. PICK p \in Nat : Carries(H, p, r.tmp) /\ r.buf = Drop(H, p)
    BY <1>5 DEF Hears, Got
  <2>3. HeaderSound(H \o data, r.key) /\ (H \o data)[3] = H[3] /\ Len(H) >= 3 /\ Len(H) \in Nat
    BY <2>1, HeaderMore
  <2>4. Carries(H \o data, p, r.tmp) /\ p \in 0..Len(H)
    <3>1. Carries(H \o data, p, r.tmp) /\ p \in 3..Len(H)
      BY <2>2, <2>3, CarriesMore
    <3> QED BY <2>3, <3>1
  <2>5. y.buf = Drop(H \o data, p)
    <3>1. Drop(H, p) \o data = Drop(H \o data, p)
      BY <2>4, DropMore
    <3> QED BY <1>2, <2>2, <3>1
  <2>6. Got(y, H \o data)
    BY <1>2, <2>1, <2>3, <2>4, <2>5 DEF Got
  <2> QED BY <1>2, <1>3, <1>5, <2>6 DEF Hears, Saved, y
<1> QED BY <1>3, <1>4, <1>5

LEMMA ParseHeaderHears ==
  ASSUME NEW bad, NEW r \in Rcv, AtHeader(r), NEW H \in Cells, Hears(r, H)
  PROVE  Hears(ParseHeader(r, bad), H)
<1> DEFINE y == ParseHeader(r, bad)
           z == [r EXCEPT !.enc = r.buf[2], !.total = r.buf[3], !.named = TRUE, !.tmp = <<>>,
                          !.buf = Drop(@, HeaderCells), !.state = "body", !.row = "active"]
           sound == r.buf[1] = Magic /\ r.buf[3] <= MaxTotal /\ r.buf[2] = Flag(r.key)
<1>1. r.buf = H
  BY DEF Hears, AtHeader
<1>2. y = r \/ y = RecvAbort(r, bad) \/ (y = z /\ ~(Len(r.buf) < HeaderCells) /\ sound)
  BY DEF ParseHeader
<1>3. CASE y = r
  BY <1>3
<1>4. CASE y = RecvAbort(r, bad)
  BY <1>4, AbortHears DEF AtHeader
<1>5. CASE y = z /\ ~(Len(r.buf) < HeaderCells) /\ sound
  <2>1. Len(H) \in Nat /\ Len(H) >= 3
    BY <1>1, <1>5, Constants DEF Cells
  <2>2. HeaderSound(H, r.key)
    BY <1>1, <1>5, <2>1, Constants DEF HeaderSound, Promised
  <2>3. z.key = r.key /\ z.enc = H[2] /\ z.total = H[3] /\ z.tmp = <<>> /\ z.buf = Drop(H, 3) /\ z.state = "body" /\ z.row = "active"
    BY <1>1, Constants DEF Rcv
  <2> HIDE DEF z
  <2>4. Got(z, H)
    BY <2>2, <2>3, CarriesStart DEF Got, HeaderSound
  <2> HIDE DEF y
  <2> QED BY <1>5, <2>3, <2>4 DEF Hears, Saved, y
<1> QED BY <1>2, <1>3, <1>4, <1>5

LEMMA FrameStepHears ==
  ASSUME NEW bad, NEW r, Mid(r, bad), NEW H \in Cells, Hears(r, H)
  PROVE  Hears(FrameStep(r, bad), H)
<1> DEFINE n == r.buf[1] * Radix + r.buf[2]
           y == FrameStep(r, bad)
           d == [r EXCEPT !.buf = Drop(@, LengthCells), !.state = "done"]
           z == [r EXCEPT !.tmp = @ \o SubSeq(r.buf, LengthCells + 1, LengthCells + n),
                          !.got = @ + n, !.buf = Drop(@, LengthCells + n)]
<1>0. r \in Rcv /\ r.buf \in Cells /\ Len(r.buf) \in Nat
  <2>1. r \in Rcv /\ r.buf \in Cells
    BY DEF Mid, Rcv
  <2> QED BY <2>1 DEF Cells
<1>1. \/ y = r
      \/ r.state = "body" /\ y = RecvAbort(r, bad)
      \/ r.state = "body" /\ y = d
      \/ /\ r.state = "body" /\ y = z
         /\ ~(Len(r.buf) < LengthCells) /\ n # 0 /\ ~(n > Chunk) /\ ~(Len(r.buf) < LengthCells + n)
  BY DEF FrameStep
<1>2. CASE y = r
  BY <1>2
<1>3. ASSUME r.state = "body"
      PROVE  /\ Writing(r) /\ HeaderSound(H, r.key) /\ r.total = H[3] /\ r.enc = Flag(r.key) /\ Len(H) \in Nat /\ Len(H) >= 3
             /\ \E p \in 3..Len(H) : Carries(H, p, r.tmp) /\ r.buf = Drop(H, p)
  <2>1. Writing(r)
    BY <1>3 DEF Mid, AtHeader, Aborted
  <2>2. HeaderSound(H, r.key) /\ r.total = H[3] /\ r.enc = Flag(r.key)
    BY <1>3 DEF Hears, Got
  <2>3. Len(H) \in Nat /\ Len(H) >= 3
    BY <2>2, Constants DEF HeaderSound, Cells
  <2>4. PICK p \in Nat : Carries(H, p, r.tmp) /\ r.buf = Drop(H, p)
    BY <1>3 DEF Hears, Got
  <2>5. p \in 3..Len(H)
    BY <2>3, <2>4, CarriesIn
  <2> QED BY <2>1, <2>2, <2>3, <2>4, <2>5
<1>4. CASE r.state = "body" /\ y = RecvAbort(r, bad)
  BY <1>0, <1>3, <1>4, AbortHears DEF Writing
<1>5. CASE r.state = "body" /\ y = d
  <2>1. d.key = r.key /\ d.enc = r.enc /\ d.total = r.total /\ d.tmp = r.tmp /\ d.state = "done" /\ d.row = r.row
    BY <1>0 DEF Rcv
  <2> HIDE DEF d
  <2>2. Got(d, H)
    BY <1>3, <1>5, <2>1 DEF Got
  <2> HIDE DEF y
  <2> QED BY <1>3, <1>5, <2>1, <2>2 DEF Hears, Saved, Writing, y
<1>6. CASE /\ r.state = "body" /\ y = z
           /\ ~(Len(r.buf) < LengthCells) /\ n # 0 /\ ~(n > Chunk) /\ ~(Len(r.buf) < LengthCells + n)
  <2>1. n \in Nat
    <3>1. r.buf[1] \in Nat /\ r.buf[2] \in Nat
      <4>1. Len(r.buf) >= 2
        BY <1>0, <1>6, Constants
      <4> QED BY <1>0, <4>1 DEF Cells
    <3>2. \A a, b \in Nat : a * Radix + b \in Nat
      BY Constants
    <3> QED BY <3>1, <3>2
  <2>2. PICK p \in 3..Len(H) : Carries(H, p, r.tmp) /\ r.buf = Drop(H, p)
    BY <1>3, <1>6
  <2>3. Len(H) \in Nat /\ Len(H) >= 3 /\ p \in 0..Len(H) /\ p \in Nat
    BY <1>3, <1>6
  <2> HIDE DEF n
  <2>4. Len(r.buf) = Len(H) - p
    BY <2>2, <2>3, DropIs
  <2>5. n \in Nat \ {0} /\ n \in 1..Chunk /\ p + 2 + n <= Len(H) /\ 2 + n \in 0..(Len(H) - p)
    BY <1>0, <1>6, <2>1, <2>3, <2>4, Constants
  <2>6. /\ SubSeq(r.buf, 3, 2 + n) = SubSeq(H, p + 3, p + 2 + n)
        /\ r.buf[1] = H[p + 1] /\ r.buf[2] = H[p + 2]
    BY <2>2, <2>3, <2>5, SubDrop
  <2>7. Frame(H, p, n)
    BY <2>5, <2>6 DEF Frame, n
  <2>8. Carries(H, p + 2 + n, r.tmp \o SubSeq(H, p + 3, p + 2 + n))
    BY <2>2, <2>7, CarriesNext
  <2>9. Drop(r.buf, 2 + n) = Drop(H, p + 2 + n)
    <3>1. Drop(Drop(H, p), 2 + n) = Drop(H, p + (2 + n)) /\ p + (2 + n) = p + 2 + n
      BY <2>3, <2>5, DropDrop
    <3> QED BY <2>2, <3>1
  <2>10. z = [r EXCEPT !.tmp = r.tmp \o SubSeq(r.buf, 3, 2 + n), !.got = r.got + n, !.buf = Drop(r.buf, 2 + n)]
    BY Constants
  <2> HIDE DEF z
  <2>11. /\ z.key = r.key /\ z.enc = r.enc /\ z.total = r.total /\ z.state = r.state /\ z.row = r.row
         /\ z.tmp = r.tmp \o SubSeq(H, p + 3, p + 2 + n) /\ z.buf = Drop(H, p + 2 + n)
    BY <1>0, <2>6, <2>9, <2>10 DEF Rcv
  <2>12. p + 2 + n \in Nat
    BY <2>3, <2>5
  <2>13. Got(z, H)
    BY <1>3, <1>6, <2>8, <2>11, <2>12 DEF Got
  <2> HIDE DEF y
  <2> QED BY <1>3, <1>6, <2>11, <2>13 DEF Hears, Saved, Writing, y
<1> QED BY <1>1, <1>2, <1>4, <1>5, <1>6

LEMMA DrainedHears ==
  ASSUME NEW bad, NEW r, Mid(r, bad), NEW H \in Cells, Hears(r, H)
  PROVE  Hears(Drained(r, bad), H)
<1> DEFINE N == Len(r.buf)
<1>1. PICK h : Rounds(h, r, bad) /\ Drained(r, bad) = h[N]
  BY DrainedIs
<1>2. N \in Nat
  <2>1. r.buf \in Cells
    BY DEF Mid, Rcv
  <2> QED BY <2>1 DEF Cells
<1> DEFINE G == {k \in 0..N : Hears(h[k], H)}
<1>3. h[0] = r /\ \A k \in 1..N : h[k] = FrameStep(h[k - 1], bad)
  BY <1>1 DEF Rounds
<1>4. \A k \in 0..N : Mid(h[k], bad)
  BY <1>1 DEF Rounds
<1> HIDE DEF N
<1>5. 0 \in G
  BY <1>2, <1>3
<1>6. ASSUME NEW k \in 1..N, k - 1 \in G PROVE k \in G
  <2>1. k - 1 \in 0..N /\ k \in 0..N
    BY <1>2
  <2> QED BY <1>3, <1>4, <1>6, <2>1, FrameStepHears
<1>7. G = 0..N
  <2>1. G \in SUBSET (0..N)
    OBVIOUS
  <2> HIDE DEF G
  <2> QED BY <1>2, <1>5, <1>6, <2>1, Upto
<1>8. N \in 0..N
  BY <1>2
<1> QED BY <1>1, <1>7, <1>8 DEF N

LEMMA RecvFinishHears ==
  ASSUME NEW bad, NEW r \in Rcv, Writing(r), NEW H \in Cells, Hears(r, H)
  PROVE  Hears(RecvFinish(r, bad), H)
<1> DEFINE y == RecvFinish(r, bad)
<1>1. /\ Same(y, r) /\ y.state = ""
      /\ y.row = "done" => /\ r.got = r.total
                           /\ r.enc = 0 => y.saved = r.tmp
                           /\ r.enc # 0 => Unlockable(r.tmp) /\ y.saved = Unlock(r.tmp)
  BY FinishIs
<1> HIDE DEF y
<1>2. Got(r, H)
  BY DEF Hears, Writing
<1>3. ASSUME y.row = "done"
      PROVE  r.tmp \in Cells /\ Len(r.tmp) = H[3] /\ Stored(y, H, r.tmp) /\ Landed(y, r.tmp)
  <2>1. r.tmp \in Cells /\ Len(r.tmp) = H[3]
    BY <1>1, <1>2, <1>3 DEF Writing, Got
  <2>2. y.key = r.key /\ r.key \in BOOLEAN /\ r.enc = Flag(r.key)
    BY <1>1, <1>2 DEF Same, Got, Rcv
  <2>3. r.enc # 0 <=> r.key
    BY <2>2 DEF Flag
  <2>4. Landed(y, r.tmp)
    BY <1>1, <1>3, <2>2, <2>3 DEF Landed, Unsealed
  <2> QED BY <1>2, <2>1, <2>2, <2>4 DEF Got, Stored
<1>4. Hears(y, H)
  BY <1>1, <1>3 DEF Hears, Saved
<1> QED BY <1>4 DEF y

LEMMA RecvDataHears ==
  ASSUME NEW bad, NEW r, Rest(r), NEW H \in Cells, Hears(r, H), NEW data \in Cells
  PROVE  Hears(RecvData(r, data, bad), H \o data)
<1>0. H \o data \in Cells
  BY ConcatProperties DEF Cells
<1>1. CASE r.state = ""
  <2>1. RecvData(r, data, bad) = r
    BY <1>1 DEF RecvData
  <2>2. Saved(r, H \o data)
    BY SavedMore DEF Hears
  <2> QED BY <1>1, <2>1, <2>2 DEF Hears
<1>2. CASE r.state # ""
  <2> DEFINE r1 == Taken(r, data)
             r2 == Parsed(r1, bad)
             r3 == Drained(r2, bad)
             y  == RecvData(r, data, bad)
             W  == H \o data
  <2>1. r.state \notin {"", "done"}
    BY <1>2 DEF Rest, AtHeader
  <2>2. y = IF Complete(r3) THEN RecvFinish(r3, bad) ELSE r3
    BY <2>1, RecvDataStages
  <2>3. /\ Mid(r1, bad) /\ r1.state \in {"header", "body"} /\ Hears(r1, W)
    <3>1. Mid(r1, bad) /\ r1.state \in {"header", "body"}
      BY <1>2, TakenIs
    <3>2. r.state \in {"header", "body"}
      BY <1>2 DEF Rest, AtHeader, Writing
    <3> QED BY <3>1, <3>2, TakenHears
  <2> HIDE DEF r1, W
  <2>4. Mid(r2, bad) /\ Hears(r2, W)
    <3>1. CASE r1.state = "header"
      <4>1. r1 \in Rcv /\ AtHeader(r1) /\ r2 = ParseHeader(r1, bad)
        BY <2>3, <3>1 DEF Mid, Writing, Aborted, Parsed
      <4> QED BY <1>0, <2>3, <4>1, ParseHeaderIs, ParseHeaderHears DEF W
    <3>2. CASE r1.state # "header"
      BY <2>3, <3>2 DEF Parsed
    <3> QED BY <3>1, <3>2
  <2> HIDE DEF r2
  <2>5. Mid(r3, bad) /\ Hears(r3, W)
    BY <1>0, <2>4, DrainedMid, DrainedHears DEF W
  <2> HIDE DEF r3, y
  <2>6. CASE Complete(r3)
    <3>1. r3 \in Rcv /\ Writing(r3)
      BY <2>5, <2>6 DEF Mid, Complete, AtHeader, Aborted
    <3>2. Hears(RecvFinish(r3, bad), W)
      BY <1>0, <2>5, <3>1, RecvFinishHears DEF W
    <3> QED BY <2>2, <2>6, <3>2 DEF y, W
  <2>7. CASE ~Complete(r3)
    BY <2>2, <2>5, <2>7 DEF y, W
  <2> QED BY <2>6, <2>7
<1> QED BY <1>1, <1>2

-----------------------------------------------------------------------------
(* What the sender has said. W is what was written for the receiver: to an  *)
(* app a header and frames that carry the content up to o, and then perhaps *)
(* the terminator; to a browser a page. A row is done at the end of the     *)
(* content, or where a read failed.                                         *)
Sending(W, o) ==
  /\ W \in Cells /\ HeaderSound(W, share.locked) /\ W[3] = Total
  /\ o \in 0..Total /\ Carries(W, Len(W), SubSeq(share.content, 1, o))
SentUpto(W, o) == \E V \in Cells : W = V \o Terminator /\ Sending(V, o)
SentAll(W) == SentUpto(W, Total)
Page(s, o) == <<HttpHead>> \o (IF rx[s].asks = "H" THEN <<>> ELSE SubSeq(share.content, 1, o))
Enough(s, o) == o \in 0..Total /\ (o = Total \/ s \in badDisk)
AppDone(s, W) == \E o \in Nat : Enough(s, o) /\ SentUpto(W, o)
AppShape(s, W) == W = <<>> \/ (\E o \in Nat : Sending(W, o)) \/ AppDone(s, W)
WebDone(s, W) == \E o \in Nat : Enough(s, o) /\ W = Page(s, o)
Unheard(s) == Broken(s) \/ rx[s].lib = "gone"

AppTells(s, t, W) ==
  ~edited => /\ AppShape(s, W)
             /\ t.path => ~t.raw /\ Sending(W, t.off)
             /\ t.row = "done" => Unheard(s) \/ AppDone(s, W)
Asked(s, t, m) ==
  t.lib # "gone" /\ ~t.path =>
    (t.req = <<>> /\ m = <<>>) \/ \E q \in Requests : t.req \o m = q /\ q[1] = rx[s].asks
WebTells(s, t, W, m) ==
  /\ Asked(s, t, m)
  /\ share.locked \/ ~share.web => ~t.path /\ W \in {<<>>, <<HttpHead>>}
  /\ ~edited => /\ t.path => /\ t.raw /\ t.off <= Total /\ rx[s].asks # "H"
                             /\ W = <<HttpHead>> \o SubSeq(share.content, 1, t.off)
                /\ t.row = "done" => Unheard(s) \/ WebDone(s, W)
Tells(s, t, W, m) ==
  /\ t.row \in {"done", "error"} => t.lib = "gone"
  /\ ~t.path => ~t.raw /\ t.off = 0
  /\ t.lib # "gone" /\ ~t.path => W = <<>>
  /\ rx[s].lib \in {"none", "dialing"} => m = <<>> /\ t.req = <<>> /\ ~t.path /\ t.row # "done"
  /\ rx[s].who = "app" => AppTells(s, t, W)
  /\ rx[s].who = "browser" => WebTells(s, t, W, m)

Said(s) ==
  /\ tx[s].lib = "open" => cur = s
  /\ rx[s].who \in {"app", "browser"} => Tells(s, tx[s], sent[s], toTx[s])
Heard(s) == Hears(rx[s], Handed(s)) /\ (rx[s].who = "browser" => rx[s].row # "done")
Told == (~edited => file = share.content) /\ \A s \in Streams : Said(s) /\ Heard(s)

(* What was told stays told while nothing is edited.                        *)
LEMMA ShapesSame ==
  ASSUME UNCHANGED share
  PROVE  /\ \A V, o : (Sending(V, o)' <=> Sending(V, o)) /\ (SentUpto(V, o)' <=> SentUpto(V, o))
         /\ \A V : SentAll(V)' <=> SentAll(V)
         /\ Total' = Total
<1>1. Total' = Total /\ \A V, o : Sending(V, o)' <=> Sending(V, o)
  BY DEF Sending, Total
<1>2. \A V, o : SentUpto(V, o)' <=> SentUpto(V, o)
  BY <1>1 DEF SentUpto
<1>3. \A V : SentAll(V)' <=> SentAll(V)
  BY <1>1, <1>2 DEF SentAll
<1> QED BY <1>1, <1>2, <1>3

LEMMA DonesMore ==
  ASSUME NEW q, UNCHANGED share, badDisk \subseteq badDisk'
  PROVE  /\ \A o : Enough(q, o) => Enough(q, o)'
         /\ \A V : (AppDone(q, V) => AppDone(q, V)') /\ (AppShape(q, V) => AppShape(q, V)')
<1>1. \A o : Enough(q, o) => Enough(q, o)'
  BY ShapesSame DEF Enough
<1>2. \A V : AppDone(q, V) => AppDone(q, V)'
  BY <1>1, ShapesSame DEF AppDone
<1>3. \A V : AppShape(q, V) => AppShape(q, V)'
  BY <1>2, ShapesSame DEF AppShape
<1> QED BY <1>1, <1>2, <1>3

LEMMA TellsMore ==
  ASSUME NEW q, UNCHANGED <<share, edited>>, badDisk \subseteq badDisk', Unheard(q) => Unheard(q)',
         rx'[q].who = rx[q].who, rx'[q].asks = rx[q].asks,
         rx'[q].lib \in {"none", "dialing"} => rx[q].lib \in {"none", "dialing"}
  PROVE  \A t, V, m : Tells(q, t, V, m) => Tells(q, t, V, m)'
<1>1. /\ \A o : Enough(q, o) => Enough(q, o)'
      /\ \A V : (AppDone(q, V) => AppDone(q, V)') /\ (AppShape(q, V) => AppShape(q, V)')
  BY DonesMore
<1>3. \A V, o : Page(q, o)' = Page(q, o)
  BY DEF Page
<1>4. \A V : (WebDone(q, V) => WebDone(q, V)')
  BY <1>1, <1>3 DEF WebDone
<1>5. \A t, V : AppTells(q, t, V) => AppTells(q, t, V)'
  BY <1>1, ShapesSame DEF AppTells
<1>6. \A t, m : Asked(q, t, m) => Asked(q, t, m)'
  BY DEF Asked
<1>7. \A t, V, m : WebTells(q, t, V, m) => WebTells(q, t, V, m)'
  BY <1>4, <1>6, ShapesSame DEF WebTells
<1> QED BY <1>5, <1>7 DEF Tells

(* Streams that an action does not concern.                                 *)
Same4(q) == rx'[q] = rx[q] /\ tx'[q] = tx[q] /\ toTx'[q] = toTx[q] /\ sent'[q] = sent[q] /\ fed'[q] = fed[q] /\ cut'[q] = cut[q]

LEMMA Others ==
  ASSUME Told, NEW q \in Streams, Same4(q), UNCHANGED <<share, edited>>, badDisk \subseteq badDisk',
         tx[q].lib = "open" => cur' = q
  PROVE  Said(q)' /\ Heard(q)'
<1>1. Said(q) /\ Heard(q)
  BY DEF Told
<1>2. Handed(q)' = Handed(q) /\ (Broken(q)' <=> Broken(q)) /\ (Unheard(q)' <=> Unheard(q))
  BY DEF Same4, Handed, Broken, Unheard
<1>3. Heard(q)'
  BY <1>1, <1>2 DEF Same4, Heard
<1>4. \A t, V, m : Tells(q, t, V, m) => Tells(q, t, V, m)'
  <2>1. rx'[q].who = rx[q].who /\ rx'[q].asks = rx[q].asks /\ rx'[q].lib = rx[q].lib
    BY DEF Same4
  <2> QED BY <1>2, <2>1, TellsMore
<1>5. Said(q)'
  BY <1>1, <1>4 DEF Same4, Said
<1> QED BY <1>3, <1>5

(* A read keeps the stream open or ends it.                                 *)
Up(r) == r.lib \in {"open", "gone"}

LEMMA ParseHeaderUp ==
  ASSUME NEW bad, NEW r \in Rcv, AtHeader(r), Up(r)
  PROVE  Up(ParseHeader(r, bad))
<1> DEFINE z == [r EXCEPT !.enc = r.buf[2], !.total = r.buf[3], !.named = TRUE, !.tmp = <<>>,
                          !.buf = Drop(@, HeaderCells), !.state = "body", !.row = "active"]
<1>1. ParseHeader(r, bad) = r \/ ParseHeader(r, bad) = RecvAbort(r, bad) \/ ParseHeader(r, bad) = z
  BY DEF ParseHeader
<1>2. z.lib = r.lib
  BY DEF Rcv
<1>3. RecvAbort(r, bad).lib = "gone"
  BY AbortIs DEF AtHeader
<1> QED BY <1>1, <1>2, <1>3 DEF Up

LEMMA FrameStepUp ==
  ASSUME NEW bad, NEW r, Mid(r, bad), Up(r)
  PROVE  Up(FrameStep(r, bad))
<1> DEFINE n == r.buf[1] * Radix + r.buf[2]
           d == [r EXCEPT !.buf = Drop(@, LengthCells), !.state = "done"]
           z == [r EXCEPT !.tmp = @ \o SubSeq(r.buf, LengthCells + 1, LengthCells + n),
                          !.got = @ + n, !.buf = Drop(@, LengthCells + n)]
<1>1. \/ FrameStep(r, bad) = r
      \/ r.state = "body" /\ FrameStep(r, bad) = RecvAbort(r, bad)
      \/ FrameStep(r, bad) = d \/ FrameStep(r, bad) = z
  BY DEF FrameStep
<1>2. r \in Rcv /\ d.lib = r.lib /\ z.lib = r.lib
  BY DEF Rcv, Mid
<1>3. r.state = "body" => RecvAbort(r, bad).lib = "gone"
  BY <1>2, AbortIs DEF Mid, AtHeader, Writing, Aborted
<1> QED BY <1>1, <1>2, <1>3 DEF Up

LEMMA DrainedUp ==
  ASSUME NEW bad, NEW r, Mid(r, bad), Up(r)
  PROVE  Up(Drained(r, bad))
<1> DEFINE N == Len(r.buf)
<1>1. PICK h : Rounds(h, r, bad) /\ Drained(r, bad) = h[N]
  BY DrainedIs
<1>2. N \in Nat
  <2>1. r.buf \in Cells
    BY DEF Mid, Rcv
  <2> QED BY <2>1 DEF Cells
<1> DEFINE G == {k \in 0..N : Up(h[k])}
<1>3. h[0] = r /\ \A k \in 1..N : h[k] = FrameStep(h[k - 1], bad)
  BY <1>1 DEF Rounds
<1>4. \A k \in 0..N : Mid(h[k], bad)
  BY <1>1 DEF Rounds
<1> HIDE DEF N
<1>5. 0 \in G
  BY <1>2, <1>3
<1>6. ASSUME NEW k \in 1..N, k - 1 \in G PROVE k \in G
  <2>1. k - 1 \in 0..N /\ k \in 0..N
    BY <1>2
  <2> QED BY <1>3, <1>4, <1>6, <2>1, FrameStepUp
<1>7. G = 0..N
  <2>1. G \in SUBSET (0..N)
    OBVIOUS
  <2> HIDE DEF G
  <2> QED BY <1>2, <1>5, <1>6, <2>1, Upto
<1>8. N \in 0..N
  BY <1>2
<1> QED BY <1>1, <1>7, <1>8 DEF N

LEMMA RecvDataUp ==
  ASSUME NEW bad, NEW r, Rest(r), Up(r), NEW data \in Cells
  PROVE  Up(RecvData(r, data, bad))
<1>1. CASE r.state = ""
  BY <1>1 DEF RecvData
<1>2. CASE r.state # ""
  <2> DEFINE r1 == Taken(r, data)
             r2 == Parsed(r1, bad)
             r3 == Drained(r2, bad)
             y  == RecvData(r, data, bad)
  <2>1. r.state \notin {"", "done"}
    BY <1>2 DEF Rest, AtHeader
  <2>2. y = IF Complete(r3) THEN RecvFinish(r3, bad) ELSE r3
    BY <2>1, RecvDataStages
  <2>3. Mid(r1, bad) /\ Up(r1)
    <3>1. r1.lib = r.lib
      BY DEF Taken, Rest, Rcv
    <3> QED BY <1>2, <3>1, TakenIs DEF Up
  <2> HIDE DEF r1
  <2>4. Mid(r2, bad) /\ Up(r2)
    <3>1. CASE r1.state = "header"
      <4>1. r1 \in Rcv /\ AtHeader(r1) /\ r2 = ParseHeader(r1, bad)
        BY <2>3, <3>1 DEF Mid, Writing, Aborted, Parsed
      <4> QED BY <2>3, <4>1, ParseHeaderIs, ParseHeaderUp
    <3>2. CASE r1.state # "header"
      BY <2>3, <3>2 DEF Parsed
    <3> QED BY <3>1, <3>2
  <2> HIDE DEF r2
  <2>5. Mid(r3, bad) /\ Up(r3)
    BY <2>4, DrainedMid, DrainedUp
  <2> HIDE DEF r3, y
  <2>6. CASE Complete(r3)
    <3>1. r3 \in Rcv /\ Writing(r3)
      BY <2>5, <2>6 DEF Mid, Complete, AtHeader, Aborted
    <3>2. RecvFinish(r3, bad).lib = "gone"
      BY <3>1, FinishIs
    <3> QED BY <2>2, <2>6, <3>2 DEF Up, y
  <2>7. CASE ~Complete(r3)
    BY <2>2, <2>5, <2>7 DEF y
  <2> QED BY <2>6, <2>7
<1> QED BY <1>1, <1>2

-----------------------------------------------------------------------------
(* The receiver's steps keep what was said and heard.                       *)
LEMMA PrefixIs ==
  ASSUME NEW S, NEW q \in Seq(S), NEW w \in Seq(S), NEW n \in 0..Len(q)
  PROVE  SubSeq(q \o w, 1, n) = SubSeq(q, 1, n)
OBVIOUS

LEMMA PrefixMore ==
  ASSUME NEW q \in Cells, NEW n \in 0..Len(q), NEW k \in 0..(Len(q) - n)
  PROVE  SubSeq(q, 1, n + k) = SubSeq(q, 1, n) \o SubSeq(q, n + 1, n + k) /\ SubSeq(q, n + 1, n + k) \in Cells
BY DEF Cells

LEMMA HearerTold ==
  ASSUME Inv, Told, NEW s \in Streams,
         rx'[s].who = rx[s].who, rx'[s].asks = rx[s].asks,
         rx[s].lib = "gone" => rx'[s].lib = "gone",
         rx'[s].lib \in {"none", "dialing"} => rx[s].lib \in {"none", "dialing"},
         UNCHANGED <<share, file, edited, cur, tx, sent, toTx>>, Broken(s) => Broken(s)', badDisk \subseteq badDisk',
         \A q \in Streams \ {s} : rx'[q] = rx[q] /\ fed'[q] = fed[q] /\ cut'[q] = cut[q],
         Heard(s)'
  PROVE  Told'
<1>1. ASSUME NEW q \in Streams \ {s} PROVE Said(q)' /\ Heard(q)'
  <2>1. Same4(q) /\ (tx[q].lib = "open" => cur' = q)
    BY DEF Same4, Told, Said
  <2> QED BY <2>1, Others
<1>2. Said(s)'
  <2>1. Said(s)
    BY DEF Told
  <2>2. Unheard(s) => Unheard(s)'
    BY DEF Unheard
  <2>3. \A t, V, m : Tells(s, t, V, m) => Tells(s, t, V, m)'
    BY <2>2, TellsMore
  <2> QED BY <2>1, <2>3 DEF Said
<1>3. ~edited' => file' = share'.content
  BY DEF Told
<1> QED BY <1>1, <1>2, <1>3 DEF Told

(* Records that differ in nothing that Hears looks at.                      *)
Alike(x, r) == /\ x.row = r.row /\ x.saved = r.saved /\ x.key = r.key /\ x.state = r.state
               /\ x.buf = r.buf /\ x.enc = r.enc /\ x.total = r.total /\ x.tmp = r.tmp

LEMMA AlikeHears ==
  ASSUME NEW r, NEW x, Alike(x, r), NEW H, Hears(r, H)
  PROVE  Hears(x, H)
BY DEF Alike, Hears, Saved, Stored, Landed, Got

LEMMA HandedIs ==
  ASSUME Inv, NEW s \in Streams
  PROVE  /\ fed[s] \in 0..Len(sent[s]) /\ Len(sent[s]) \in Nat /\ sent[s] \in Seq(Int)
         /\ Arriving(s) \in Int /\ Arriving(s) <= Len(sent[s])
         /\ rx[s].who # "browser" => sent[s] \in Cells /\ Handed(s) \in Cells
<1>1. sent[s] \in Seq(Int) /\ fed[s] \in Nat /\ cut[s] \in Int /\ StreamInv(s)
  BY At
<1>2. Len(sent[s]) \in Nat
  BY <1>1
<1>3. Arriving(s) \in Int /\ Arriving(s) <= Len(sent[s])
  BY <1>1, <1>2 DEF Arriving, StreamInv
<1>4. fed[s] \in 0..Len(sent[s])
  BY <1>1, <1>2, <1>3 DEF StreamInv
<1>5. rx[s].who # "browser" => sent[s] \in Cells
  BY <1>1 DEF StreamInv
<1>6. sent[s] \in Cells => Handed(s) \in Cells
  BY <1>4 DEF Handed, Cells
<1> QED BY <1>1, <1>2, <1>3, <1>4, <1>5, <1>6

LEMMA ReadTold ==
  ASSUME Inv, Told, NEW s \in Streams, RxData(s)
  PROVE  Told'
<1>1. PICK k \in 1..(Arriving(s) - fed[s]), bad \in {"none"} \cup DiskCalls : RecvStream(s, k, bad)
  BY DEF RxData
<1> DEFINE data == SubSeq(sent[s], fed[s] + 1, fed[s] + k)
           r    == RecvData(rx[s], data, bad)
<1>2. /\ rx' = [rx EXCEPT ![s] = r] /\ fed' = [fed EXCEPT ![s] = @ + k]
      /\ UNCHANGED <<share, file, cur, tx, toTx, sent, cut, edited>> /\ Disk(s, bad)
      /\ rx[s].lib = "open" /\ rx[s].who # "browser"
  BY <1>1 DEF RecvStream, RxData, SetRx, gate
<1>3. /\ fed[s] \in 0..Len(sent[s]) /\ Len(sent[s]) \in Nat /\ Arriving(s) \in Int /\ Arriving(s) <= Len(sent[s])
      /\ sent[s] \in Cells /\ Handed(s) \in Cells
  BY <1>2, HandedIs
<1>4. k \in 0..(Len(sent[s]) - fed[s])
  BY <1>1, <1>3
<1>5. data \in Cells
  BY <1>3, <1>4, PrefixMore
<1>6. fed'[s] = fed[s] + k /\ rx'[s] = r /\ \A q \in Streams \ {s} : rx'[q] = rx[q] /\ fed'[q] = fed[q]
  BY <1>2 DEF Inv, Types
<1>7. Handed(s)' = Handed(s) \o data
  BY <1>2, <1>3, <1>4, <1>6, PrefixMore DEF Handed
<1>8. Rest(rx[s]) /\ Up(rx[s])
  BY <1>2, At DEF Up
<1> HIDE DEF data
<1>9. Hears(r, Handed(s) \o data) /\ Up(r) /\ Same(r, rx[s])
  <2>1. Hears(rx[s], Handed(s))
    BY DEF Told, Heard
  <2> QED BY <1>3, <1>5, <1>8, <2>1, RecvDataHears, RecvDataUp, RecvDataIs
<1> HIDE DEF r
<1>10. r.who = rx[s].who /\ r.asks = rx[s].asks /\ r.lib \notin {"none", "dialing"} /\ rx[s].lib # "gone"
  BY <1>2, <1>9 DEF Same, Up
<1>11. Heard(s)'
  BY <1>2, <1>6, <1>7, <1>9, <1>10 DEF Heard
<1>12. (Broken(s)' <=> Broken(s)) /\ badDisk \subseteq badDisk'
  BY <1>2, DiskIs DEF Broken
<1> QED BY <1>2, <1>6, <1>10, <1>11, <1>12, HearerTold

LEMMA OverHears ==
  ASSUME NEW bad, NEW r, Rest(r), NEW H, Hears(r, H)
  PROVE  /\ Hears(Over(r, bad), H) /\ Over(r, bad).lib = "gone" /\ Over(r, bad).asks = r.asks
         /\ Over(r, bad).key = r.key
<1>0. r \in Rcv
  BY DEF Rest
<1>1. CASE r.state = ""
  <2> DEFINE x == [r EXCEPT !.lib = "gone"]
  <2>1. Alike(x, r) /\ x.lib = "gone" /\ x.asks = r.asks
    BY <1>0 DEF Alike, Rcv
  <2>2. Over(r, bad) = x
    BY <1>1 DEF Over
  <2> HIDE DEF x
  <2> QED BY <2>1, <2>2, AlikeHears DEF Alike
<1>2. CASE r.state # ""
  <2>1. Over(r, bad) = RecvAbort(r, bad) /\ (r.named \/ r.tmp = NoFile)
    BY <1>2 DEF Over, Rest, AtHeader, Writing
  <2> QED BY <1>0, <2>1, AbortIs, AbortHears DEF Same
<1> QED BY <1>1, <1>2

LEMMA OverTold ==
  ASSUME Inv, Told, NEW s \in Streams, DialFails(s) \/ RxClosed(s) \/ BrowserLeaves(s)
  PROVE  Told'
<1>1. /\ UNCHANGED <<share, file, cur, tx, toTx, sent, fed, cut, edited>>
      /\ \E bad \in {"none", "delete"} : Disk(s, bad) /\ rx' = [rx EXCEPT ![s] = Over(rx[s], bad)]
  BY OverSteps
<1>2. PICK bad \in {"none", "delete"} : Disk(s, bad) /\ rx' = [rx EXCEPT ![s] = Over(rx[s], bad)]
  BY <1>1
<1>3. Rest(rx[s]) /\ Hears(rx[s], Handed(s))
  BY At DEF Told, Heard
<1> DEFINE r == Over(rx[s], bad)
<1>4. /\ Hears(r, Handed(s)) /\ r.lib = "gone" /\ r.asks = rx[s].asks /\ r.who = rx[s].who
      /\ r.row = "done" => rx[s].row = "done"
  <2>1. /\ Rest(r) /\ r.who = rx[s].who /\ r.state = ""
        /\ rx[s].state = "" => r.tmp = rx[s].tmp /\ r.row = rx[s].row
        /\ rx[s].state # "" => r.row = "error" /\ (r.tmp # NoFile => bad # "none")
    BY <1>3, OverIs
  <2>2. Hears(r, Handed(s)) /\ r.lib = "gone" /\ r.asks = rx[s].asks
    BY <1>3, OverHears
  <2> HIDE DEF r
  <2> QED BY <2>1, <2>2
<1>5. rx'[s] = r /\ \A q \in Streams \ {s} : rx'[q] = rx[q]
  BY <1>2 DEF Inv, Types
<1> HIDE DEF r
<1>6. Handed(s)' = Handed(s) /\ (Broken(s)' <=> Broken(s))
  BY <1>1 DEF Handed, Broken
<1>7. Heard(s)'
  BY <1>4, <1>5, <1>6 DEF Told, Heard
<1>8. badDisk \subseteq badDisk'
  BY <1>2, DiskIs
<1> QED BY <1>1, <1>4, <1>5, <1>6, <1>7, <1>8, HearerTold

LEMMA RecvWatchdogTold ==
  ASSUME Inv, Told, NEW s \in Streams, RecvWatchdog(s)
  PROVE  Told'
<1>0. /\ UNCHANGED <<share, file, cur, tx, toTx, sent, fed, cut, edited>>
      /\ \E r, bad : Watched(s, r, bad) /\ Disk(s, bad) /\ rx' = [rx EXCEPT ![s] = r]
  BY WatchSteps
<1>1. PICK r, bad : Watched(s, r, bad) /\ Disk(s, bad) /\ rx' = [rx EXCEPT ![s] = r]
  BY <1>0
<1> DEFINE live == rx[s].state # ""
           idle == live /\ ~rx[s].fresh
           r1   == [rx[s] EXCEPT !.fresh = FALSE, !.watch = live /\ ~idle]
<1>2. rx[s] \in Rcv /\ Rest(rx[s]) /\ Hears(rx[s], Handed(s)) /\ RecvInv(s)
  BY At DEF Told, Heard
<1>3. r1 \in Rcv /\ Alike(r1, rx[s]) /\ r1.who = rx[s].who /\ r1.asks = rx[s].asks /\ r1.lib = rx[s].lib
      /\ r1.named = rx[s].named
  BY <1>2 DEF Rcv, Alike
<1>4. idle => r1.named \/ r1.tmp = NoFile
  BY <1>2, <1>3 DEF Rest, AtHeader, Writing, Alike
<1>10. r = IF idle THEN RecvAbort(r1, bad) ELSE r1
  BY <1>1 DEF Watched
<1> HIDE DEF r1
<1>5. Hears(r1, Handed(s))
  BY <1>2, <1>3, AlikeHears
<1>6. /\ Hears(r, Handed(s)) /\ r.who = rx[s].who /\ r.asks = rx[s].asks /\ r.lib \in {"gone", rx[s].lib}
      /\ r.row = "done" => rx[s].row = "done"
  <2>1. CASE idle
    <3>1. r = RecvAbort(r1, bad) /\ (r1.named \/ r1.tmp = NoFile)
      BY <1>4, <1>10, <2>1
    <3>2. Aborted(RecvAbort(r1, bad), bad) /\ Same(RecvAbort(r1, bad), r1) /\ RecvAbort(r1, bad).lib = "gone"
      BY <1>3, <3>1, AbortIs
    <3>3. Hears(RecvAbort(r1, bad), Handed(s))
      BY <1>3, <3>1, AbortHears
    <3> QED BY <1>3, <3>1, <3>2, <3>3 DEF Same, Aborted
  <2>2. CASE ~idle
    BY <1>3, <1>5, <1>10, <2>2 DEF Alike
  <2> QED BY <2>1, <2>2
<1>7. rx'[s] = r /\ \A q \in Streams \ {s} : rx'[q] = rx[q]
  BY <1>1 DEF Inv, Types
<1>8. Handed(s)' = Handed(s) /\ (Broken(s)' <=> Broken(s)) /\ badDisk \subseteq badDisk'
  BY <1>0, <1>1, DiskIs DEF Handed, Broken
<1>9. Heard(s)'
  BY <1>6, <1>7, <1>8 DEF Told, Heard
<1> QED BY <1>0, <1>6, <1>7, <1>8, <1>9, HearerTold

LEMMA BreakTold ==
  ASSUME Inv, Told, NEW s \in Streams, Break(s)
  PROVE  Told'
<1>1. PICK k \in fed[s]..Len(sent[s]) : cut' = [cut EXCEPT ![s] = k]
  BY DEF Break
<1>2. UNCHANGED <<share, file, cur, tx, rx, toTx, sent, fed, edited, badDisk>> /\ ~Broken(s)
  BY DEF Break, gate, history
<1>3. \A q \in Streams \ {s} : cut'[q] = cut[q]
  BY <1>1 DEF Inv, Types
<1>4. Heard(s)'
  BY <1>2 DEF Told, Heard, Handed
<1> QED BY <1>2, <1>3, <1>4, HearerTold

LEMMA OpenedTold ==
  ASSUME Inv, Told, NEW s \in Streams, AppOpened(s) \/ BrowserOpened(s)
  PROVE  Told'
<1>1. PICK request : RxOpened(s, request) /\ (rx[s].who = "browser" => request \in Requests)
  BY DEF AppOpened, BrowserOpened
<1> DEFINE r == [rx[s] EXCEPT !.lib = "open", !.fresh = rx[s].state # "", !.asks = request[1]]
           m == IF tx[s].lib = "gone" THEN <<>> ELSE request
<1>2. /\ rx[s].lib = "dialing" /\ rx' = [rx EXCEPT ![s] = r] /\ toTx' = [toTx EXCEPT ![s] = m]
      /\ UNCHANGED <<share, file, cur, tx, sent, fed, cut, edited, badDisk>>
  BY <1>1 DEF RxOpened, SetRx, gate, down, history
<1>3. rx[s] \in Rcv /\ Said(s) /\ Heard(s)
  BY At DEF Told
<1>4. Alike(r, rx[s]) /\ r.who = rx[s].who /\ r.asks = request[1] /\ r.lib = "open"
  BY <1>3 DEF Rcv, Alike
<1> HIDE DEF r, m
<1>5. /\ rx'[s] = r /\ toTx'[s] = m
      /\ \A q \in Streams \ {s} : rx'[q] = rx[q] /\ toTx'[q] = toTx[q]
  BY <1>2 DEF Inv, Types
<1>6. Heard(s)'
  <2>1. Handed(s)' = Handed(s)
    BY <1>2 DEF Handed
  <2>2. Hears(r, Handed(s))
    BY <1>3, <1>4, AlikeHears DEF Heard
  <2> QED BY <1>3, <1>4, <1>5, <2>1, <2>2 DEF Heard, Alike
<1>7. ASSUME NEW q \in Streams \ {s} PROVE Said(q)' /\ Heard(q)'
  <2>1. Same4(q) /\ (tx[q].lib = "open" => cur' = q)
    BY <1>2, <1>5 DEF Same4, Told, Said
  <2> QED BY <1>2, <2>1, Others
<1>8. Said(s)'
  <2> SUFFICES ASSUME r.who \in {"app", "browser"} PROVE Tells(s, tx[s], sent[s], toTx[s])'
    BY <1>2, <1>3, <1>5 DEF Said
  <2>1. Tells(s, tx[s], sent[s], toTx[s])
    BY <1>3, <1>4 DEF Said
  <2>2. toTx[s] = <<>> /\ tx[s].req = <<>> /\ ~tx[s].path /\ tx[s].row # "done"
    BY <1>2, <2>1 DEF Tells
  <2>3. r.who = "app" => AppTells(s, tx[s], sent[s])'
    <3>1. \A V : AppShape(s, V) => AppShape(s, V)'
      BY <1>2, DonesMore
    <3> QED BY <1>2, <1>4, <2>1, <2>2, <3>1 DEF Tells, AppTells
  <2>4. r.who = "browser" => Asked(s, tx[s], toTx[s])'
    <3> SUFFICES ASSUME r.who = "browser", tx[s].lib # "gone"
                 PROVE  \E q \in Requests : tx[s].req \o m = q /\ q[1] = r.asks
      BY <1>2, <1>5 DEF Asked
    <3>1. request \in Requests /\ m = request
      BY <1>1, <1>4 DEF m
    <3>2. request \in Seq(Words)
      BY <3>1, Saying
    <3>3. <<>> \o request = request
      BY <3>2
    <3> QED BY <1>4, <2>2, <3>1, <3>3
  <2>5. r.who = "browser" => WebTells(s, tx[s], sent[s], toTx[s])'
    BY <1>2, <1>4, <2>1, <2>2, <2>4 DEF Tells, WebTells
  <2> QED BY <1>2, <1>4, <1>5, <2>1, <2>2, <2>3, <2>5 DEF Tells
<1>9. ~edited' => file' = share'.content
  BY <1>2 DEF Told
<1> QED BY <1>6, <1>7, <1>8, <1>9 DEF Told

(* A stream nothing was said on yet.                                        *)
LEMMA NewTells ==
  ASSUME NEW s
  PROVE  Tells(s, NoTx, <<>>, <<>>) /\ Tells(s, NoTx, <<>>, <<>>)'
<1>1. /\ NoTx.lib = "none" /\ NoTx.row \notin {"active", "done", "error"} /\ ~NoTx.path /\ ~NoTx.raw /\ NoTx.off = 0
      /\ NoTx.req = <<>>
  BY DEF NoTx
<1>2. AppTells(s, NoTx, <<>>) /\ AppTells(s, NoTx, <<>>)'
  BY <1>1 DEF AppTells, AppShape
<1>3. WebTells(s, NoTx, <<>>, <<>>) /\ WebTells(s, NoTx, <<>>, <<>>)'
  BY <1>1 DEF WebTells, Asked
<1> QED BY <1>1, <1>2, <1>3 DEF Tells

LEMMA DialTold ==
  ASSUME Inv, Told, NEW s \in Streams, DialApp(s) \/ DialBrowser(s) \/ DialStranger(s)
  PROVE  Told'
<1>1. PICK who \in {"app", "browser", "stranger"}, key \in BOOLEAN, wire \in Cells :
        Dial(s, who, key, wire) /\ (who # "stranger" => wire = <<>>)
  <2>1. share.locked \in BOOLEAN /\ <<>> \in Cells /\ ForeignWires \subseteq Cells
    BY At, Framing, TransferAssumption DEF Cells
  <2> QED BY <2>1 DEF DialApp, DialBrowser, DialStranger
<1> DEFINE r == [NoRx EXCEPT !.who = who, !.lib = "dialing", !.key = key,
                             !.state = IF who = "browser" THEN "" ELSE "header",
                             !.watch = who # "browser",
                             !.row = IF who = "browser" THEN "" ELSE "connecting"]
<1>2. /\ rx[s].who = "none" /\ rx' = [rx EXCEPT ![s] = r] /\ sent' = [sent EXCEPT ![s] = wire]
      /\ UNCHANGED <<share, file, cur, tx, toTx, fed, cut, edited, badDisk>>
  BY <1>1 DEF Dial, SetRx, gate, history
<1>3. r.who = who /\ r.lib = "dialing" /\ r.state \notin {"body", "done"} /\ r.buf = <<>> /\ r.row # "done"
  BY DEF NoRx
<1> HIDE DEF r
<1>4. tx[s] = NoTx /\ fed[s] = 0 /\ toTx[s] = <<>>
  BY <1>2 DEF Inv, StreamInv, Untouched
<1>5. rx'[s] = r /\ sent'[s] = wire /\ \A q \in Streams \ {s} : rx'[q] = rx[q] /\ sent'[q] = sent[q]
  BY <1>2 DEF Inv, Types
<1>6. Heard(s)'
  <2>1. Handed(s)' = <<>>
    BY <1>2, <1>4, <1>5 DEF Handed, Cells
  <2> QED BY <1>3, <1>5, <2>1 DEF Heard, Hears, Saved
<1>7. ASSUME NEW q \in Streams \ {s} PROVE Said(q)' /\ Heard(q)'
  <2>1. Same4(q) /\ (tx[q].lib = "open" => cur' = q)
    BY <1>2, <1>5 DEF Same4, Told, Said
  <2> QED BY <1>2, <2>1, Others
<1>8. Said(s)'
  <2>1. tx'[s] = NoTx /\ toTx'[s] = <<>> /\ NoTx.lib = "none"
    BY <1>2, <1>4 DEF NoTx
  <2>2. who # "stranger" => Tells(s, NoTx, <<>>, <<>>)'
    BY NewTells
  <2> QED BY <1>1, <1>3, <1>5, <2>1, <2>2 DEF Said
<1>9. ~edited' => file' = share'.content
  BY <1>2 DEF Told
<1> QED BY <1>6, <1>7, <1>8, <1>9 DEF Told

LEMMA EditTold ==
  ASSUME Inv, Told, Edit
  PROVE  Told'
<1>1. edited' /\ UNCHANGED <<share, cur, tx, rx, toTx, sent, fed, cut>>
  BY DEF Edit, gate, down
<1>2. ASSUME NEW s \in Streams PROVE Heard(s)'
  BY <1>1 DEF Told, Heard, Handed
<1>3. ASSUME NEW s \in Streams PROVE Said(s)'
  <2>1. \A t, m : Asked(s, t, m)' <=> Asked(s, t, m)
    BY <1>1 DEF Asked
  <2>2. \A t, V, m : WebTells(s, t, V, m) => WebTells(s, t, V, m)'
    BY <1>1, <2>1 DEF WebTells
  <2>3. \A t, V : AppTells(s, t, V)'
    BY <1>1 DEF AppTells
  <2>4. \A t, V, m : Tells(s, t, V, m) => Tells(s, t, V, m)'
    BY <1>1, <2>2, <2>3 DEF Tells
  <2> QED BY <1>1, <2>4 DEF Told, Said
<1> QED BY <1>1, <1>2, <1>3 DEF Told

-----------------------------------------------------------------------------
(* What the sender writes to an app carries the content.                    *)
LEMMA ContentIs ==
  ASSUME Inv
  PROVE  /\ share.content \in Cells /\ Total \in Nat /\ Total = Len(share.content) /\ Total <= MaxTotal
         /\ Flag(share.locked) \in Nat /\ SubSeq(share.content, 1, 0) = <<>>
         /\ SubSeq(share.content, 1, Total) = share.content
<1>1. share \in Shares
  BY DEF Inv, Types
<1>2. share.content \in Cells /\ Len(share.content) <= MaxTotal
  BY <1>1, TransferAssumption DEF Cells
<1>3. Total = Len(share.content) /\ Flag(share.locked) \in Nat
  BY DEF Total, Flag
<1>4. \A q \in Cells : Len(q) \in Nat /\ SubSeq(q, 1, 0) = <<>> /\ SubSeq(q, 1, Len(q)) = q
  BY DEF Cells
<1> QED BY <1>2, <1>3, <1>4

LEMMA PartOf ==
  ASSUME Inv, NEW o \in 0..Total
  PROVE  /\ SubSeq(share.content, 1, o) \in Cells /\ Len(SubSeq(share.content, 1, o)) = o
         /\ \A n \in 0..(Total - o) : SubSeq(share.content, 1, o + n) =
              SubSeq(share.content, 1, o) \o SubSeq(share.content, o + 1, o + n)
<1>1. share.content \in Cells /\ Total = Len(share.content) /\ Total \in Nat
  BY ContentIs
<1>2. SubSeq(share.content, 1, o) \in Cells /\ Len(SubSeq(share.content, 1, o)) = o
  BY <1>1 DEF Cells
<1> QED BY <1>1, <1>2, PrefixMore

LEMMA HeaderSends ==
  ASSUME Inv
  PROVE  Sending(OnionHeader(share.locked, Total), 0)
<1> DEFINE W == OnionHeader(share.locked, Total)
<1>1. W \in Cells
  BY HeaderIs
<1>2. Len(W) = 3 /\ W[1] = Magic /\ W[2] = Flag(share.locked) /\ W[3] = Total
  BY DEF OnionHeader
<1> HIDE DEF W
<1>3. HeaderSound(W, share.locked)
  BY <1>2, ContentIs, Constants DEF HeaderSound, Promised
<1>4. Carries(W, Len(W), SubSeq(share.content, 1, 0))
  BY <1>2, ContentIs, CarriesStart
<1> QED BY <1>1, <1>2, <1>3, <1>4, ContentIs DEF Sending, W

LEMMA LengthIs ==
  ASSUME NEW n \in 0..Chunk
  PROVE  /\ FrameLength(n) \in Cells /\ Len(FrameLength(n)) = 2
         /\ FrameLength(n)[1] * Radix + FrameLength(n)[2] = n
<1>1. n \in Nat /\ Radix \in Nat \ {0}
  BY Constants
<1>2. FrameLength(n) \in Cells
  BY <1>1, Framing
<1>3. Len(FrameLength(n)) = 2 /\ FrameLength(n)[1] = n \div Radix /\ FrameLength(n)[2] = n % Radix
  BY DEF FrameLength
<1>4. (n \div Radix) * Radix + (n % Radix) = n
  BY <1>1
<1> QED BY <1>2, <1>3, <1>4

LEMMA JoinIs ==
  ASSUME NEW v \in Cells, NEW x \in Cells
  PROVE  /\ v \o x \in Cells /\ Len(v \o x) = Len(v) + Len(x) /\ Len(v) \in Nat /\ Len(x) \in Nat
         /\ \A i \in 1..Len(v) : (v \o x)[i] = v[i]
         /\ \A i \in 1..Len(x) : (v \o x)[Len(v) + i] = x[i]
BY DEF Cells

LEMMA MoreSent ==
  ASSUME Inv, NEW W, NEW o, Sending(W, o), NEW x \in Cells
  PROVE  /\ W \o x \in Cells /\ HeaderSound(W \o x, share.locked) /\ (W \o x)[3] = Total
         /\ Carries(W \o x, Len(W), SubSeq(share.content, 1, o))
<1>1. W \in Cells /\ HeaderSound(W, share.locked) /\ W[3] = Total /\ Carries(W, Len(W), SubSeq(share.content, 1, o))
  BY DEF Sending
<1>2. HeaderSound(W \o x, share.locked) /\ (W \o x)[3] = W[3] /\ Len(W) >= 3
  BY <1>1, HeaderMore
<1> QED BY <1>1, <1>2, CarriesMore, JoinIs

LEMMA FrameSends ==
  ASSUME Inv, NEW W, NEW o, Sending(W, o), NEW n \in 1..Chunk, o + n <= Total
  PROVE  Sending(W \o (FrameLength(n) \o SubSeq(share.content, o + 1, o + n)), o + n)
<1> DEFINE slice == SubSeq(share.content, o + 1, o + n)
           head  == FrameLength(n)
           x     == head \o slice
           V     == W \o x
<1>1. o \in Nat /\ o \in 0..Total /\ n \in Nat /\ n \in 0..(Total - o) /\ o + n \in 0..Total /\ W \in Cells /\ Total \in Nat
      /\ n \in 0..Chunk
  BY ContentIs, Constants DEF Sending
<1>2. slice \in Cells /\ Len(slice) = n
  <2>1. share.content \in Cells /\ Total = Len(share.content)
    BY ContentIs
  <2> QED BY <1>1, <2>1, PrefixMore DEF Cells
<1> HIDE DEF slice
<1>3. head \in Cells /\ Len(head) = 2 /\ head[1] * Radix + head[2] = n
  BY <1>1, LengthIs
<1> HIDE DEF head
<1>4. x \in Cells /\ Len(x) = 2 + n /\ x[1] = head[1] /\ x[2] = head[2] /\ \A i \in 1..n : x[2 + i] = slice[i]
  <2>1. x \in Cells /\ Len(x) = Len(head) + Len(slice)
        /\ (\A i \in 1..Len(head) : x[i] = head[i]) /\ (\A i \in 1..Len(slice) : x[Len(head) + i] = slice[i])
    BY <1>2, <1>3, JoinIs
  <2> HIDE DEF x
  <2> QED BY <1>1, <1>2, <1>3, <2>1
<1> HIDE DEF x
<1>5. /\ V \in Cells /\ HeaderSound(V, share.locked) /\ V[3] = Total
      /\ Carries(V, Len(W), SubSeq(share.content, 1, o))
  BY <1>4, MoreSent
<1>6. /\ Len(V) = Len(W) + 2 + n /\ Len(W) \in Nat /\ Len(W) >= 3
      /\ \A i \in 1..(2 + n) : V[Len(W) + i] = x[i]
  <2>1. Len(W) >= 3
    BY Constants DEF Sending, HeaderSound
  <2>2. Len(V) = Len(W) + Len(x) /\ Len(W) \in Nat /\ \A i \in 1..Len(x) : V[Len(W) + i] = x[i]
    BY <1>1, <1>4, JoinIs
  <2> QED BY <1>1, <1>4, <2>1, <2>2
<1> HIDE DEF V
<1>7. V[Len(W) + 1] = x[1] /\ V[Len(W) + 2] = x[2]
  BY <1>1, <1>6
<1>8. Frame(V, Len(W), n)
  BY <1>3, <1>4, <1>6, <1>7 DEF Frame
<1>9. SubSeq(V, Len(W) + 3, Len(W) + 2 + n) = slice
  <2> DEFINE y == SubSeq(V, Len(W) + 3, Len(W) + 2 + n)
  <2>1. y \in Cells /\ Len(y) = n /\ \A i \in 1..n : y[i] = V[Len(W) + 2 + i]
    <3>1. Len(W) + 2 + n <= Len(V) /\ Len(W) \in Nat
      BY <1>1, <1>6
    <3> QED BY <1>1, <1>5, <3>1, SubFromP
  <2> HIDE DEF y
  <2>2. ASSUME NEW i \in 1..n PROVE y[i] = slice[i]
    <3>1. 2 + i \in 1..(2 + n) /\ Len(W) + 2 + i = Len(W) + (2 + i)
      BY <1>1, <1>6
    <3> QED BY <1>4, <1>6, <2>1, <3>1
  <2>3. y = slice
    BY <1>1, <1>2, <2>1, <2>2, SeqEqual DEF Cells
  <2> QED BY <2>3 DEF y
<1>10. Carries(V, Len(W) + 2 + n, SubSeq(share.content, 1, o) \o slice)
  BY <1>5, <1>8, <1>9, CarriesNext
<1>11. SubSeq(share.content, 1, o + n) = SubSeq(share.content, 1, o) \o slice
  BY <1>1, PartOf DEF slice
<1> QED BY <1>1, <1>5, <1>6, <1>10, <1>11 DEF Sending, V, x, head, slice

(* Cut before its end, a stream carries less.                               *)
Cut(w, k) == SubSeq(w, 1, k)
Less(w, q, b) == \A k \in 3..(q - 1) : Len(Payload(Cut(w, k))) < Len(b)

LEMMA CutIs ==
  ASSUME NEW w \in Cells, NEW k \in 0..Len(w)
  PROVE  Cut(w, k) \in Cells /\ Len(Cut(w, k)) = k /\ \A i \in 1..k : Cut(w, k)[i] = w[i]
BY DEF Cells, Cut

LEMMA CutReads ==
  ASSUME NEW w \in Cells, Len(w) >= 3, NEW q, NEW b, Carries(w, q, b), NEW n, Frame(w, q, n),
         NEW k \in q..(q + 1 + n)
  PROVE  Payload(Cut(w, k)) = b
<1>1. q \in 3..Len(w) /\ b \in Cells /\ Len(w) \in Nat /\ n \in Nat \ {0} /\ q + 2 + n <= Len(w)
  <2>1. q \in 3..Len(w) /\ b \in Cells
    BY CarriesIn
  <2>2. Len(w) \in Nat
    BY DEF Cells
  <2>3. q \in Nat
    BY <2>1, <2>2
  <2> QED BY <2>1, <2>2, <2>3, FrameIs
<1>2. k \in 0..Len(w) /\ k \in Nat /\ k >= 3 /\ q <= k
  BY <1>1
<1> DEFINE v == Cut(w, k)
<1>3. v \in Cells /\ Len(v) = k /\ \A i \in 1..k : v[i] = w[i]
  BY <1>2, CutIs
<1> HIDE DEF v
<1>4. Carries(v, q, b)
  <2>1. \A i \in 1..q : v[i] = w[i]
    BY <1>1, <1>2, <1>3
  <2> QED BY <1>2, <1>3, <2>1, CarriesAlike
<1>5. ASSUME NEW m \in 1..Chunk, Frame(v, q, m) PROVE FALSE
  <2>1. m \in Nat /\ q + 2 + m <= k /\ v[q + 1] * Radix + v[q + 2] = m
    BY <1>3, <1>5, Constants DEF Frame
  <2>2. v[q + 1] = w[q + 1] /\ v[q + 2] = w[q + 2]
    BY <1>1, <1>2, <1>3, <2>1
  <2>3. m = n
    BY <2>1, <2>2 DEF Frame
  <2> QED BY <1>1, <1>2, <2>1, <2>3
<1> QED BY <1>2, <1>3, <1>4, <1>5, PayloadCarries DEF NoFrame, v

LEMMA CarriesLess ==
  ASSUME NEW w \in Cells, Len(w) >= 3, NEW p, NEW body, Carries(w, p, body)
  PROVE  Less(w, p, body)
<1> DEFINE R == {e \in Pairs : Carries(w, e[1], e[2]) /\ Less(w, e[1], e[2])}
<1>1. <<3, <<>>>> \in R
  <2>1. <<3, <<>>>> \in Pairs /\ Carries(w, 3, <<>>)
    BY CarriesStart, Framing DEF Pairs
  <2>2. Less(w, 3, <<>>)
    BY DEF Less
  <2> QED BY <2>1, <2>2
<1>2. ASSUME NEW q \in Nat, NEW b \in Cells, NEW n \in 1..Chunk, <<q, b>> \in R, Frame(w, q, n)
      PROVE  <<q + 2 + n, b \o SubSeq(w, q + 3, q + 2 + n)>> \in R
  <2> DEFINE b2 == b \o SubSeq(w, q + 3, q + 2 + n)
             q2 == q + 2 + n
  <2>1. Carries(w, q, b) /\ Less(w, q, b)
    BY <1>2
  <2>2. Carries(w, q2, b2)
    BY <1>2, <2>1, CarriesNext
  <2>3. /\ q \in 3..Len(w) /\ n \in Nat \ {0} /\ q2 \in Nat /\ Len(b) \in Nat
        /\ Len(b2) = Len(b) + n /\ b2 \in Cells
    <3>1. q \in 3..Len(w)
      BY <2>1, CarriesIn
    <3>2. n \in Nat \ {0} /\ SubSeq(w, q + 3, q + 2 + n) \in Cells /\ Len(SubSeq(w, q + 3, q + 2 + n)) = n
      BY <1>2, FrameIs
    <3>3. \A x \in Cells : b \o x \in Cells /\ Len(b \o x) = Len(b) + Len(x) /\ Len(b) \in Nat
      BY JoinIs
    <3> QED BY <3>1, <3>2, <3>3
  <2> HIDE DEF b2
  <2>4. ASSUME NEW k \in 3..(q2 - 1) PROVE Len(Payload(Cut(w, k))) < Len(b2)
    <3>1. CASE k < q
      <4>1. k \in 3..(q - 1)
        BY <2>3, <3>1
      <4>2. Len(Payload(Cut(w, k))) < Len(b)
        BY <2>1, <4>1 DEF Less
      <4>3. Payload(Cut(w, k)) \in Cells
        <5>1. k \in 0..Len(w) /\ k >= 3
          BY <2>3, <4>1 DEF Cells
        <5>2. Cut(w, k) \in Cells /\ Len(Cut(w, k)) >= 3
          BY <5>1, CutIs
        <5> QED BY <5>2, CarriesStart, PayloadCarries
      <4>4. \A x \in Cells : Len(x) \in Nat
        BY DEF Cells
      <4> QED BY <2>3, <4>2, <4>3, <4>4
    <3>2. CASE ~(k < q)
      <4>1. k \in q..(q + 1 + n)
        BY <2>3, <3>2
      <4>2. Payload(Cut(w, k)) = b
        BY <1>2, <2>1, <4>1, CutReads
      <4> QED BY <2>3, <4>2
    <3> QED BY <3>1, <3>2
  <2>5. <<q2, b2>> \in Pairs /\ Less(w, q2, b2)
    BY <2>3, <2>4 DEF Pairs, Less
  <2> QED BY <2>2, <2>5 DEF b2
<1>3. R \in SUBSET Pairs
  OBVIOUS
<1>4. Extends(w, R)
  BY <1>1, <1>2 DEF Extends
<1> HIDE DEF R
<1>5. <<p, body>> \in R
  BY <1>3, <1>4 DEF Carries
<1> QED BY <1>5 DEF R

LEMMA SendingReads ==
  ASSUME Inv, NEW W, NEW o, Sending(W, o)
  PROVE  Payload(W) = SubSeq(share.content, 1, o) /\ Promised(W) = Total
<1>1. W \in Cells /\ Len(W) >= 3 /\ Len(W) \in Nat /\ W[3] = Total /\ Carries(W, Len(W), SubSeq(share.content, 1, o))
  BY Constants DEF Sending, HeaderSound, Cells
<1>2. NoFrame(W, Len(W))
  BY <1>1, Constants DEF NoFrame, Frame
<1> QED BY <1>1, <1>2, PayloadCarries, Constants DEF Promised

LEMMA SentUptoReads ==
  ASSUME Inv, NEW W, NEW o, NEW V \in Cells, W = V \o Terminator, Sending(V, o)
  PROVE  /\ W \in Cells /\ HeaderSound(W, share.locked) /\ W[3] = Total /\ Promised(W) = Total
         /\ Payload(W) = SubSeq(share.content, 1, o) /\ o \in 0..Total
         /\ Carries(W, Len(V), SubSeq(share.content, 1, o))
         /\ Len(W) = Len(V) + 2 /\ Len(V) \in Nat /\ Len(V) >= 3 /\ Len(W) >= 3
         /\ Terminator \in Cells /\ Len(Terminator) = 2
         /\ W[Len(V) + 1] = Terminator[1] /\ W[Len(V) + 2] = Terminator[2]
<1> DEFINE content == SubSeq(share.content, 1, o)
<1>2. Terminator \in Cells /\ Len(Terminator) = 2 /\ Terminator[1] * Radix + Terminator[2] = 0
  BY LengthIs, Constants DEF Terminator
<1>3. /\ W \in Cells /\ HeaderSound(W, share.locked) /\ W[3] = Total
      /\ Carries(W, Len(V), content)
  BY <1>2, MoreSent
<1>4. /\ Len(W) = Len(V) + 2 /\ Len(V) \in Nat /\ Len(V) >= 3 /\ Len(W) >= 3
      /\ W[Len(V) + 1] = Terminator[1] /\ W[Len(V) + 2] = Terminator[2]
      /\ \A i \in 1..Len(V) : W[i] = V[i]
  <2>1. Len(V) >= 3
    BY Constants DEF Sending, HeaderSound
  <2>2. /\ Len(W) = Len(V) + Len(Terminator) /\ Len(V) \in Nat /\ \A i \in 1..Len(V) : W[i] = V[i]
        /\ \A i \in 1..Len(Terminator) : W[Len(V) + i] = Terminator[i]
    BY <1>2, JoinIs
  <2> QED BY <1>2, <2>1, <2>2
<1>5. NoFrame(W, Len(V))
  <2> SUFFICES ASSUME NEW n \in 1..Chunk, Frame(W, Len(V), n) PROVE FALSE
    BY DEF NoFrame
  <2>1. n = 0
    BY <1>2, <1>4 DEF Frame
  <2> QED BY <2>1
<1>6. Payload(W) = content /\ Promised(W) = Total
  BY <1>3, <1>4, <1>5, PayloadCarries, Constants DEF Promised
<1>7. o \in 0..Total
  BY DEF Sending
<1> QED BY <1>2, <1>3, <1>4, <1>6, <1>7

LEMMA SentAllReads ==
  ASSUME Inv, NEW W, SentAll(W)
  PROVE  Sound(W, share.locked) /\ Payload(W) = share.content /\ Promised(W) = Total /\ W \in Cells
<1>1. PICK V \in Cells : W = V \o Terminator /\ Sending(V, Total)
  BY DEF SentAll, SentUpto
<1> DEFINE content == share.content
<1>2. /\ content \in Cells /\ Total = Len(content) /\ Total \in Nat
      /\ SubSeq(share.content, 1, Total) = content
  BY ContentIs
<1>3. /\ W \in Cells /\ HeaderSound(W, share.locked) /\ W[3] = Total /\ Promised(W) = Total
      /\ Payload(W) = content /\ Carries(W, Len(V), content)
  BY <1>1, <1>2, SentUptoReads
<1>4. /\ Len(W) = Len(V) + 2 /\ Len(V) \in Nat /\ Len(V) >= 3 /\ Len(W) >= 3
      /\ Terminator \in Cells /\ Len(Terminator) = 2
      /\ W[Len(V) + 1] = Terminator[1] /\ W[Len(V) + 2] = Terminator[2]
  BY <1>1, SentUptoReads
<1> HIDE DEF content
<1>6. Payload(W) = content /\ Promised(W) = Total /\ Total = Len(content) /\ Total \in Nat
  BY <1>2, <1>3
<1>7. Whole(W)
  BY <1>4, <1>6, Constants DEF Whole
<1>8. ASSUME NEW k \in 0..(Len(W) - LengthCells - 1) PROVE ~Whole(SubSeq(W, 1, k))
  <2>1. k \in 0..Len(W) /\ k \in 0..(Len(V) - 1)
    BY <1>4, Constants
  <2>2. Cut(W, k) \in Cells /\ Len(Cut(W, k)) = k /\ \A i \in 1..k : Cut(W, k)[i] = W[i]
    BY <1>3, <2>1, CutIs
  <2>3. CASE k < 3
    BY <2>2, <2>3, Constants DEF Whole, Cut
  <2>4. CASE ~(k < 3)
    <3>1. k \in 3..(Len(V) - 1)
      BY <1>4, <2>1, <2>4
    <3>2. Len(Payload(Cut(W, k))) < Total
      BY <1>3, <1>4, <1>6, <3>1, CarriesLess DEF Less
    <3>3. Cut(W, k)[3] = Total
      BY <1>3, <2>2, <3>1
    <3>4. Len(Payload(Cut(W, k))) \in Nat
      <4>1. Payload(Cut(W, k)) \in Cells
        <5>1. Len(Cut(W, k)) >= 3
          BY <2>2, <3>1
        <5> QED BY <2>2, <5>1, CarriesStart, PayloadCarries
      <4> QED BY <4>1 DEF Cells
    <3>5. Len(Payload(Cut(W, k))) # Promised(Cut(W, k))
      BY <1>6, <3>2, <3>3, <3>4, Constants DEF Promised
    <3> QED BY <3>5 DEF Whole, Cut
  <2> QED BY <2>3, <2>4
<1>9. SubSeq(W, Len(W) - 1, Len(W)) = Terminator
  <2> DEFINE y == SubSeq(W, Len(W) - 1, Len(W))
  <2>1. y \in Cells /\ Len(y) = 2 /\ \A i \in 1..2 : y[i] = W[Len(V) + i]
    <3>1. Len(V) + 1 = Len(W) - 1 /\ Len(V) + 2 = Len(W) /\ Len(V) + 2 <= Len(W) /\ 2 \in Nat
      BY <1>4
    <3> QED BY <1>3, <1>4, <3>1, SubIs
  <2> HIDE DEF y
  <2>2. \A i \in 1..2 : y[i] = Terminator[i]
    BY <1>4, <2>1
  <2>3. y = Terminator
    BY <1>4, <2>1, <2>2, SeqEqual DEF Cells
  <2> QED BY <2>3 DEF y
<1> QED BY <1>3, <1>6, <1>7, <1>8, <1>9 DEF Sound, content

LEMMA SavedReads ==
  ASSUME Inv, Told, NEW s \in Streams, rx[s].row = "done"
  PROVE  /\ HeaderSound(Handed(s), rx[s].key) /\ sent[s] \in Cells /\ Len(sent[s]) >= 3
         /\ sent[s][2] = Flag(rx[s].key) /\ rx[s].key \in BOOLEAN /\ Payload(sent[s]) \in Cells
         /\ \E body \in Cells : /\ Landed(rx[s], body) /\ Len(body) = Promised(sent[s])
                                /\ body = SubSeq(Payload(sent[s]), 1, Promised(sent[s]))
                                /\ Len(body) <= Len(Payload(sent[s]))
<1> DEFINE H == Handed(s)
           r == rx[s]
           W == sent[s]
<1>1. Hears(r, H) /\ rx[s].who # "browser" /\ r.key \in BOOLEAN
  BY At DEF Told, Heard, Rcv
<1>2. W \in Cells /\ H \in Cells /\ fed[s] \in 0..Len(W) /\ Len(W) \in Nat
  BY <1>1, HandedIs
<1>3. PICK body \in Cells : Len(body) = H[3] /\ Stored(r, H, body) /\ Landed(r, body)
  BY <1>1 DEF Hears, Saved
<1>4. HeaderSound(H, r.key) /\ \E p \in Nat : Carries(H, p, body)
  BY <1>3 DEF Stored
<1>5. Len(H) = fed[s] /\ \A i \in 1..fed[s] : H[i] = W[i]
  BY <1>2, CutIs DEF Handed, Cut
<1> HIDE DEF H, r, W
<1>6. Len(H) >= 3 /\ H[2] = Flag(r.key)
  BY <1>4, Constants DEF HeaderSound
<1>7. Len(W) >= 3 /\ H[3] = W[3] /\ H[2] = W[2]
  BY <1>2, <1>5, <1>6
<1>8. PICK p \in Nat : Carries(H, p, body)
  BY <1>4
<1>9. p \in 3..Len(H)
  BY <1>2, <1>6, <1>8, CarriesIn
<1>10. Carries(W, p, body)
  <2>1. p <= Len(W) /\ \A i \in 1..p : W[i] = H[i]
    BY <1>2, <1>5, <1>9
  <2> QED BY <1>2, <1>6, <1>8, <2>1, CarriesAlike
<1>11. Payload(W) \in Cells /\ Len(body) <= Len(Payload(W)) /\ body = SubSeq(Payload(W), 1, Len(body))
  BY <1>2, <1>7, <1>10, PayloadCarries
<1>12. Promised(W) = Len(body)
  BY <1>3, <1>7, Constants DEF Promised
<1> QED BY <1>1, <1>2, <1>3, <1>4, <1>6, <1>7, <1>11, <1>12 DEF H, r, W

LEMMA TellsAsShared ==
  ASSUME Inv, Told, NEW s \in Streams, rx[s].who = "app", rx[s].row = "done", ~edited
  PROVE  rx[s].saved = Shared
<1> DEFINE W == sent[s]
<1>1. /\ W \in Cells /\ Len(W) >= 3 /\ Payload(W) \in Cells
      /\ W[2] = Flag(rx[s].key) /\ rx[s].key \in BOOLEAN
      /\ \E body \in Cells : /\ Landed(rx[s], body) /\ Len(body) = Promised(W)
                             /\ body = SubSeq(Payload(W), 1, Promised(W))
                             /\ Len(body) <= Len(Payload(W))
  BY SavedReads
<1>2. PICK x \in Cells : /\ Landed(rx[s], x) /\ Len(x) = Promised(W)
                         /\ x = SubSeq(Payload(W), 1, Promised(W)) /\ Len(x) <= Len(Payload(W))
  BY <1>1
<1>3. AppShape(s, W)
  BY DEF Told, Said, Tells, AppTells
<1>4. /\ share.content \in Cells /\ Total \in Nat /\ Total = Len(share.content)
      /\ SubSeq(share.content, 1, Total) = share.content /\ share.locked \in BOOLEAN
  BY ContentIs, At, TransferAssumption DEF Inv, Types
<1> HIDE DEF W
<1>5. W # <<>>
  BY <1>1
<1>6. PICK o \in Nat : Sending(W, o) \/ SentUpto(W, o)
  BY <1>3, <1>5 DEF AppShape, AppDone
<1>7. HeaderSound(W, share.locked) /\ Payload(W) = SubSeq(share.content, 1, o) /\ Promised(W) = Total /\ o \in 0..Total
  <2>1. CASE Sending(W, o)
    BY <2>1, SendingReads DEF Sending
  <2>2. CASE SentUpto(W, o)
    BY <2>2, SentUptoReads DEF SentUpto
  <2> QED BY <1>6, <2>1, <2>2
<1>8. Len(Payload(W)) = o
  BY <1>7, PartOf
<1>9. o = Total
  BY <1>2, <1>4, <1>7, <1>8
<1>10. x = share.content
  BY <1>2, <1>4, <1>7, <1>9
<1>11. rx[s].key = share.locked
  BY <1>1, <1>4, <1>7 DEF HeaderSound, Flag
<1> QED BY <1>2, <1>10, <1>11 DEF Landed, Shared

LEMMA ToldDelivered == Inv /\ Told => Delivered
<1> SUFFICES ASSUME Inv, Told PROVE Delivered
  OBVIOUS
<1>1. ASSUME NEW s \in Streams, rx[s].row = "done"
      PROVE  LET whole == SubSeq(Payload(sent[s]), 1, Promised(sent[s])) IN
             /\ HeaderSound(Handed(s), rx[s].key)
             /\ Len(Payload(sent[s])) >= Promised(sent[s])
             /\ rx[s].key => Unlockable(whole)
             /\ rx[s].saved = Unsealed(rx[s].key, whole)
  <2>1. /\ HeaderSound(Handed(s), rx[s].key) /\ Payload(sent[s]) \in Cells
        /\ \E body \in Cells : /\ Landed(rx[s], body) /\ Len(body) = Promised(sent[s])
                               /\ body = SubSeq(Payload(sent[s]), 1, Promised(sent[s]))
                               /\ Len(body) <= Len(Payload(sent[s]))
    BY <1>1, SavedReads
  <2>2. PICK body \in Cells : /\ Landed(rx[s], body) /\ Len(body) = Promised(sent[s])
                              /\ body = SubSeq(Payload(sent[s]), 1, Promised(sent[s]))
                              /\ Len(body) <= Len(Payload(sent[s]))
    BY <2>1
  <2>3. Len(body) \in Nat /\ Len(Payload(sent[s])) \in Nat
    BY <2>1 DEF Cells
  <2> QED BY <2>1, <2>2, <2>3 DEF Landed
<1>2. SavedIsPromised
  BY <1>1 DEF SavedIsPromised
<1>3. SavedAsShared
  BY TellsAsShared DEF SavedAsShared
<1>4. ASSUME NEW s \in Streams, tx[s].row = "done", ~edited, ~Broken(s), rx[s].lib # "gone"
      PROVE  \E n \in 0..Total : (n = Total \/ s \in badDisk) /\ WentOut(s, n)
  <2>1. rx[s].who \in {"app", "browser"}
    <3>1. NoTx.row # "done"
      BY DEF NoTx
    <3>2. tx[s].lib # "none"
      BY <1>4, <3>1 DEF Inv, SendInv
    <3> QED BY <3>2, Served
  <2>2. Tells(s, tx[s], sent[s], toTx[s])
    BY <2>1 DEF Told, Said
  <2>3. CASE rx[s].who = "app"
    <3>1. PICK n \in Nat : Enough(s, n) /\ SentUpto(sent[s], n)
      BY <1>4, <2>2, <2>3 DEF Tells, AppTells, Unheard, AppDone
    <3>2. HeaderSound(sent[s], share.locked) /\ Payload(sent[s]) = SubSeq(share.content, 1, n)
      BY <3>1, SentUptoReads DEF SentUpto
    <3>3. n = Total => Sound(sent[s], share.locked)
      BY <3>1, SentAllReads DEF SentAll
    <3> QED BY <2>3, <3>1, <3>2, <3>3 DEF Enough, WentOut
  <2>4. CASE rx[s].who = "browser"
    <3>1. PICK n \in Nat : Enough(s, n) /\ sent[s] = Page(s, n)
      BY <1>4, <2>2, <2>4 DEF Tells, WebTells, Unheard, WebDone
    <3> QED BY <2>4, <3>1 DEF Enough, WentOut, Page
  <2> QED BY <2>1, <2>3, <2>4
<1>5. ASSUME NEW s \in Streams, rx[s].who = "browser", share.locked \/ ~share.web
      PROVE  sent[s] \in {<<>>, <<HttpHead>>}
  BY <1>5 DEF Told, Said, Tells, WebTells
<1>6. SentAsShared
  BY <1>4, <1>5 DEF SentAsShared
<1> QED BY <1>2, <1>3, <1>6 DEF Delivered

(* A stream that ends with its row done, at the end or where a read failed. *)
Stops(s, x, V) ==
  /\ x.lib = "gone" /\ ~x.path /\ ~x.raw /\ x.off = 0 /\ rx[s].lib \notin {"none", "dialing"}
  /\ rx[s].who = "browser" /\ (share.locked \/ ~share.web) => V \in {<<>>, <<HttpHead>>}
  /\ rx[s].who = "app" /\ ~edited =>
       \/ Unheard(s) /\ AppShape(s, V)
       \/ \E o \in 0..Total : (o = Total \/ s \in badDisk') /\ SentUpto(V, o)
  /\ rx[s].who = "browser" /\ ~edited =>
       \/ Unheard(s)
       \/ \E o \in 0..Total : (o = Total \/ s \in badDisk') /\ V = Page(s, o)

LEMMA StopsTell ==
  ASSUME NEW s, NEW x, NEW V, NEW m, Stops(s, x, V), UNCHANGED <<share, rx, edited>>, badDisk \subseteq badDisk',
         Unheard(s) => Unheard(s)'
  PROVE  Tells(s, x, V, m)'
<1>1. /\ x.lib = "gone" /\ ~x.path /\ ~x.raw /\ x.off = 0 /\ rx'[s].lib \notin {"none", "dialing"}
      /\ Total' = Total /\ (edited' <=> edited) /\ rx'[s].who = rx[s].who
  BY ShapesSame DEF Stops
<1>2. \A o \in 0..Total : (o = Total \/ s \in badDisk') => o \in Nat /\ Enough(s, o)'
  <2>1. \A o : o \in 0..Total => o \in Nat
    BY DEF Total
  <2> QED BY <1>1, <2>1 DEF Enough
<1>3. rx[s].who = "app" => AppTells(s, x, V)'
  <2> SUFFICES ASSUME rx[s].who = "app", ~edited PROVE AppShape(s, V)' /\ (Unheard(s)' \/ AppDone(s, V)')
    BY <1>1 DEF AppTells
  <2>1. CASE Unheard(s) /\ AppShape(s, V)
    BY <2>1, DonesMore
  <2>2. CASE \E o \in 0..Total : (o = Total \/ s \in badDisk') /\ SentUpto(V, o)
    <3>1. AppDone(s, V)'
      BY <1>2, <2>2, ShapesSame DEF AppDone
    <3> QED BY <3>1 DEF AppShape
  <2> QED BY <2>1, <2>2 DEF Stops
<1>4. rx[s].who = "browser" => WebTells(s, x, V, m)'
  <2> SUFFICES ASSUME rx[s].who = "browser"
               PROVE  /\ share.locked \/ ~share.web => V \in {<<>>, <<HttpHead>>}
                      /\ ~edited => Unheard(s)' \/ WebDone(s, V)'
    BY <1>1 DEF WebTells, Asked
  <2>1. share.locked \/ ~share.web => V \in {<<>>, <<HttpHead>>}
    BY DEF Stops
  <2>2. \A o : Page(s, o)' = Page(s, o)
    BY DEF Page
  <2>3. ~edited => Unheard(s) \/ \E o \in 0..Total : (o = Total \/ s \in badDisk') /\ V = Page(s, o)
    BY DEF Stops
  <2> QED BY <1>2, <2>1, <2>2, <2>3 DEF WebDone
<1> QED BY <1>1, <1>3, <1>4 DEF Tells

(* The sender's steps. What a handler leaves as the record, the stream and  *)
(* the request is told, and the rest stays.                                 *)
LEMMA TellerTold ==
  ASSUME Inv, Told, NEW s \in Streams, NEW t, NEW w \in Seq(Int),
         tx' = [tx EXCEPT ![s] = t], sent' = [sent EXCEPT ![s] = sent[s] \o w],
         Holds(s, t) \/ Opens(s, t) \/ Takes(s, t), t.lib = "open" => cur' = s,
         UNCHANGED <<share, file, rx, fed, cut, edited>>, badDisk \subseteq badDisk',
         \A q \in Streams \ {s} : toTx'[q] = toTx[q],
         Tells(s, t, sent[s] \o w, toTx'[s]) \/ Stops(s, t, sent[s] \o w)
  PROVE  Told'
<1>1. /\ tx'[s] = t /\ sent'[s] = sent[s] \o w
      /\ \A q \in Streams \ {s} : tx'[q] = tx[q] /\ sent'[q] = sent[q]
  BY DEF Inv, Types
<1>2. ASSUME NEW q \in Streams \ {s} PROVE Said(q)' /\ Heard(q)'
  <2>1. Same4(q)
    BY <1>1 DEF Same4
  <2>2. tx[q].lib = "open" => cur = q /\ busy
    <3>1. q # 0
      BY StreamsNat
    <3> QED BY <3>1 DEF Told, Said, Inv, GateInv
  <2>3. tx[q].lib = "open" => cur' = q
    BY <2>2 DEF Holds, Opens, Takes
  <2> QED BY <2>1, <2>3, Others
<1>3. Heard(s)'
  <2>1. fed[s] \in 0..Len(sent[s]) /\ sent[s] \in Seq(Int)
    BY HandedIs
  <2>2. Handed(s)' = Handed(s)
    BY <1>1, <2>1, PrefixIs DEF Handed
  <2> QED BY <2>2 DEF Told, Heard
<1>4. Said(s)'
  <2>1. Unheard(s)' <=> Unheard(s)
    BY DEF Unheard, Broken
  <2>2. \A u, V, m : Tells(s, u, V, m) => Tells(s, u, V, m)'
    BY <2>1, TellsMore
  <2>3. \A V : Stops(s, t, V) => Tells(s, t, V, toTx[s])'
    BY <2>1, StopsTell
  <2> QED BY <1>1, <2>2, <2>3 DEF Said
<1>5. ~edited' => file' = share'.content
  BY DEF Told
<1> QED BY <1>2, <1>3, <1>4, <1>5 DEF Told

LEMMA EndsTold ==
  ASSUME Inv, Told, NEW s \in Streams, NEW x, NEW w \in Seq(Int), Ends(s, x), x.lib = "gone", ~x.path,
         sent' = [sent EXCEPT ![s] = sent[s] \o w],
         UNCHANGED <<share, file, rx, fed, cut, edited>>, badDisk \subseteq badDisk',
         \A q \in Streams \ {s} : toTx'[q] = toTx[q],
         Tells(s, x, sent[s] \o w, toTx'[s]) \/ Stops(s, x, sent[s] \o w)
  PROVE  Told'
<1>1. tx' = [tx EXCEPT ![s] = x] /\ (Holds(s, x) \/ Opens(s, x))
  BY EndsIs
<1> QED BY <1>1, TellerTold

LEMMA GoesOnTold ==
  ASSUME Inv, Told, NEW s \in Streams, NEW x, NEW w \in Seq(Int), GoesOn(s, x),
         cur = s => x.watch, x.path => cur = s, x.lib = "open" => cur = s,
         sent' = [sent EXCEPT ![s] = sent[s] \o w],
         UNCHANGED <<share, file, rx, fed, cut, edited>>, badDisk \subseteq badDisk',
         \A q \in Streams \ {s} : toTx'[q] = toTx[q],
         Tells(s, x, sent[s] \o w, toTx'[s])
  PROVE  Told'
<1>1. tx' = [tx EXCEPT ![s] = x] /\ Holds(s, x) /\ cur' = cur
  BY DEF GoesOn, SetTx, gate, Holds
<1> QED BY <1>1, TellerTold

(* A stream that ends, with what was written for the receiver so far.       *)
LEMMA EndTells ==
  ASSUME NEW s, NEW x, NEW V, NEW m,
         x.lib = "gone", ~x.path, ~x.raw, x.off = 0,
         rx[s].lib \in {"none", "dialing"} => m = <<>> /\ x.req = <<>> /\ x.row # "done",
         rx[s].who = "app" /\ ~edited => AppShape(s, V) /\ (x.row = "done" => Unheard(s) \/ AppDone(s, V)),
         rx[s].who = "browser" /\ (share.locked \/ ~share.web) => V \in {<<>>, <<HttpHead>>},
         rx[s].who = "browser" /\ ~edited /\ x.row = "done" => Unheard(s) \/ WebDone(s, V)
  PROVE  Tells(s, x, V, m)
<1>1. rx[s].who = "app" => AppTells(s, x, V)
  BY DEF AppTells
<1>2. rx[s].who = "browser" => WebTells(s, x, V, m)
  BY DEF WebTells, Asked
<1> QED BY <1>1, <1>2 DEF Tells

(* A record that differs in nothing that Tells looks at.                    *)
LEMMA FlagsTell ==
  ASSUME NEW s, NEW t, NEW x, NEW V, NEW m, Tells(s, t, V, m),
         x.row = t.row, x.path = t.path, x.raw = t.raw, x.off = t.off, x.req = t.req,
         x.lib = "gone" <=> t.lib = "gone"
  PROVE  Tells(s, x, V, m)
<1>1. AppTells(s, t, V) => AppTells(s, x, V)
  BY DEF AppTells
<1>2. Asked(s, t, m) => Asked(s, x, m)
  BY DEF Asked
<1>3. WebTells(s, t, V, m) => WebTells(s, x, V, m)
  BY <1>2 DEF WebTells
<1> QED BY <1>1, <1>3 DEF Tells

LEMMA AbortMore ==
  ASSUME NEW t \in Snd
  PROVE  /\ ServeAbort(t) \in Snd /\ ~ServeAbort(t).path /\ ~ServeAbort(t).raw /\ ServeAbort(t).off = 0
         /\ ServeAbort(t).req = <<>> /\ ServeAbort(t).lib = "gone" /\ ServeAbort(t).row # "done"
         /\ ~ServeCleanup(t).raw /\ ServeCleanup(t).off = 0
<1> DEFINE x == [t EXCEPT !.row = IF @ = "" THEN "" ELSE "error", !.lib = "gone"]
           y == ServeAbort(t)
           z == ServeCleanup(t)
<1>1. x \in Snd /\ x.row # "done"
  BY DEF Snd
<1>2. y = [x EXCEPT !.path = FALSE, !.off = 0, !.fresh = FALSE, !.req = <<>>, !.raw = FALSE]
  BY DEF ServeAbort, ServeCleanup
<1>3. z = [t EXCEPT !.path = FALSE, !.off = 0, !.fresh = FALSE, !.req = <<>>, !.raw = FALSE]
  BY DEF ServeCleanup
<1> HIDE DEF x, y, z
<1>4. ~y.raw /\ y.off = 0 /\ y.row = x.row
  BY <1>1, <1>2 DEF Snd
<1>5. ~z.raw /\ z.off = 0
  BY <1>3 DEF Snd
<1> QED BY <1>1, <1>4, <1>5, ServeAbortIs DEF y, z

(* What a stream tells before a step.                                       *)
LEMMA Telling ==
  ASSUME Inv, Told, NEW s \in Streams, rx[s].who \in {"app", "browser"}
  PROVE  /\ Tells(s, tx[s], sent[s], toTx[s]) /\ (tx[s].lib = "open" => cur = s)
         /\ tx[s] \in Snd /\ sent[s] \in Seq(Int) /\ sent[s] \o <<>> = sent[s] /\ <<>> \in Seq(Int)
         /\ rx[s].who = "app" /\ ~edited => AppShape(s, sent[s])
         /\ rx[s].who = "browser" /\ (share.locked \/ ~share.web) => sent[s] \in {<<>>, <<HttpHead>>}
<1>1. Tells(s, tx[s], sent[s], toTx[s]) /\ (tx[s].lib = "open" => cur = s)
  BY DEF Told, Said
<1>2. tx[s] \in Snd /\ sent[s] \in Seq(Int)
  BY At
<1>3. sent[s] \o <<>> = sent[s]
  BY <1>2
<1> QED BY <1>1, <1>2, <1>3, Framing DEF Tells, AppTells, WebTells

(* To give up keeps what was said.                                          *)
LEMMA AbortTells ==
  ASSUME Inv, Told, NEW s \in Streams, rx[s].who \in {"app", "browser"}, NEW t \in Snd,
         NEW m, rx[s].lib \in {"none", "dialing"} => m = <<>>
  PROVE  Tells(s, ServeAbort(t), sent[s], m)
BY Telling, AbortMore, EndTells

LEMMA AcceptTold ==
  ASSUME Inv, Told, NEW s \in Streams, Accept(s)
  PROVE  Told'
<1>1. /\ tx[s].lib = "none" /\ rx[s].who \in {"app", "browser"}
      /\ UNCHANGED <<share, file, rx, fed, cut, sent, edited, badDisk>>
  BY DEF Accept, down
<1>2. /\ Tells(s, tx[s], sent[s], toTx[s]) /\ tx[s] \in Snd /\ sent[s] \o <<>> = sent[s] /\ <<>> \in Seq(Int)
      /\ rx[s].who = "app" /\ ~edited => AppShape(s, sent[s])
      /\ rx[s].who = "browser" /\ (share.locked \/ ~share.web) => sent[s] \in {<<>>, <<HttpHead>>}
  BY <1>1, Telling
<1>3. sent' = [sent EXCEPT ![s] = sent[s] \o <<>>]
  BY <1>1, Silent
<1>4. SendInv(s) /\ GateInv /\ toTx \in [Streams -> Seq(Words)]
  BY At DEF Inv, Types
<1>5. /\ tx[s] = NoTx /\ NoTx.row # "done" /\ ~NoTx.path /\ ~NoTx.raw /\ NoTx.off = 0 /\ NoTx.req = <<>>
  BY <1>1, <1>4 DEF SendInv, NoTx
<1>6. CASE busy
  <2> DEFINE t == [tx[s] EXCEPT !.lib = "gone"]
  <2>1. GoesOn(s, t) /\ toTx' = [toTx EXCEPT ![s] = <<>>]
    BY <1>6 DEF Accept, GoesOn
  <2>2. t.lib = "gone" /\ t.path = tx[s].path /\ t.row = tx[s].row /\ t.raw = tx[s].raw /\ t.off = tx[s].off
        /\ t.req = tx[s].req /\ t.watch = tx[s].watch
    BY <1>2 DEF Snd
  <2> HIDE DEF t
  <2>3. cur = s => t.watch
    BY <1>4, <2>2, StreamsNat DEF GateInv
  <2>4. Tells(s, t, sent[s], <<>>)
    BY <1>2, <1>5, <2>2, EndTells
  <2>5. toTx'[s] = <<>> /\ \A q \in Streams \ {s} : toTx'[q] = toTx[q]
    BY <1>4, <2>1
  <2> QED BY <1>1, <1>2, <1>3, <1>5, <2>1, <2>2, <2>3, <2>4, <2>5, GoesOnTold
<1>7. CASE ~busy
  <2> DEFINE t == [tx[s] EXCEPT !.lib = "open", !.watch = TRUE]
  <2>1. tx' = [tx EXCEPT ![s] = t] /\ busy' = TRUE /\ cur' = s /\ UNCHANGED toTx
    BY <1>7 DEF Accept, SetTx
  <2>2. t.lib = "open" /\ t.path = tx[s].path /\ t.row = tx[s].row /\ t.raw = tx[s].raw /\ t.off = tx[s].off
        /\ t.req = tx[s].req /\ t.watch
    BY <1>2 DEF Snd
  <2> HIDE DEF t
  <2>3. Takes(s, t)
    BY <1>5, <1>7, <2>1, <2>2 DEF Takes
  <2>4. Tells(s, t, sent[s], toTx[s])
    BY <1>1, <1>2, <2>2, FlagsTell
  <2> QED BY <1>1, <1>2, <1>3, <2>1, <2>3, <2>4, TellerTold
<1> QED BY <1>6, <1>7

LEMMA TxClosedTold ==
  ASSUME Inv, Told, NEW s \in Streams, TxClosed(s)
  PROVE  Told'
<1>1. /\ tx[s].lib = "open" /\ toTx' = [toTx EXCEPT ![s] = <<>>]
      /\ UNCHANGED <<share, file, rx, fed, cut, sent, edited, badDisk>>
  BY DEF TxClosed, down, history
<1>2. rx[s].who \in {"app", "browser"}
  BY <1>1, Served
<1>3. /\ Tells(s, tx[s], sent[s], toTx[s]) /\ tx[s] \in Snd /\ sent[s] \o <<>> = sent[s] /\ <<>> \in Seq(Int)
      /\ rx[s].who = "app" /\ ~edited => AppShape(s, sent[s])
      /\ rx[s].who = "browser" /\ (share.locked \/ ~share.web) => sent[s] \in {<<>>, <<HttpHead>>}
  BY <1>2, Telling
<1>4. sent' = [sent EXCEPT ![s] = sent[s] \o <<>>]
  BY <1>1, Silent
<1>5. SendInv(s) /\ GateInv /\ toTx \in [Streams -> Seq(Words)]
  BY At DEF Inv, Types
<1>6. toTx'[s] = <<>> /\ \A q \in Streams \ {s} : toTx'[q] = toTx[q]
  BY <1>1, <1>5
<1>7. CASE tx[s].row = "active"
  <2>1. Ends(s, ServeAbort(tx[s]))
    BY <1>7 DEF TxClosed
  <2>2. Tells(s, ServeAbort(tx[s]), sent[s], <<>>)
    BY <1>2, <1>3, AbortTells
  <2> QED BY <1>1, <1>3, <1>4, <1>6, <2>1, <2>2, AbortMore, EndsTold
<1>8. CASE tx[s].row # "active"
  <2> DEFINE t == [tx[s] EXCEPT !.lib = "gone"]
  <2>1. GoesOn(s, t)
    BY <1>8 DEF TxClosed
  <2>2. t.lib = "gone" /\ t.path = tx[s].path /\ t.row = tx[s].row /\ t.raw = tx[s].raw /\ t.off = tx[s].off
        /\ t.req = tx[s].req /\ t.watch = tx[s].watch
    BY <1>3 DEF Snd
  <2> HIDE DEF t
  <2>3. ~t.path /\ (cur = s => t.watch)
    BY <1>5, <1>8, <2>2, StreamsNat DEF SendInv, GateInv
  <2>4. t.row # "done" /\ ~t.raw /\ t.off = 0 /\ (rx[s].lib \in {"none", "dialing"} => t.req = <<>>)
    BY <1>1, <1>3, <2>2, <2>3 DEF Tells
  <2>5. Tells(s, t, sent[s], <<>>)
    BY <1>3, <2>2, <2>3, <2>4, EndTells
  <2> QED BY <1>1, <1>3, <1>4, <1>6, <2>1, <2>2, <2>3, <2>5, GoesOnTold
<1> QED BY <1>7, <1>8

LEMMA SendWatchdogTold ==
  ASSUME Inv, Told, NEW s \in Streams, SendWatchdog(s)
  PROVE  Told'
<1> DEFINE idle == cur = s /\ ~tx[s].fresh
           t    == [tx[s] EXCEPT !.fresh = FALSE, !.watch = cur = s /\ ~idle]
<1>1. /\ tx[s].watch /\ IF idle THEN Ends(s, ServeAbort(t)) ELSE GoesOn(s, t)
      /\ UNCHANGED <<share, file, rx, fed, cut, sent, edited, badDisk, toTx>>
  BY DEF SendWatchdog, down
<1>2. rx[s].who \in {"app", "browser"}
  BY <1>1, Served
<1>3. /\ Tells(s, tx[s], sent[s], toTx[s]) /\ tx[s] \in Snd /\ sent[s] \o <<>> = sent[s] /\ <<>> \in Seq(Int)
      /\ tx[s].lib = "open" => cur = s
  BY <1>2, Telling
<1>4. sent' = [sent EXCEPT ![s] = sent[s] \o <<>>]
  BY <1>1, Silent
<1>5. SendInv(s)
  BY DEF Inv
<1>6. t \in Snd /\ t.lib = tx[s].lib /\ t.row = tx[s].row /\ t.path = tx[s].path /\ t.watch = (cur = s /\ ~idle)
      /\ t.req = tx[s].req /\ t.raw = tx[s].raw /\ t.off = tx[s].off
  BY <1>3 DEF Snd
<1> HIDE DEF t
<1>7. rx[s].lib \in {"none", "dialing"} => toTx[s] = <<>>
  BY <1>3 DEF Tells
<1>8. CASE idle
  <2>1. Tells(s, ServeAbort(t), sent[s], toTx[s])
    BY <1>2, <1>6, <1>7, AbortTells
  <2> QED BY <1>1, <1>3, <1>4, <1>6, <1>8, <2>1, AbortMore, EndsTold
<1>9. CASE ~idle
  <2>1. Tells(s, t, sent[s], toTx[s])
    BY <1>3, <1>6, FlagsTell
  <2>2. (cur = s => t.watch) /\ (t.path => cur = s) /\ (t.lib = "open" => cur = s)
    BY <1>3, <1>5, <1>6, <1>9 DEF SendInv
  <2> QED BY <1>1, <1>3, <1>4, <1>9, <2>1, <2>2, GoesOnTold
<1> QED BY <1>8, <1>9

(* The next slice of a file.                                                *)
Slice(q, off) == SubSeq(q, off + 1, IF off + Chunk <= Len(q) THEN off + Chunk ELSE Len(q))

LEMMA SliceMore ==
  ASSUME NEW q \in Cells, NEW off \in 0..Len(q)
  PROVE  /\ Len(Slice(q, off)) \in 0..Chunk /\ off + Len(Slice(q, off)) <= Len(q)
         /\ Slice(q, off) = SubSeq(q, off + 1, off + Len(Slice(q, off)))
         /\ Len(Slice(q, off)) = 0 => off = Len(q)
<1> DEFINE upto == IF off + Chunk <= Len(q) THEN off + Chunk ELSE Len(q)
           x    == SubSeq(q, off + 1, upto)
<1>1. Len(q) \in Nat /\ Chunk \in Nat \ {0} /\ off \in Nat
  BY Constants DEF Cells
<1>2. upto \in off..Len(q) /\ upto - off \in 0..Chunk /\ (upto = off => off = Len(q))
  BY <1>1
<1>3. x \in Cells /\ Len(x) = upto - off
  BY <1>1, <1>2 DEF Cells
<1>4. off + Len(x) = upto
  BY <1>1, <1>2, <1>3
<1>5. x = SubSeq(q, off + 1, off + Len(x))
  BY <1>4
<1>6. x = Slice(q, off)
  BY DEF Slice
<1> HIDE DEF upto, x
<1>7. Len(x) \in 0..Chunk
  BY <1>2, <1>3
<1>8. off + Len(x) <= Len(q)
  BY <1>1, <1>2, <1>4
<1>9. Len(x) = 0 => off = Len(q)
  BY <1>1, <1>2, <1>3
<1> QED BY <1>5, <1>6, <1>7, <1>8, <1>9

LEMMA PumpTold ==
  ASSUME Inv, Told, NEW s \in Streams, Pump(s)
  PROVE  Told'
<1> DEFINE t     == [tx[s] EXCEPT !.pump = FALSE]
           upto  == IF t.off + Chunk <= Len(file) THEN t.off + Chunk ELSE Len(file)
           slice == SubSeq(file, t.off + 1, upto)
           n     == Len(slice)
           frame == IF t.raw THEN slice ELSE FrameLength(n) \o slice
           last  == IF t.raw THEN <<>> ELSE Terminator
           d     == [t EXCEPT !.row = "done", !.lib = "gone"]
           t2    == [t EXCEPT !.off = @ + n, !.fresh = TRUE, !.pump = TRUE]
           c     == ServeCleanup(d)
           W     == sent[s]
<1>1. /\ t # tx[s] /\ UNCHANGED <<share, file, rx, toTx, fed, cut, edited>>
      /\ badDisk \subseteq badDisk' /\ (Disk(s, "read") => s \in badDisk')
      /\ \/ ~t.path /\ GoesOn(s, t) /\ UNCHANGED sent
         \/ t.path /\ (n = 0 \/ Disk(s, "read")) /\ Ends(s, c) /\ (Writes(s, last) \/ (Unheard(s) /\ UNCHANGED sent))
         \/ t.path /\ Ends(s, ServeAbort(t)) /\ UNCHANGED sent
         \/ t.path /\ n # 0 /\ Writes(s, frame) /\ GoesOn(s, t2)
  <2>1. WriteMayFail(s) => Unheard(s)
    BY DEF WriteMayFail, Unheard
  <2>2. /\ t # tx[s] /\ UNCHANGED <<share, file, rx, toTx, fed, cut, edited>>
        /\ Disk(s, "none") \/ Disk(s, "read")
        /\ \/ ~t.path /\ GoesOn(s, t) /\ UNCHANGED sent
           \/ /\ t.path /\ (n = 0 \/ Disk(s, "read")) /\ Ends(s, c)
              /\ Writes(s, last) \/ (WriteMayFail(s) /\ UNCHANGED sent)
           \/ t.path /\ WriteMayFail(s) /\ Ends(s, ServeAbort(t)) /\ UNCHANGED sent
           \/ t.path /\ n # 0 /\ Writes(s, frame) /\ GoesOn(s, t2)
    BY PumpSteps
  <2>3. badDisk \subseteq badDisk' /\ (Disk(s, "read") => s \in badDisk')
    BY <2>2, DiskIs
  <2> HIDE DEF t, n, frame, last, c, t2
  <2> QED BY <2>1, <2>2, <2>3
<1>2. tx[s] \in Snd /\ SendInv(s) /\ GateInv
  BY At DEF Inv
<1>3. tx[s].pump
  BY <1>1, <1>2 DEF Snd
<1>4. rx[s].who \in {"app", "browser"}
  BY <1>3, Served
<1>5. /\ Tells(s, tx[s], W, toTx[s]) /\ (tx[s].lib = "open" => cur = s)
      /\ W \in Seq(Int) /\ W \o <<>> = W /\ <<>> \in Seq(Int)
  BY <1>4, Telling
<1>6. /\ t \in Snd /\ t.lib = tx[s].lib /\ t.row = tx[s].row /\ t.path = tx[s].path /\ t.watch = tx[s].watch
      /\ t.req = tx[s].req /\ t.off = tx[s].off /\ t.raw = tx[s].raw
  BY <1>2 DEF Snd
<1> HIDE DEF t
<1>7. d \in Snd /\ d.lib = "gone" /\ d.row = "done"
  BY <1>6 DEF Snd
<1> HIDE DEF d
<1>8. c.lib = "gone" /\ c.row = "done" /\ ~c.path /\ ~c.raw /\ c.off = 0 /\ c.req = <<>>
  BY <1>7, CleanupIs, AbortMore
<1> HIDE DEF c
<1>9. (cur = s => t.watch) /\ (t.path => cur = s /\ t.lib = "open" /\ t.row = "active" /\ file # NoFile) /\ toTx'[s] = toTx[s]
  BY <1>1, <1>2, <1>6, StreamsNat DEF SendInv, GateInv
<1>10. Tells(s, t, W, toTx[s])
  BY <1>5, <1>6, FlagsTell
<1>11. ASSUME UNCHANGED sent PROVE sent' = [sent EXCEPT ![s] = W \o <<>>]
  BY <1>11, Silent
<1>12. ASSUME t.path PROVE rx[s].lib \notin {"none", "dialing"} /\ (rx[s].who = "browser" => ~share.locked /\ share.web)
  BY <1>4, <1>10, <1>12 DEF Tells, WebTells
<1>13. share.content \in Cells /\ Total \in Nat /\ Total = Len(share.content)
       /\ SubSeq(share.content, 1, Total) = share.content
  BY ContentIs
<1>14. t.path => slice \in Cells /\ n \in Nat /\ frame \in Cells
  <2> SUFFICES ASSUME t.path PROVE slice \in Cells /\ n \in Nat /\ frame \in Cells
    OBVIOUS
  <2>1. file \in Cells /\ t.off \in Nat
    BY <1>6, <1>9 DEF Inv, Types, Files, Snd
  <2>2. upto \in 0..Len(file)
    <3>1. Len(file) \in Nat
      BY <2>1 DEF Cells
    <3> QED BY <2>1, <3>1, Constants
  <2> HIDE DEF upto
  <2>3. slice \in Cells /\ n \in Nat
    BY <2>1, <2>2, SliceIs
  <2> HIDE DEF slice, n
  <2>4. FrameLength(n) \in Cells
    BY <2>3, Framing
  <2>5. FrameLength(n) \o slice \in Cells
    BY <2>3, <2>4, ConcatProperties DEF Cells
  <2> QED BY <2>3, <2>5
<1>15. ASSUME t.path, ~edited
       PROVE  /\ n \in 0..Chunk /\ t.off + n <= Total /\ (n = 0 => t.off = Total) /\ t.off \in 0..Total
              /\ slice = SubSeq(share.content, t.off + 1, t.off + n)
  <2>1. file = share.content
    BY <1>15 DEF Told
  <2>2. t.off \in 0..Total
    <3>1. rx[s].who = "app" => t.off \in 0..Total
      BY <1>10, <1>15 DEF Tells, AppTells, Sending
    <3>2. rx[s].who = "browser" => t.off <= Total /\ t.off \in Nat
      BY <1>6, <1>10, <1>15 DEF Tells, WebTells, Snd
    <3> QED BY <1>4, <1>13, <3>1, <3>2
  <2>3. slice = Slice(share.content, t.off) /\ n = Len(slice)
    BY <2>1 DEF Slice
  <2> HIDE DEF upto, slice, n
  <2>4. /\ Len(slice) \in 0..Chunk /\ t.off + Len(slice) <= Len(share.content)
        /\ slice = SubSeq(share.content, t.off + 1, t.off + Len(slice))
        /\ Len(slice) = 0 => t.off = Len(share.content)
    BY <1>13, <2>2, <2>3, SliceMore
  <2>5. slice = SubSeq(share.content, t.off + 1, t.off + n)
    BY <2>3, <2>4
  <2> QED BY <1>13, <2>2, <2>3, <2>4, <2>5
<1> HIDE DEF slice, n, upto, frame, last
<1>16. CASE ~t.path /\ GoesOn(s, t) /\ UNCHANGED sent
  BY <1>1, <1>5, <1>6, <1>9, <1>10, <1>11, <1>16, GoesOnTold
<1>17. CASE t.path /\ Ends(s, ServeAbort(t)) /\ UNCHANGED sent
  <2>1. Tells(s, ServeAbort(t), W, toTx[s])
    BY <1>4, <1>6, <1>12, <1>17, AbortTells
  <2> QED BY <1>1, <1>5, <1>6, <1>9, <1>11, <1>17, <2>1, AbortMore, EndsTold
<1>18. CASE t.path /\ (n = 0 \/ Disk(s, "read")) /\ Ends(s, c) /\ (Writes(s, last) \/ (Unheard(s) /\ UNCHANGED sent))
  <2>1. PICK w \in Cells : sent' = [sent EXCEPT ![s] = W \o w] /\ (w = last \/ (Unheard(s) /\ w = <<>>))
    <3>1. last \in Cells /\ <<>> \in Cells
      BY Framing, Constants DEF Terminator, last
    <3> QED BY <1>11, <1>18, <3>1 DEF Writes
  <2>2. ASSUME ~edited
        PROVE  t.off \in Nat /\ t.off \in 0..Total /\ (t.off = Total \/ s \in badDisk')
    BY <1>1, <1>13, <1>15, <1>18, <2>2
  <2>3. rx[s].who = "app" /\ ~edited => (Unheard(s) /\ AppShape(s, W \o w)) \/ SentUpto(W \o w, t.off)
    <3> SUFFICES ASSUME rx[s].who = "app", ~edited
                 PROVE  (Unheard(s) /\ AppShape(s, W \o w)) \/ SentUpto(W \o w, t.off)
      OBVIOUS
    <3>1. ~t.raw /\ Sending(W, t.off)
      BY <1>10, <1>18 DEF Tells, AppTells
    <3>2. SentUpto(W \o Terminator, t.off)
      BY <3>1 DEF SentUpto, Sending
    <3>3. AppShape(s, W)
      BY <1>10 DEF Tells, AppTells
    <3> QED BY <1>5, <2>1, <3>1, <3>2, <3>3 DEF last
  <2>4. rx[s].who = "browser" /\ ~edited => Unheard(s) \/ W \o w = Page(s, t.off)
    <3> SUFFICES ASSUME rx[s].who = "browser", ~edited, w = last PROVE W \o w = Page(s, t.off)
      BY <2>1
    <3>1. t.raw /\ rx[s].asks # "H" /\ W = <<HttpHead>> \o SubSeq(share.content, 1, t.off)
      BY <1>10, <1>18 DEF Tells, WebTells
    <3>2. W \o w = W
      BY <1>5, <3>1 DEF last
    <3> QED BY <3>1, <3>2 DEF Page
  <2>5. Stops(s, c, W \o w)
    BY <1>4, <1>8, <1>12, <1>18, <2>2, <2>3, <2>4 DEF Stops
  <2> QED BY <1>1, <1>8, <1>9, <1>18, <2>1, <2>5, Framing, EndsTold
<1>19. CASE t.path /\ n # 0 /\ Writes(s, frame) /\ GoesOn(s, t2)
  <2>1. t.off + n \in Nat /\ n \in Nat /\ frame \in Cells
    <3>1. t.off \in Nat /\ n \in Nat /\ frame \in Cells
      BY <1>6, <1>14, <1>19 DEF Snd
    <3> QED BY <3>1
  <2>2. /\ t2.lib = t.lib /\ t2.row = t.row /\ t2.path = t.path /\ t2.watch = t.watch
        /\ t2.raw = t.raw /\ t2.off = t.off + n
    BY <1>6, <2>1 DEF Snd
  <2> HIDE DEF t2
  <2>3. sent' = [sent EXCEPT ![s] = W \o frame]
    BY <1>19 DEF Writes
  <2>4. rx[s].who = "app" => AppTells(s, t2, W \o frame)
    <3> SUFFICES ASSUME rx[s].who = "app", ~edited
                 PROVE  ~t2.raw /\ Sending(W \o frame, t2.off) /\ t2.off \in Nat
      BY <1>9, <1>19, <2>2 DEF AppTells, AppShape
    <3>1. ~t.raw /\ Sending(W, t.off)
      BY <1>10, <1>19 DEF Tells, AppTells
    <3>2. n \in 1..Chunk /\ t.off + n <= Total /\ slice = SubSeq(share.content, t.off + 1, t.off + n)
      BY <1>15, <1>19, <2>1
    <3>3. Sending(W \o (FrameLength(n) \o slice), t.off + n)
      BY <3>1, <3>2, FrameSends
    <3> QED BY <2>1, <2>2, <3>1, <3>3 DEF frame
  <2>5. rx[s].who = "browser" => WebTells(s, t2, W \o frame, toTx[s])
    <3> SUFFICES ASSUME rx[s].who = "browser"
                 PROVE  ~edited => t2.raw /\ t2.off <= Total /\ rx[s].asks # "H"
                                   /\ W \o frame = <<HttpHead>> \o SubSeq(share.content, 1, t2.off)
      BY <1>9, <1>12, <1>19, <2>2 DEF WebTells, Asked
    <3> SUFFICES ASSUME ~edited
                 PROVE  t2.raw /\ t2.off <= Total /\ rx[s].asks # "H"
                        /\ W \o frame = <<HttpHead>> \o SubSeq(share.content, 1, t2.off)
      OBVIOUS
    <3>1. t.raw /\ rx[s].asks # "H" /\ W = <<HttpHead>> \o SubSeq(share.content, 1, t.off)
      BY <1>10, <1>19 DEF Tells, WebTells
    <3>2. /\ n \in 0..(Total - t.off) /\ t.off + n <= Total /\ t.off \in 0..Total
          /\ slice = SubSeq(share.content, t.off + 1, t.off + n)
      BY <1>13, <1>15, <1>19, <2>1
    <3> DEFINE y == SubSeq(share.content, 1, t.off)
    <3>3. y \in Cells /\ SubSeq(share.content, 1, t.off + n) = y \o slice
      BY <3>2, PartOf
    <3> HIDE DEF y
    <3>4. (<<HttpHead>> \o y) \o slice = <<HttpHead>> \o (y \o slice)
      <4>1. \A a, b, e \in Seq(Int) : (a \o b) \o e = a \o (b \o e)
        OBVIOUS
      <4>2. slice \in Cells
        BY <1>14, <1>19
      <4> QED BY <3>3, <4>1, <4>2, Framing
    <3> QED BY <2>2, <3>1, <3>2, <3>3, <3>4 DEF y, frame
  <2>6. Tells(s, t2, W \o frame, toTx[s])
    BY <1>9, <1>12, <1>19, <2>2, <2>4, <2>5 DEF Tells
  <2> QED BY <1>1, <1>9, <1>19, <2>1, <2>2, <2>3, <2>6, Framing, GoesOnTold
<1> QED BY <1>1, <1>16, <1>17, <1>18, <1>19

-----------------------------------------------------------------------------
(* A request that is not served yet: nothing was written for its stream.    *)
Facing(s, t, m) ==
  /\ Asking(s, t) /\ ~t.raw /\ t.off = 0 /\ t.row = "" /\ sent[s] = <<>>
  /\ rx[s].who \in {"app", "browser"} /\ rx[s].lib \notin {"none", "dialing"}
  /\ rx[s].who = "browser" => \E q \in Requests : t.req \o m = q /\ q[1] = rx[s].asks
  /\ UNCHANGED <<share, file, rx, fed, cut, edited>> /\ badDisk \subseteq badDisk'
  /\ m \in Seq(Words) /\ toTx'[s] = m /\ \A q \in Streams \ {s} : toTx'[q] = toTx[q]

LEMMA JoinEmpty == \A q \in Seq(Int) : <<>> \o q = q /\ q \o <<>> = q
OBVIOUS

LEMMA WaitsTold ==
  ASSUME Inv, Told, NEW s \in Streams, NEW t, NEW m, Facing(s, t, m), Waits(s, t)
  PROVE  Told'
<1>1. GoesOn(s, t) /\ sent' = [sent EXCEPT ![s] = sent[s] \o <<>>]
  BY Silent DEF Waits
<1>2. <<>> \in Seq(Int) /\ sent[s] \o <<>> = <<>>
  BY Framing, JoinEmpty DEF Facing
<1>3. AppTells(s, t, <<>>)
  BY DEF AppTells, AppShape, Facing, Asking
<1>4. rx[s].who = "browser" => WebTells(s, t, <<>>, m)
  BY DEF WebTells, Asked, Facing, Asking
<1>5. Tells(s, t, <<>>, m)
  BY <1>3, <1>4 DEF Tells, Facing, Asking
<1> QED BY <1>1, <1>2, <1>5, GoesOnTold DEF Facing, Asking

(* A request that is answered and closed, or given up.                      *)
LEMMA AnswersTold ==
  ASSUME Inv, Told, NEW s \in Streams, NEW t, NEW m, Facing(s, t, m), NEW x \in Snd, Ends(s, x),
         x.lib = "gone", ~x.path, ~x.raw, x.off = 0,
         NEW w \in {<<>>, <<HttpHead>>}, sent' = [sent EXCEPT ![s] = sent[s] \o w],
         rx[s].who = "app" => w = <<>>,
         x.row = "done" => rx[s].who = "browser" /\ rx[s].asks = "H" /\ w = <<HttpHead>>
  PROVE  Told'
<1>1. w \in Seq(Int) /\ sent[s] \o w = w
  BY Framing, JoinEmpty DEF Facing
<1>2. AppShape(s, <<>>)
  BY DEF AppShape
<1>3. x.row = "done" => WebDone(s, w)
  <2>1. <<HttpHead>> \o <<>> = <<HttpHead>>
    BY Framing
  <2>2. Total \in Nat /\ Enough(s, Total)
    BY ContentIs DEF Enough
  <2> QED BY <2>1, <2>2 DEF Page, WebDone
<1>4. Tells(s, x, w, m)
  BY <1>2, <1>3, EndTells DEF Facing
<1> QED BY <1>1, <1>4, EndsTold DEF Facing

LEMMA DropsTold ==
  ASSUME Inv, Told, NEW s \in Streams, NEW t, NEW m, Facing(s, t, m), Drops(s, t)
  PROVE  Told'
<1>1. Ends(s, ServeAbort(t)) /\ sent' = [sent EXCEPT ![s] = sent[s] \o <<>>] /\ t \in Snd
  BY Silent DEF Drops, Facing, Asking
<1> QED BY <1>1, AbortMore, AnswersTold

LEMMA BeginSendTold ==
  ASSUME Inv, Told, NEW s \in Streams, NEW t, NEW m, Facing(s, t, m), rx[s].who # "browser", BeginSend(s, t)
  PROVE  Told'
<1> DEFINE t1 == [t EXCEPT !.row = "active"]
           t2 == [t1 EXCEPT !.path = TRUE, !.off = 0, !.pump = TRUE]
           w  == OnionHeader(share.locked, Total)
<1>1. t \in Snd /\ t1 \in Snd
  BY DEF Facing, Asking, Snd
<1>2. /\ t2.lib = "open" /\ t2.row = "active" /\ t2.path /\ t2.watch /\ t2.off = 0 /\ t2.raw = t.raw
  BY DEF Facing, Asking, Snd
<1>3. (Ends(s, ServeAbort(t1)) /\ UNCHANGED sent) \/ (Writes(s, w) /\ GoesOn(s, t2))
  BY DEF BeginSend
<1> HIDE DEF t1, t2
<1>4. CASE Ends(s, ServeAbort(t1)) /\ UNCHANGED sent
  BY <1>1, <1>4, Silent, AbortMore, AnswersTold
<1>5. CASE Writes(s, w) /\ GoesOn(s, t2)
  <2>1. w \in Cells /\ w \in Seq(Int) /\ Sending(w, 0)
    BY Framing, HeaderIs, HeaderSends
  <2> HIDE DEF w
  <2>2. sent[s] \o w = w /\ sent' = [sent EXCEPT ![s] = sent[s] \o w]
    BY <1>5, <2>1, JoinEmpty DEF Facing, Writes
  <2>3. AppTells(s, t2, w)
    BY <1>2, <2>1 DEF AppTells, AppShape, Facing
  <2>4. Tells(s, t2, w, m)
    BY <1>2, <2>3 DEF Tells, Facing
  <2> QED BY <1>2, <1>5, <2>1, <2>2, <2>4, GoesOnTold DEF Facing, Asking
<1> QED BY <1>3, <1>4, <1>5

LEMMA HttpTold ==
  ASSUME Inv, Told, NEW s \in Streams, NEW t, NEW m, Facing(s, t, m), rx[s].who # "app", ServeHttp(s, t)
  PROVE  Told'
<1> DEFINE a  == [t EXCEPT !.lib = "gone"]
           t1 == [t EXCEPT !.row = "active"]
           d  == [t1 EXCEPT !.row = "done", !.lib = "gone"]
           t2 == [t1 EXCEPT !.path = TRUE, !.raw = TRUE, !.pump = TRUE]
           h  == <<HttpHead>>
<1>0. t \in Snd /\ cur = s
  BY DEF Facing, Asking
<1>1. /\ t1 \in Snd
      /\ a \in Snd /\ a.lib = "gone" /\ a.row = t.row
      /\ d \in Snd /\ d.lib = "gone" /\ d.row = "done"
  BY <1>0 DEF Snd
<1>2. t2.lib = t.lib /\ t2.row = "active" /\ t2.path /\ t2.raw /\ t2.watch = t.watch /\ t2.off = t.off
  BY <1>0 DEF Snd
<1>3. \/ Ends(s, ServeCleanup(a)) /\ (Writes(s, h) \/ UNCHANGED sent)
      \/ Ends(s, ServeAbort(t1)) /\ (Writes(s, h) \/ UNCHANGED sent)
      \/ t.req[1] = "H" /\ Writes(s, h) /\ Ends(s, ServeCleanup(d))
      \/ ~share.locked /\ share.web /\ t.req[1] = "G" /\ Writes(s, h) /\ GoesOn(s, t2)
  BY DEF ServeHttp, HttpDownload, HttpText
<1> HIDE DEF a, t1, t2, d
<1>4. Writes(s, h) => sent' = [sent EXCEPT ![s] = sent[s] \o h]
  BY DEF Writes
<1>5. UNCHANGED sent => sent' = [sent EXCEPT ![s] = sent[s] \o <<>>]
  BY Silent
<1>6. t.req[1] = rx[s].asks
  <2>1. PICK q \in Requests : t.req \o m = q /\ q[1] = rx[s].asks
    BY DEF Facing
  <2>2. t.req \in Seq(Words) /\ t.req # <<>> /\ m \in Seq(Words)
    BY <1>0, At DEF Facing, Asking, Snd, Inv, Types
  <2>3. (t.req \o m)[1] = t.req[1]
    BY <2>2
  <2> QED BY <2>1, <2>3
<1>7. CASE Ends(s, ServeCleanup(a)) /\ (Writes(s, h) \/ UNCHANGED sent)
  <2>1. ServeCleanup(a).row # "done"
    BY <1>1, CleanupIs DEF Facing
  <2> QED BY <1>1, <1>4, <1>5, <1>7, <2>1, CleanupIs, AbortMore, AnswersTold
<1>8. CASE Ends(s, ServeAbort(t1)) /\ (Writes(s, h) \/ UNCHANGED sent)
  BY <1>1, <1>4, <1>5, <1>8, AbortMore, AnswersTold
<1>9. CASE t.req[1] = "H" /\ Writes(s, h) /\ Ends(s, ServeCleanup(d))
  <2> DEFINE c == ServeCleanup(d)
  <2>1. rx[s].who = "browser" /\ rx[s].asks = "H"
    BY <1>6, <1>9 DEF Facing
  <2>2. c \in Snd /\ c.lib = "gone" /\ ~c.path /\ ~c.raw /\ c.off = 0 /\ c.row = "done"
    BY <1>1, CleanupIs, AbortMore
  <2>3. h \in {<<>>, <<HttpHead>>} /\ sent' = [sent EXCEPT ![s] = sent[s] \o h] /\ Ends(s, c)
    BY <1>4, <1>9
  <2> HIDE DEF c
  <2> QED BY <2>1, <2>2, <2>3, AnswersTold
<1>10. CASE ~share.locked /\ share.web /\ t.req[1] = "G" /\ Writes(s, h) /\ GoesOn(s, t2)
  <2>0. h \in Seq(Int) /\ sent[s] = <<>>
    BY Framing DEF Facing
  <2> HIDE DEF h
  <2>1. sent[s] \o h = h /\ h \o <<>> = h /\ SubSeq(share.content, 1, 0) = <<>> /\ 0 <= Total
    <3>1. Total \in Nat /\ SubSeq(share.content, 1, 0) = <<>>
      BY ContentIs
    <3> QED BY <2>0, <3>1, JoinEmpty
  <2>2. WebTells(s, t2, h, m)
    BY <1>2, <1>6, <1>10, <2>1 DEF WebTells, Asked, Facing, h
  <2>3. Tells(s, t2, h, m)
    BY <1>2, <2>2 DEF Tells, Facing, Asking
  <2> QED BY <1>2, <1>4, <1>10, <2>0, <2>1, <2>3, GoesOnTold DEF Facing, Asking
<1> QED BY <1>3, <1>7, <1>8, <1>9, <1>10

LEMMA ServeTold ==
  ASSUME Inv, Told, NEW s \in Streams, NEW t, NEW m, Facing(s, t, m), Serve(s, t)
  PROVE  Told'
<1>1. CASE t.req[1] \in {"G", "H"}
  <2>1. rx[s].who # "app"
    <3> SUFFICES ASSUME rx[s].who = "app" PROVE FALSE
      OBVIOUS
    <3>1. t.req \in Seq({"B", "TXO"}) /\ t.req # <<>>
      BY DEF Facing, Asking, AppSays
    <3>2. t.req[1] \in {"B", "TXO"}
      BY <3>1
    <3> QED BY <1>1, <3>2
  <2>2. ServeHttp(s, t) \/ Drops(s, t) \/ Waits(s, t)
    BY <1>1 DEF Serve
  <2> QED BY <2>1, <2>2, HttpTold, DropsTold, WaitsTold
<1>2. CASE t.req[1] \notin {"G", "H"}
  <2>1. \/ Drops(s, t) \/ Waits(s, t)
        \/ BeginSend(s, t) /\ ~(Len(t.req) < Len(RequestMagic)) /\ SubSeq(t.req, 1, Len(RequestMagic)) = RequestMagic
    BY <1>2 DEF Serve
  <2>2. ASSUME rx[s].who = "browser", ~(Len(t.req) < Len(RequestMagic)),
               SubSeq(t.req, 1, Len(RequestMagic)) = RequestMagic
        PROVE  FALSE
    <3>1. PICK q \in Requests : t.req \o m = q
      BY <2>2 DEF Facing
    <3>2. t.req \in Seq(Words) /\ m \in Seq(Words)
      BY At DEF Facing, Asking, Snd, Inv, Types
    <3>3. Len(RequestMagic) = 2
      BY DEF RequestMagic
    <3>4. Len(t.req) >= 2 /\ SubSeq(t.req, 1, 2) = RequestMagic
      BY <2>2, <3>2, <3>3
    <3>5. Len(q) >= 2 /\ q[1] = t.req[1] /\ q[2] = t.req[2]
      BY <3>1, <3>2, <3>4
    <3>6. RequestMagic[1] = t.req[1] /\ RequestMagic[2] = t.req[2]
      BY <3>2, <3>4
    <3>7. <<q[1], q[2]>> = RequestMagic
      BY <3>5, <3>6 DEF RequestMagic
    <3> QED BY <3>5, <3>7, RequestAssumption
  <2> QED BY <2>1, <2>2, BeginSendTold, DropsTold, WaitsTold
<1> QED BY <1>1, <1>2

(* How a handler of the sender leaves its record.                           *)
LEMMA Leaves ==
  ASSUME Inv, NEW s \in Streams, NEW x, Ends(s, x) \/ GoesOn(s, x)
  PROVE  tx'[s] = x /\ \A q \in Streams \ {s} : tx'[q] = tx[q]
BY DEF Ends, GoesOn, SetTx, Inv, Types

(* What serving a request leaves alone.                                     *)
Apart(s) == /\ \A q \in Streams \ {s} : tx'[q] = tx[q] /\ sent'[q] = sent[q]
            /\ badDisk \subseteq badDisk'

LEMMA ServeApart ==
  ASSUME Inv, NEW s \in Streams, NEW t, Serve(s, t)
  PROVE  Apart(s)
<1>1. \A W : Writes(s, W) => \A q \in Streams \ {s} : sent'[q] = sent[q]
  BY DEF Writes, Inv, Types
<1>2. \A x : Ends(s, x) \/ GoesOn(s, x) => \A q \in Streams \ {s} : tx'[q] = tx[q]
  BY Leaves
<1>3. OpenMayFail(s) \/ DiskWorks \/ UNCHANGED badDisk => badDisk \subseteq badDisk'
  BY DEF OpenMayFail, DiskWorks
<1>4. Drops(s, t) \/ Waits(s, t) => Apart(s)
  BY <1>2, <1>3 DEF Drops, Waits, Apart
<1>5. BeginSend(s, t) => Apart(s)
  BY <1>1, <1>2, <1>3 DEF BeginSend, Apart
<1>6. ASSUME HttpText(s, t) PROVE Apart(s)
  <2>1. (\A q \in Streams \ {s} : sent'[q] = sent[q]) /\ UNCHANGED badDisk
    BY <1>1, <1>6 DEF HttpText
  <2>2. \E x : Ends(s, x)
    BY <1>6 DEF HttpText
  <2> QED BY <1>2, <1>3, <2>1, <2>2 DEF Apart
<1>7. ASSUME HttpDownload(s, t) PROVE Apart(s)
  <2>1. \A q \in Streams \ {s} : sent'[q] = sent[q]
    BY <1>1, <1>7 DEF HttpDownload
  <2>2. \E x : Ends(s, x) \/ GoesOn(s, x)
    BY <1>7 DEF HttpDownload
  <2>3. OpenMayFail(s) \/ DiskWorks \/ UNCHANGED badDisk
    BY <1>7 DEF HttpDownload
  <2> QED BY <1>2, <1>3, <2>1, <2>2, <2>3 DEF Apart
<1>8. ServeHttp(s, t) => Apart(s)
  BY <1>6, <1>7 DEF ServeHttp
<1>9. Drops(s, t) \/ Waits(s, t) \/ BeginSend(s, t) \/ ServeHttp(s, t)
  BY DEF Serve
<1> QED BY <1>4, <1>5, <1>8, <1>9

(* A request that comes in parts.                                           *)
LEMMA JoinAny ==
  ASSUME NEW a \in Seq(Words), NEW b \in Seq(Words)
  PROVE  /\ a \o b \in Seq(Words) /\ Len(a \o b) = Len(a) + Len(b)
         /\ \A i \in 1..Len(a) : (a \o b)[i] = a[i]
         /\ \A i \in 1..Len(b) : (a \o b)[Len(a) + i] = b[i]
OBVIOUS

LEMMA PartsJoin ==
  ASSUME NEW q \in Seq(Words), NEW k \in 1..Len(q)
  PROVE  SubSeq(q, 1, k) \o Drop(q, k) = q
<1> DEFINE a == SubSeq(q, 1, k)
           b == Drop(q, k)
           c == a \o b
<1>1. Len(q) \in Nat /\ k \in Nat /\ k <= Len(q)
  OBVIOUS
<1>2. a \in Seq(Words) /\ Len(a) = k /\ \A i \in 1..k : a[i] = q[i]
  BY <1>1
<1>3. b \in Seq(Words) /\ Len(b) = Len(q) - k /\ \A i \in 1..(Len(q) - k) : b[i] = q[k + i]
  BY <1>1 DEF Drop
<1> HIDE DEF a, b
<1>4. /\ c \in Seq(Words) /\ Len(c) = Len(a) + Len(b)
      /\ (\A i \in 1..Len(a) : c[i] = a[i]) /\ \A i \in 1..Len(b) : c[Len(a) + i] = b[i]
  BY <1>2, <1>3, JoinAny
<1> HIDE DEF c
<1>5. ASSUME NEW i \in 1..Len(q) PROVE c[i] = q[i]
  <2>1. CASE i <= k
    <3>1. i \in 1..k
      BY <1>1, <2>1
    <3> QED BY <1>2, <1>4, <3>1
  <2>2. CASE ~(i <= k)
    <3>1. i - k \in 1..(Len(q) - k) /\ k + (i - k) = i
      BY <1>1, <2>2
    <3> DEFINE j == i - k
    <3>2. j \in 1..Len(b) /\ Len(a) + j = i /\ k + j = i
      BY <1>1, <1>2, <1>3, <3>1
    <3> HIDE DEF j
    <3>3. c[Len(a) + j] = b[j] /\ b[j] = q[k + j]
      BY <1>3, <1>4, <3>2
    <3> QED BY <3>2, <3>3
  <2> QED BY <2>1, <2>2
<1>6. c = q
  <2>1. Len(c) = Len(q)
    BY <1>1, <1>2, <1>3, <1>4
  <2> QED BY <1>4, <1>5, <2>1, SeqEqual
<1> QED BY <1>6 DEF a, b, c

LEMMA JoinThree ==
  ASSUME NEW a \in Seq(Words), NEW b \in Seq(Words), NEW c \in Seq(Words)
  PROVE  (a \o b) \o c = a \o (b \o c)
OBVIOUS

LEMMA JoinMore ==
  ASSUME NEW a \in Seq(Words), NEW b \in Seq(Words), b # <<>>
  PROVE  a \o b \in Seq(Words) /\ a \o b # <<>>
OBVIOUS

LEMMA TxDataTold ==
  ASSUME Inv, Told, NEW s \in Streams, TxData(s)
  PROVE  Told'
<1>1. PICK k \in 1..Len(toTx[s]) :
        /\ toTx' = [toTx EXCEPT ![s] = Drop(@, k)]
        /\ IF cur # s \/ tx[s].row = "active" THEN UNCHANGED <<tx, gate, sent, faults, badDisk>>
           ELSE Serve(s, [tx[s] EXCEPT !.req = @ \o SubSeq(toTx[s], 1, k), !.fresh = TRUE])
  BY DEF TxData
<1>2. tx[s].lib = "open" /\ UNCHANGED <<share, file, rx, fed, cut, edited>>
  BY DEF TxData
<1>3. tx[s] \in Snd /\ SendInv(s) /\ StreamInv(s) /\ GateInv /\ toTx \in [Streams -> Seq(Words)]
      /\ toTx[s] \in Seq(Words) /\ tx[s].req \in Seq(Words)
  BY At DEF Inv, Types, Snd
<1>4. rx[s].who \in {"app", "browser"}
  BY <1>2, Served
<1>5. /\ Tells(s, tx[s], sent[s], toTx[s]) /\ cur = s
      /\ sent[s] \in Seq(Int) /\ sent[s] \o <<>> = sent[s] /\ <<>> \in Seq(Int)
  BY <1>2, <1>4, Telling
<1> DEFINE came == SubSeq(toTx[s], 1, k)
           left == Drop(toTx[s], k)
<1>6. \A W : toTx[s] \in Seq(W) => came \in Seq(W) /\ left \in Seq(W)
  BY <1>1, <1>3 DEF Drop
<1>7. came # <<>> /\ Len(came) = k /\ k \in Nat /\ k > 0 /\ toTx[s] # <<>>
  BY <1>1, <1>3
<1>8. came \o left = toTx[s]
  BY <1>1, <1>3, PartsJoin
<1>9. (\A q \in Streams \ {s} : toTx'[q] = toTx[q]) /\ toTx'[s] = left
  BY <1>1, <1>3
<1>10. rx[s].who = "app" => came \in AppSays /\ tx[s].req \in AppSays
  BY <1>3, <1>6 DEF StreamInv, AppSays
<1> HIDE DEF came, left
<1>11. rx[s].lib \notin {"none", "dialing"}
  BY <1>5, <1>7 DEF Tells
<1>12. CASE tx[s].row = "active"
  <2>1. UNCHANGED <<tx, busy, cur, sent, badDisk>>
    BY <1>1, <1>12 DEF gate
  <2>2. GoesOn(s, tx[s]) /\ sent' = [sent EXCEPT ![s] = sent[s] \o <<>>]
    BY <2>1, Silent DEF GoesOn, SetTx, gate, Inv, Types
  <2>3. tx[s].path /\ tx[s].watch
    BY <1>3, <1>5, <1>12, StreamsNat DEF SendInv, GateInv
  <2>4. rx[s].who = "browser" => WebTells(s, tx[s], sent[s], left)
    BY <1>5, <2>3 DEF Tells, WebTells, Asked
  <2>5. Tells(s, tx[s], sent[s], left)
    BY <1>5, <1>11, <2>4 DEF Tells
  <2> QED BY <1>2, <1>5, <1>9, <2>1, <2>2, <2>3, <2>5, GoesOnTold
<1>13. CASE tx[s].row # "active"
  <2> DEFINE req == tx[s].req \o came
             t   == [tx[s] EXCEPT !.req = req, !.fresh = TRUE]
  <2>1. Serve(s, t)
    BY <1>1, <1>5, <1>13 DEF came
  <2>2. came \in Seq(Words) /\ left \in Seq(Words)
    BY <1>3, <1>6
  <2>3. req \in Seq(Words) /\ req # <<>>
    BY <1>3, <1>7, <2>2, JoinMore
  <2>4. rx[s].who = "app" => req \in AppSays
    BY <1>10, ConcatProperties DEF AppSays
  <2>5. req \o left = tx[s].req \o toTx[s]
    <3>1. (tx[s].req \o came) \o left = tx[s].req \o (came \o left)
      BY <1>3, <2>2, JoinThree
    <3> QED BY <1>8, <3>1
  <2> HIDE DEF req
  <2>6. t \in Snd /\ t.lib = tx[s].lib /\ t.row = tx[s].row /\ t.path = tx[s].path /\ t.watch = tx[s].watch
        /\ t.req = req /\ t.raw = tx[s].raw /\ t.off = tx[s].off
    BY <1>3, <2>3 DEF Snd
  <2> HIDE DEF t
  <2>7. tx[s].watch /\ ~tx[s].path /\ ~tx[s].raw /\ tx[s].off = 0 /\ sent[s] = <<>>
    BY <1>2, <1>3, <1>5, <1>13, StreamsNat DEF SendInv, GateInv, Tells
  <2>8. tx[s].row \notin {"active", "done", "error"}
    BY <1>2, <1>5, <1>13 DEF Tells
  <2>9. tx[s].row = ""
    BY <1>3, <2>8 DEF Snd
  <2>10. Asking(s, t)
    BY <1>2, <1>5, <1>13, <2>3, <2>4, <2>6, <2>7 DEF Asking
  <2>11. rx[s].who = "browser" => \E q \in Requests : req \o left = q /\ q[1] = rx[s].asks
    BY <1>2, <1>5, <1>7, <2>5, <2>7 DEF Tells, WebTells, Asked
  <2>12. badDisk \subseteq badDisk'
    BY <2>1, ServeApart DEF Apart
  <2>13. Facing(s, t, left)
    BY <1>2, <1>4, <1>9, <1>11, <2>2, <2>6, <2>7, <2>9, <2>10, <2>11, <2>12 DEF Facing
  <2> QED BY <2>1, <2>13, ServeTold
<1> QED BY <1>12, <1>13

-----------------------------------------------------------------------------
LEMMA InitTold == Init => Told
<1> SUFFICES ASSUME Init, NEW s \in Streams PROVE Said(s) /\ Heard(s)
  BY DEF Init, Told
<1>1. /\ tx[s] = NoTx /\ rx[s] = NoRx /\ toTx[s] = <<>>
      /\ sent[s] = <<>> /\ fed[s] = 0
  BY DEF Init, Each
<1>2. Said(s)
  <2>1. NoTx.lib = "none"
    BY DEF NoTx
  <2> QED BY <1>1, <2>1, NewTells DEF Said
<1>3. Heard(s)
  <2>1. NoRx.who = "none" /\ NoRx.state \notin {"body", "done"} /\ NoRx.buf = <<>> /\ NoRx.row # "done"
    BY DEF NoRx
  <2>2. Handed(s) = <<>>
    BY <1>1 DEF Handed
  <2> QED BY <1>1, <2>1, <2>2 DEF Heard, Hears, Saved
<1> QED BY <1>2, <1>3

LEMMA NextTold == Inv /\ Told /\ [Next]_vars => Told'
<1> SUFFICES ASSUME Inv, Told, [Next]_vars PROVE Told'
  OBVIOUS
<1>1. CASE Edit
  BY <1>1, EditTold
<1>2. CASE \E s \in Streams : Receiver(s)
  BY <1>2, DialTold, OverTold, OpenedTold, ReadTold, RecvWatchdogTold DEF Receiver
<1>3. CASE \E s \in Streams : Sender(s)
  BY <1>3, AcceptTold, TxDataTold, PumpTold, TxClosedTold, SendWatchdogTold DEF Sender
<1>4. CASE \E s \in Streams : Break(s)
  BY <1>4, BreakTold
<1>5. CASE UNCHANGED vars
  <2>1. UNCHANGED <<share, file, cur, tx, rx, toTx, sent, fed, cut, edited, badDisk>>
    BY <1>5 DEF vars, gate, down, history
  <2>2. ASSUME NEW q \in Streams PROVE Said(q)' /\ Heard(q)'
    <3>1. Same4(q) /\ (tx[q].lib = "open" => cur' = q)
      BY <2>1 DEF Same4, Told, Said
    <3> QED BY <2>1, <3>1, Others
  <2> QED BY <2>1, <2>2 DEF Told
<1> QED BY <1>1, <1>2, <1>3, <1>4, <1>5 DEF Next

(* What is saved is what the header promised, unlocked with the key it was  *)
(* sealed with, and, unless the file was edited, what was shared, however   *)
(* the stream was cut into reads; the sender's row is done only when the    *)
(* whole file was written or a read of it failed, and then what was written *)
(* is a start of it; a locked file never goes to a browser                  *)
(* (qsOnionRecvData, qsOnionRecvFinish, qsOnionSendPump, qsOnionServeHttp). *)
THEOREM DeliveredCorrect == Spec => []Delivered
<1> QED BY InitInv, NextInv, InitTold, NextTold, ToldDelivered, PTL DEF Spec

-----------------------------------------------------------------------------
(* A stream no receiver fails on: its header is sound, it carries no more   *)
(* than that promises, and what is no frame in it is the terminator, after  *)
(* all that was promised. Under a key it is one the key unlocks.            *)
LengthAfter(w, p) == w[p + 1] * Radix + w[p + 2]

Steady(w, key) ==
  /\ w \in Cells /\ HeaderSound(w, key) /\ Len(Payload(w)) <= w[3]
  /\ key /\ Len(Payload(w)) = w[3] => Unlockable(Payload(w))
  /\ \A p, b : Carries(w, p, b) /\ p + 2 <= Len(w) /\ LengthAfter(w, p) \notin 1..Chunk
                 => LengthAfter(w, p) = 0 /\ Len(b) = w[3]

LEMMA CutAt ==
  ASSUME NEW w \in Cells, Len(w) >= 3, NEW p, NEW b, Carries(w, p, b)
  PROVE  /\ Payload(Cut(w, p)) = b /\ p \in 3..Len(w) /\ Len(Cut(w, p)) = p
         /\ \A i \in 1..p : Cut(w, p)[i] = w[i]
<1> DEFINE v == Cut(w, p)
<1>1. p \in 3..Len(w) /\ b \in Cells /\ Len(w) \in Nat
  <2>1. p \in 3..Len(w) /\ b \in Cells
    BY CarriesIn
  <2> QED BY <2>1 DEF Cells
<1>2. v \in Cells /\ Len(v) = p /\ \A i \in 1..p : v[i] = w[i]
  BY <1>1, CutIs
<1> HIDE DEF v
<1>3. Carries(v, p, b)
  BY <1>1, <1>2, CarriesAlike
<1>4. NoFrame(v, p)
  <2> SUFFICES ASSUME NEW n \in 1..Chunk, Frame(v, p, n) PROVE FALSE
    BY DEF NoFrame
  <2>1. n \in Nat \ {0} /\ p + 2 + n <= p
    BY <1>2, Constants DEF Frame
  <2> QED BY <1>1, <2>1
<1> QED BY <1>1, <1>2, <1>3, <1>4, PayloadCarries DEF v

(* Where no frame begins the payload ends.                                  *)
LEMMA PayloadEnds ==
  ASSUME NEW w \in Cells, Len(w) >= 3, NEW p, NEW b, Carries(w, p, b), LengthAfter(w, p) \notin 1..Chunk
  PROVE  Payload(w) = b
<1>1. NoFrame(w, p)
  BY DEF NoFrame, Frame, LengthAfter
<1> QED BY <1>1, PayloadCarries

LEMMA SoundSteady ==
  ASSUME NEW w \in Cells, NEW key, Sound(w, key), key => Unlockable(Payload(w))
  PROVE  Steady(w, key)
<1>1. HeaderSound(w, key) /\ Len(w) >= 3 /\ Len(w) \in Nat
  BY Constants DEF Sound, HeaderSound, Cells
<1>2. Len(Payload(w)) = w[3]
  BY Constants DEF Sound, Whole, Promised
<1>3. w[3] \in Nat
  BY <1>1 DEF Cells
<1>4. ASSUME NEW p, NEW b, Carries(w, p, b), p + 2 <= Len(w), LengthAfter(w, p) \notin 1..Chunk
      PROVE  LengthAfter(w, p) = 0 /\ Len(b) = w[3]
  <2>1. Payload(w) = b
    BY <1>1, <1>4, PayloadEnds
  <2>2. Payload(Cut(w, p)) = b /\ p \in 3..Len(w) /\ Len(Cut(w, p)) = p /\ Cut(w, p)[3] = w[3]
    <3>1. Payload(Cut(w, p)) = b /\ p \in 3..Len(w) /\ Len(Cut(w, p)) = p /\ \A i \in 1..p : Cut(w, p)[i] = w[i]
      BY <1>1, <1>4, CutAt
    <3>2. 3 \in 1..p
      BY <3>1
    <3> QED BY <3>1, <3>2
  <2>3. Whole(Cut(w, p))
    BY <1>2, <2>1, <2>2, Constants DEF Whole, Promised
  <2>4. p \notin 0..(Len(w) - 3)
    BY <2>3, Constants DEF Sound, Cut
  <2>5. p = Len(w) - 2
    BY <1>1, <1>4, <2>2, <2>4
  <2>6. SubSeq(w, Len(w) - 1, Len(w)) = Terminator
    BY <2>3, <2>5, Constants DEF Sound, Cut
  <2>7. w[p + 1] = Terminator[1] /\ w[p + 2] = Terminator[2]
    <3> DEFINE y == SubSeq(w, Len(w) - 1, Len(w))
    <3>1. \A i \in 1..2 : y[i] = w[p + i]
      <4>1. p \in Nat /\ p + 2 <= Len(w) /\ 2 \in Nat /\ Len(w) - 1 = p + 1 /\ Len(w) = p + 2
        BY <1>1, <2>2, <2>5
      <4> QED BY <4>1, SubIs
    <3> HIDE DEF y
    <3> QED BY <2>6, <3>1 DEF y
  <2>8. Terminator[1] * Radix + Terminator[2] = 0
    BY LengthIs, Constants DEF Terminator
  <2> QED BY <1>2, <2>1, <2>7, <2>8 DEF LengthAfter
<1> QED BY <1>1, <1>2, <1>3, <1>4 DEF Steady

LEMMA LockedIs ==
  ASSUME Inv, share.locked
  PROVE  Unlockable(share.content)
<1>1. share \in Shares
  BY DEF Inv, Types
<1> QED BY <1>1, TransferAssumption DEF Unlockable

LEMMA SendingSteady ==
  ASSUME Inv, NEW W, NEW o, Sending(W, o)
  PROVE  Steady(W, share.locked)
<1>1. /\ W \in Cells /\ Len(W) >= 3 /\ Len(W) \in Nat /\ W[3] = Total /\ HeaderSound(W, share.locked)
      /\ o \in 0..Total /\ Carries(W, Len(W), SubSeq(share.content, 1, o))
  BY Constants DEF Sending, HeaderSound, Cells
<1>2. Payload(W) = SubSeq(share.content, 1, o) /\ Len(Payload(W)) = o /\ Total \in Nat
  BY <1>1, SendingReads, PartOf, ContentIs
<1>0. share.locked /\ o = Total => Unlockable(Payload(W))
  BY <1>2, ContentIs, LockedIs
<1>3. ASSUME NEW p, NEW b, Carries(W, p, b), p + 2 <= Len(W), LengthAfter(W, p) \notin 1..Chunk
      PROVE  FALSE
  <2>1. Payload(W) = b
    BY <1>1, <1>3, PayloadEnds
  <2>2. Payload(Cut(W, p)) = b /\ p \in 3..Len(W)
    BY <1>1, <1>3, CutAt
  <2>3. p \in 3..(Len(W) - 1)
    BY <1>1, <1>3, <2>2
  <2>4. Len(Payload(Cut(W, p))) < Len(SubSeq(share.content, 1, o))
    BY <1>1, <2>3, CarriesLess DEF Less
  <2> QED BY <1>1, <1>2, <2>1, <2>2, <2>4
<1> QED BY <1>0, <1>1, <1>2, <1>3 DEF Steady

-----------------------------------------------------------------------------
(* On a steady stream, with a disk that works, a read does not fail.        *)
Begins(w, H) == H \in Cells /\ Len(H) <= Len(w) /\ \A i \in 1..Len(H) : H[i] = w[i]
Fine(r) == r.row # "error" /\ (r.state = "done" => r.got = r.total)

LEMMA ParseHeaderFine ==
  ASSUME NEW r \in Rcv, AtHeader(r), NEW H, Hears(r, H), NEW w, Steady(w, r.key), Begins(w, H)
  PROVE  Fine(ParseHeader(r, "none"))
<1> DEFINE y == ParseHeader(r, "none")
           z == [r EXCEPT !.enc = r.buf[2], !.total = r.buf[3], !.named = TRUE, !.tmp = <<>>,
                          !.buf = Drop(@, HeaderCells), !.state = "body", !.row = "active"]
<1>1. r.buf = H /\ Len(H) \in Nat /\ w \in Cells
  BY DEF Hears, AtHeader, Begins, Steady, Cells
<1>2. w[1] = Magic /\ w[2] = Flag(r.key) /\ Flag(r.key) \in {0, 1} /\ w[3] <= MaxTotal
  BY Constants DEF Steady, HeaderSound, Promised, Flag
<1>3. z.state = "body" /\ z.row = "active" /\ r.state = "header" /\ r.row = "connecting"
  BY DEF Rcv, AtHeader
<1>4. CASE Len(H) < 2
  <2>1. y = r
    BY <1>1, <1>4, Constants DEF ParseHeader
  <2> QED BY <1>3, <2>1 DEF Fine
<1>5. CASE ~(Len(H) < 2)
  <2>1. H[1] = w[1] /\ H[2] = w[2]
    BY <1>1, <1>5 DEF Begins
  <2>2. ~(Len(H) < 3) => H[3] = w[3]
    BY <1>1 DEF Begins
  <2>3. y = IF Len(H) < 3 THEN r ELSE z
    BY <1>1, <1>2, <1>5, <2>1, <2>2, Constants DEF ParseHeader
  <2> HIDE DEF y, z
  <2> QED BY <1>3, <2>3 DEF Fine, y
<1> QED BY <1>4, <1>5

(* Where the receiver is in its stream.                                     *)
LEMMA AtIs ==
  ASSUME NEW r, Mid(r, "none"), r.state \in {"body", "done"}, NEW H, Hears(r, H), NEW w, Steady(w, r.key), Begins(w, H)
  PROVE  /\ Writing(r) /\ Len(r.tmp) = r.got /\ r.total = w[3] /\ r.got \in Nat /\ r.total \in Nat
         /\ Len(H) \in Nat /\ Len(H) >= 3 /\ Len(w) >= 3 /\ Len(w) \in Nat
         /\ \E p \in 3..Len(H) : /\ Carries(H, p, r.tmp) /\ Carries(w, p, r.tmp)
                                 /\ r.state = "body" => r.buf = Drop(H, p)
<1>1. Writing(r) /\ r \in Rcv
  BY DEF Mid, AtHeader, Aborted
<1>2. HeaderSound(H, r.key) /\ r.total = H[3]
  BY DEF Hears, Got
<1>3. Len(H) \in Nat /\ Len(H) >= 3 /\ H \in Cells /\ w \in Cells /\ Len(w) \in Nat /\ Len(H) <= Len(w)
  BY <1>2, Constants DEF HeaderSound, Cells, Begins, Steady
<1>4. H[3] = w[3]
  BY <1>3 DEF Begins
<1>5. PICK p \in Nat : Carries(H, p, r.tmp) /\ (r.state = "body" => r.buf = Drop(H, p))
  BY DEF Hears, Got
<1>6. p \in 3..Len(H)
  BY <1>3, <1>5, CarriesIn
<1>7. Carries(w, p, r.tmp)
  <2>1. p <= Len(w) /\ \A i \in 1..p : w[i] = H[i]
    BY <1>3, <1>6 DEF Begins
  <2> QED BY <1>3, <1>5, <2>1, CarriesAlike
<1>8. r.got \in Nat /\ r.total \in Nat /\ Len(r.tmp) = r.got
  BY <1>1 DEF Rcv, Writing
<1> QED BY <1>1, <1>2, <1>3, <1>4, <1>5, <1>6, <1>7, <1>8

LEMMA FrameStepFine ==
  ASSUME NEW r, Mid(r, "none"), Fine(r), NEW H, Hears(r, H), NEW w, Steady(w, r.key), Begins(w, H)
  PROVE  Fine(FrameStep(r, "none"))
<1> DEFINE n == r.buf[1] * Radix + r.buf[2]
           y == FrameStep(r, "none")
           d == [r EXCEPT !.buf = Drop(@, LengthCells), !.state = "done"]
           z == [r EXCEPT !.tmp = @ \o SubSeq(r.buf, LengthCells + 1, LengthCells + n),
                          !.got = @ + n, !.buf = Drop(@, LengthCells + n)]
<1>1. CASE r.state # "body" \/ Len(r.buf) < LengthCells
  <2>1. y = r
    BY <1>1 DEF FrameStep
  <2> QED BY <2>1
<1>2. CASE r.state = "body" /\ ~(Len(r.buf) < LengthCells)
  <2>0. r \in Rcv
    BY DEF Mid
  <2>1. /\ Writing(r) /\ Len(r.tmp) = r.got /\ r.total = w[3]
        /\ Len(H) \in Nat /\ Len(H) >= 3 /\ Len(w) \in Nat
        /\ \E p \in 3..Len(H) : Carries(H, p, r.tmp) /\ Carries(w, p, r.tmp) /\ (r.state = "body" => r.buf = Drop(H, p))
    BY <1>2, AtIs
  <2>2. PICK p \in 3..Len(H) : Carries(w, p, r.tmp) /\ r.buf = Drop(H, p)
    BY <1>2, <2>1
  <2>3. Len(r.buf) = Len(H) - p /\ r.buf[1] = H[p + 1] /\ r.buf[2] = H[p + 2] /\ p + 2 <= Len(H)
    <3>1. H \in Cells /\ p \in 0..Len(H) /\ p \in Nat
      BY <2>1 DEF Begins
    <3>2. Len(r.buf) = Len(H) - p /\ \A i \in 1..(Len(H) - p) : r.buf[i] = H[p + i]
      BY <2>2, <3>1, DropIs
    <3>3. 1 \in 1..(Len(H) - p) /\ 2 \in 1..(Len(H) - p)
      BY <1>2, <2>1, <3>1, <3>2, Constants
    <3> QED BY <2>1, <3>1, <3>2, <3>3
  <2>4. H[p + 1] = w[p + 1] /\ H[p + 2] = w[p + 2] /\ p + 2 <= Len(w)
    BY <2>1, <2>3 DEF Begins
  <2>5. n = LengthAfter(w, p) /\ n \in Nat
    <3>1. n = LengthAfter(w, p)
      BY <2>3, <2>4 DEF LengthAfter
    <3>2. w[p + 1] \in Nat /\ w[p + 2] \in Nat
      <4>1. w \in Cells
        BY DEF Steady
      <4> QED BY <2>1, <2>4, <4>1 DEF Cells
    <3>3. \A a, b \in Nat : a * Radix + b \in Nat
      BY Constants
    <3> QED BY <3>1, <3>2, <3>3 DEF LengthAfter
  <2> HIDE DEF n
  <2>6. n \notin 1..Chunk => n = 0 /\ r.got = r.total
    BY <2>1, <2>2, <2>4, <2>5 DEF Steady
  <2>7. ~(n > Chunk)
    BY <2>5, <2>6, Constants
  <2>8. (n = 0 /\ y = d) \/ y = r \/ y = z
    BY <1>2, <2>7 DEF FrameStep, n
  <2>9. n = 0 => r.got = r.total
    BY <2>6, Constants
  <2>10. /\ d.row = r.row /\ d.got = r.got /\ d.total = r.total
         /\ z.row = r.row /\ z.state = r.state
    BY <2>0 DEF Rcv
  <2> HIDE DEF y, d, z
  <2> QED BY <1>2, <2>8, <2>9, <2>10 DEF Fine, y
<1> QED BY <1>1, <1>2

LEMMA DrainedFine ==
  ASSUME NEW r, Mid(r, "none"), Fine(r), NEW H, Hears(r, H), NEW w, Steady(w, r.key), Begins(w, H)
  PROVE  Fine(Drained(r, "none"))
<1> DEFINE N == Len(r.buf)
<1>1. PICK h : Rounds(h, r, "none") /\ Drained(r, "none") = h[N]
  BY DrainedIs
<1>2. N \in Nat
  <2>1. r.buf \in Cells
    BY DEF Mid, Rcv
  <2> QED BY <2>1 DEF Cells
<1> DEFINE Ok(k) == Hears(h[k], H) /\ Fine(h[k]) /\ h[k].key = r.key
           G == {k \in 0..N : Ok(k)}
<1>3. h[0] = r /\ \A k \in 1..N : h[k] = FrameStep(h[k - 1], "none")
  BY <1>1 DEF Rounds
<1>4. \A k \in 0..N : Mid(h[k], "none")
  BY <1>1 DEF Rounds
<1> HIDE DEF N
<1>5. 0 \in G
  BY <1>2, <1>3
<1>6. ASSUME NEW k \in 1..N, k - 1 \in G PROVE k \in G
  <2>1. k - 1 \in 0..N /\ k \in 0..N
    BY <1>2
  <2> DEFINE x == h[k - 1]
  <2>2. Mid(x, "none") /\ Hears(x, H) /\ Fine(x) /\ x.key = r.key /\ h[k] = FrameStep(x, "none")
    BY <1>3, <1>4, <1>6, <2>1
  <2> HIDE DEF x
  <2>3. H \in Cells
    BY DEF Begins
  <2>4. Hears(h[k], H) /\ Fine(h[k]) /\ h[k].key = r.key
    BY <2>2, <2>3, FrameStepHears, FrameStepFine, FrameStepIs DEF Same
  <2> QED BY <2>1, <2>4
<1>7. G = 0..N
  <2>1. G \in SUBSET (0..N)
    OBVIOUS
  <2> HIDE DEF G
  <2> QED BY <1>2, <1>5, <1>6, <2>1, Upto
<1>8. N \in 0..N
  BY <1>2
<1> QED BY <1>1, <1>7, <1>8 DEF N

LEMMA RecvFinishFine ==
  ASSUME NEW r, Mid(r, "none"), Fine(r), Complete(r), NEW H, Hears(r, H), NEW w, Steady(w, r.key), Begins(w, H)
  PROVE  RecvFinish(r, "none").row # "error"
<1>0. r \in Rcv /\ r.state \in {"body", "done"} /\ Writing(r)
  BY DEF Mid, Complete, AtHeader, Aborted
<1>1. /\ Len(r.tmp) = r.got /\ r.total = w[3] /\ r.got \in Nat /\ r.total \in Nat /\ Len(w) >= 3
      /\ \E p \in 3..Len(H) : Carries(w, p, r.tmp)
  BY <1>0, AtIs
<1>2. PICK p \in 3..Len(H) : Carries(w, p, r.tmp)
  BY <1>1
<1>3. w \in Cells /\ Len(Payload(w)) <= w[3] /\ Payload(w) \in Cells /\ Len(Payload(w)) \in Nat
      /\ Len(r.tmp) <= Len(Payload(w)) /\ SubSeq(Payload(w), 1, Len(r.tmp)) = r.tmp
  <2>1. w \in Cells /\ Len(Payload(w)) <= w[3]
    BY DEF Steady
  <2>2. Payload(w) \in Cells /\ Len(r.tmp) <= Len(Payload(w)) /\ SubSeq(Payload(w), 1, Len(r.tmp)) = r.tmp
    BY <1>1, <1>2, <2>1, PayloadCarries
  <2> QED BY <2>1, <2>2 DEF Cells
<1>4. r.got = r.total
  BY <1>1, <1>3 DEF Complete, Fine
<1>5. Len(Payload(w)) = w[3] /\ r.tmp = Payload(w)
  <2>1. Len(r.tmp) = Len(Payload(w))
    BY <1>1, <1>3, <1>4
  <2>2. \A q \in Cells : SubSeq(q, 1, Len(q)) = q
    BY DEF Cells
  <2> QED BY <1>1, <1>3, <1>4, <2>1, <2>2
<1>6. r.enc # 0 => Unlockable(r.tmp)
  <2>1. r.enc = Flag(r.key)
    BY <1>0 DEF Hears, Got
  <2> QED BY <1>5, <2>1 DEF Steady, Flag
<1> QED BY <1>0, <1>4, <1>6, FinishIs

LEMMA RecvDataFine ==
  ASSUME NEW r, Rest(r), r.row # "error", NEW H \in Cells, Hears(r, H), NEW data \in Cells,
         NEW w, Steady(w, r.key), Begins(w, H \o data)
  PROVE  RecvData(r, data, "none").row # "error"
<1>1. CASE r.state = ""
  BY <1>1 DEF RecvData
<1>2. CASE r.state # ""
  <2> DEFINE r1 == Taken(r, data)
             r2 == Parsed(r1, "none")
             r3 == Drained(r2, "none")
             y  == RecvData(r, data, "none")
             V  == H \o data
  <2>1. r.state \notin {"", "done"} /\ r \in Rcv
    BY <1>2 DEF Rest, AtHeader
  <2>2. y = IF Complete(r3) THEN RecvFinish(r3, "none") ELSE r3
    BY <2>1, RecvDataStages
  <2>3. /\ Mid(r1, "none") /\ r1.state \in {"header", "body"} /\ Hears(r1, V) /\ r1.key = r.key /\ Fine(r1)
    <3>1. Mid(r1, "none") /\ r1.state \in {"header", "body"} /\ r1.key = r.key
      BY <1>2, TakenIs DEF Same
    <3>2. r.state \in {"header", "body"}
      BY <1>2 DEF Rest, AtHeader, Writing
    <3>3. r1.row = r.row
      BY <2>1 DEF Taken, Rcv
    <3> QED BY <3>1, <3>2, <3>3, TakenHears DEF Fine
  <2>4. V \in Cells /\ Begins(w, V)
    BY DEF Begins
  <2> HIDE DEF r1, V
  <2>5. Mid(r2, "none") /\ Hears(r2, V) /\ r2.key = r.key /\ Fine(r2)
    <3>1. CASE r1.state = "header"
      <4>1. r1 \in Rcv /\ AtHeader(r1) /\ r2 = ParseHeader(r1, "none")
        BY <2>3, <3>1 DEF Mid, Writing, Aborted, Parsed
      <4> QED BY <2>3, <2>4, <4>1, ParseHeaderIs, ParseHeaderHears, ParseHeaderFine DEF Same
    <3>2. CASE r1.state # "header"
      BY <2>3, <3>2 DEF Parsed
    <3> QED BY <3>1, <3>2
  <2> HIDE DEF r2
  <2>6. Mid(r3, "none") /\ Hears(r3, V) /\ r3.key = r.key /\ Fine(r3)
    BY <2>4, <2>5, DrainedMid, DrainedHears, DrainedFine DEF Same
  <2> HIDE DEF r3, y
  <2> QED BY <2>2, <2>4, <2>6, RecvFinishFine DEF Fine, y
<1> QED BY <1>1, <1>2

-----------------------------------------------------------------------------
(* Between two reads no whole frame is kept, and a download that failed is   *)
(* closed.                                                                  *)
Closed(r) == r.row = "error" => r.lib = "gone"
NoneWhole(r) == \A n \in 1..Chunk : ~(2 + n <= Len(r.buf) /\ r.buf[1] * Radix + r.buf[2] = n)
Idle(r) == r.state = "body" => r.got < r.total /\ NoneWhole(r)

LEMMA ParseHeaderCloses ==
  ASSUME NEW bad, NEW r \in Rcv, AtHeader(r)
  PROVE  Closed(ParseHeader(r, bad))
<1> DEFINE z == [r EXCEPT !.enc = r.buf[2], !.total = r.buf[3], !.named = TRUE, !.tmp = <<>>,
                          !.buf = Drop(@, HeaderCells), !.state = "body", !.row = "active"]
<1>1. ParseHeader(r, bad) = r \/ ParseHeader(r, bad) = RecvAbort(r, bad) \/ ParseHeader(r, bad) = z
  BY DEF ParseHeader
<1>2. z.row = "active" /\ r.row = "connecting"
  BY DEF Rcv, AtHeader
<1>3. RecvAbort(r, bad).lib = "gone"
  BY AbortIs DEF AtHeader
<1> HIDE DEF z
<1> QED BY <1>1, <1>2, <1>3 DEF Closed

LEMMA FrameStepCloses ==
  ASSUME NEW bad, NEW r, Mid(r, bad), Closed(r)
  PROVE  /\ Closed(FrameStep(r, bad))
         /\ Len(r.buf) = 0 => FrameStep(r, bad) = r
         /\ FrameStep(r, bad) = r /\ r.state = "body" => NoneWhole(r)
<1> DEFINE n == r.buf[1] * Radix + r.buf[2]
           y == FrameStep(r, bad)
           d == [r EXCEPT !.buf = Drop(@, LengthCells), !.state = "done"]
           z == [r EXCEPT !.tmp = @ \o SubSeq(r.buf, LengthCells + 1, LengthCells + n),
                          !.got = @ + n, !.buf = Drop(@, LengthCells + n)]
<1>0. r \in Rcv
  BY DEF Mid
<1>1. CASE r.state # "body" \/ Len(r.buf) < LengthCells
  <2>1. y = r
    BY <1>1 DEF FrameStep
  <2>2. r.state = "body" => NoneWhole(r)
    <3>1. r.buf \in Cells
      BY <1>0 DEF Rcv
    <3>2. Len(r.buf) \in Nat
      BY <3>1 DEF Cells
    <3> QED BY <1>1, <3>2, Constants DEF NoneWhole
  <2> QED BY <2>1, <2>2
<1>2. CASE r.state = "body" /\ ~(Len(r.buf) < LengthCells)
  <2>1. r.named /\ RecvAbort(r, bad).lib = "gone" /\ RecvAbort(r, bad).state = ""
    BY <1>0, <1>2, AbortIs DEF Mid, AtHeader, Writing, Aborted
  <2>2. /\ y = d \/ y = RecvAbort(r, bad) \/ y = r \/ y = z
        /\ n \in 1..Chunk /\ 2 + n <= Len(r.buf) => y = z \/ y = RecvAbort(r, bad)
    <3>1. n \in 1..Chunk /\ 2 + n <= Len(r.buf) => ~(n = 0) /\ ~(n > Chunk) /\ ~(Len(r.buf) < LengthCells + n)
      <4>1. r.buf \in Cells
        BY <1>0 DEF Rcv
      <4>2. Len(r.buf) \in Nat
        BY <4>1 DEF Cells
      <4> HIDE DEF n
      <4> QED BY <4>2, Constants
    <3> HIDE DEF z, d
    <3> QED BY <1>2, <3>1 DEF FrameStep, z, d
  <2>3. d.row = r.row /\ d.lib = r.lib /\ z.row = r.row /\ z.lib = r.lib
    BY <1>0 DEF Rcv
  <2>4. n \in 1..Chunk /\ 2 + n <= Len(r.buf) => z # r
    <3> SUFFICES ASSUME n \in 1..Chunk, 2 + n <= Len(r.buf), z = r PROVE FALSE
      OBVIOUS
    <3>1. r.buf \in Cells
      BY <1>0 DEF Rcv
    <3>2. z.buf = Drop(r.buf, 2 + n)
      BY <1>0, Constants DEF Rcv
    <3> HIDE DEF z, n
    <3>3. Len(r.buf) \in Nat /\ 2 + n \in 0..Len(r.buf) /\ n \in Nat \ {0}
      BY <3>1, Constants DEF Cells
    <3>4. Len(z.buf) = Len(r.buf) - (2 + n)
      BY <3>1, <3>2, <3>3, DropIs
    <3> QED BY <3>3, <3>4
  <2> HIDE DEF y, d, z
  <2>5. Closed(y)
    BY <2>1, <2>2, <2>3 DEF Closed
  <2>6. y = r => NoneWhole(r)
    BY <1>2, <2>1, <2>2, <2>4 DEF NoneWhole
  <2>7. Len(r.buf) # 0
    BY <1>2, Constants
  <2> QED BY <2>5, <2>6, <2>7 DEF y
<1> QED BY <1>1, <1>2

LEMMA DrainedCloses ==
  ASSUME NEW bad, NEW r, Mid(r, bad), Closed(r)
  PROVE  /\ Closed(Drained(r, bad))
         /\ Drained(r, bad).state = "body" => NoneWhole(Drained(r, bad))
<1> DEFINE N == Len(r.buf)
<1>1. PICK h : Rounds(h, r, bad) /\ Drained(r, bad) = h[N]
  BY DrainedIs
<1>2. N \in Nat
  <2>1. r.buf \in Cells
    BY DEF Mid, Rcv
  <2> QED BY <2>1 DEF Cells
<1>3. \A k \in 0..N : Mid(h[k], bad) /\ Len(h[k].buf) \in Nat
  <2>1. \A k \in 0..N : h[k] \in Rcv /\ Mid(h[k], bad)
    BY <1>1 DEF Rounds
  <2>2. \A k \in 0..N : h[k].buf \in Cells
    BY <2>1 DEF Rcv
  <2> QED BY <2>1, <2>2 DEF Cells
<1> DEFINE Settled(x) == FrameStep(x, bad) = x
           Ok(k) == Closed(h[k]) /\ (Settled(h[k]) \/ Len(h[k].buf) <= N - k)
           G == {k \in 0..N : Ok(k)}
<1>4. h[0] = r /\ \A k \in 1..N : h[k] = FrameStep(h[k - 1], bad)
  BY <1>1 DEF Rounds
<1>5. Ok(0)
  BY <1>2, <1>4
<1>6. ASSUME NEW k \in 1..N, Ok(k - 1) PROVE Ok(k)
  <2>1. h[k] = FrameStep(h[k - 1], bad)
    BY <1>4
  <2>2. k - 1 \in 0..N /\ k \in 0..N
    BY <1>2
  <2> HIDE DEF N
  <2>3. Mid(h[k - 1], bad) /\ Len(h[k - 1].buf) \in Nat /\ Len(h[k].buf) \in Nat
    BY <1>3, <2>2
  <2>4. /\ Len(h[k].buf) < Len(h[k - 1].buf) \/ h[k] = h[k - 1]
    BY <2>1, <2>3, FrameStepIs
  <2>5. Closed(h[k])
    BY <1>6, <2>1, <2>3, FrameStepCloses
  <2>6. CASE h[k] = h[k - 1]
    BY <2>1, <2>5, <2>6
  <2>7. CASE Len(h[k].buf) < Len(h[k - 1].buf)
    <3>1. CASE Settled(h[k - 1])
      BY <2>1, <2>5, <3>1
    <3>2. CASE Len(h[k - 1].buf) <= N - (k - 1)
      <4>1. Len(h[k].buf) <= N - k
        BY <1>2, <2>3, <2>7, <3>2
      <4> QED BY <2>5, <4>1
    <3> QED BY <1>6, <3>1, <3>2
  <2> QED BY <2>4, <2>6, <2>7
<1> HIDE DEF Ok
<1>7. Ok(N)
  <2>1. 0 \in G /\ \A k \in 1..N : k - 1 \in G => k \in G
    BY <1>2, <1>5, <1>6
  <2>2. G \in SUBSET (0..N)
    OBVIOUS
  <2> HIDE DEF G, N
  <2>3. G = 0..N
    BY <1>2, <2>1, <2>2, Upto
  <2>4. N \in G
    BY <1>2, <2>3
  <2> QED BY <2>4 DEF G
<1>8. Mid(h[N], bad) /\ Closed(h[N]) /\ FrameStep(h[N], bad) = h[N]
  <2>1. Mid(h[N], bad) /\ Len(h[N].buf) \in Nat
    BY <1>2, <1>3
  <2>2. Len(h[N].buf) <= N - N => Len(h[N].buf) = 0
    BY <1>2, <2>1
  <2> QED BY <1>7, <2>1, <2>2, FrameStepCloses DEF Ok
<1> QED BY <1>1, <1>8, FrameStepCloses

LEMMA RecvDataCalm ==
  ASSUME NEW bad, NEW r, Rest(r), Idle(r), Closed(r), NEW data \in Cells
  PROVE  Idle(RecvData(r, data, bad)) /\ Closed(RecvData(r, data, bad))
<1>1. CASE r.state = ""
  BY <1>1 DEF RecvData
<1>2. CASE r.state # ""
  <2> DEFINE r1 == Taken(r, data)
             r2 == Parsed(r1, bad)
             r3 == Drained(r2, bad)
             y  == RecvData(r, data, bad)
  <2>1. r.state \notin {"", "done"} /\ r.row # "error" /\ r \in Rcv
    BY <1>2 DEF Rest, AtHeader, Writing
  <2>2. y = IF Complete(r3) THEN RecvFinish(r3, bad) ELSE r3
    BY <2>1, RecvDataStages
  <2>3. Mid(r1, bad) /\ Closed(r1)
    <3>1. r1.row = r.row
      BY <2>1 DEF Taken, Rcv
    <3> QED BY <1>2, <2>1, <3>1, TakenIs DEF Closed
  <2> HIDE DEF r1
  <2>4. Mid(r2, bad) /\ Closed(r2)
    <3>1. CASE r1.state = "header"
      <4>1. r1 \in Rcv /\ AtHeader(r1) /\ r2 = ParseHeader(r1, bad)
        BY <2>3, <3>1 DEF Mid, Writing, Aborted, Parsed
      <4> QED BY <4>1, ParseHeaderIs, ParseHeaderCloses
    <3>2. CASE r1.state # "header"
      BY <2>3, <3>2 DEF Parsed
    <3> QED BY <3>1, <3>2
  <2> HIDE DEF r2
  <2>5. Mid(r3, bad) /\ Closed(r3) /\ (r3.state = "body" => NoneWhole(r3))
    BY <2>4, DrainedMid, DrainedCloses
  <2> HIDE DEF r3, y
  <2>6. CASE Complete(r3)
    <3>1. r3 \in Rcv /\ Writing(r3)
      BY <2>5, <2>6 DEF Mid, Complete, AtHeader, Aborted
    <3>2. RecvFinish(r3, bad).state = ""
      BY <3>1, RecvFinishIs
    <3>3. RecvFinish(r3, bad).lib = "gone"
      BY <3>1, FinishIs
    <3> QED BY <2>2, <2>6, <3>2, <3>3 DEF Idle, Closed, y
  <2>7. CASE ~Complete(r3)
    <3>1. r3.state = "body" => r3.got < r3.total
      <4>1. r3.got \in Nat /\ r3.total \in Nat
        BY <2>5 DEF Mid, Rcv
      <4> QED BY <2>7, <4>1 DEF Complete
    <3> QED BY <2>2, <2>5, <2>7, <3>1 DEF Idle, y
  <2> QED BY <2>6, <2>7
<1> QED BY <1>1, <1>2

(* A download in progress has not had all it was promised.                  *)
LEMMA RestNotWhole ==
  ASSUME NEW r, Rest(r), Idle(r), r.state \in {"header", "body"}, NEW H \in Cells, Hears(r, H)
  PROVE  ~Whole(H)
<1>1. r \in Rcv /\ Len(H) \in Nat
  <2>1. r \in Rcv
    BY DEF Rest
  <2>2. Len(H) \in Nat
    BY DEF Cells
  <2> QED BY <2>1, <2>2
<1>2. CASE r.state = "header"
  <2>1. r.buf = H /\ Len(r.buf) < 3
    BY <1>2, Constants DEF Rest, Writing, Hears
  <2> QED BY <1>1, <2>1, Constants DEF Whole
<1>3. CASE r.state = "body"
  <2>1. /\ HeaderSound(H, r.key) /\ r.total = H[3] /\ r.got < r.total /\ NoneWhole(r)
        /\ r.tmp \in Cells /\ Len(r.tmp) = r.got
    BY <1>3 DEF Hears, Got, Idle, Rest, Writing, AtHeader
  <2>2. PICK p \in Nat : Carries(H, p, r.tmp) /\ r.buf = Drop(H, p)
    BY <1>3 DEF Hears, Got
  <2>3. Len(H) >= 3
    BY <2>1, Constants DEF HeaderSound
  <2>4. p \in 3..Len(H)
    BY <2>2, <2>3, CarriesIn
  <2>5. NoFrame(H, p)
    <3> SUFFICES ASSUME NEW n \in 1..Chunk, Frame(H, p, n) PROVE FALSE
      BY DEF NoFrame
    <3>1. p + 2 + n <= Len(H) /\ H[p + 1] * Radix + H[p + 2] = n /\ n \in Nat
      BY Constants DEF Frame
    <3>2. Len(r.buf) = Len(H) - p /\ \A i \in 1..(Len(H) - p) : r.buf[i] = H[p + i]
      <4>1. p \in 0..Len(H)
        BY <2>4
      <4> QED BY <2>2, <4>1, DropIs
    <3>3. 1 \in 1..(Len(H) - p) /\ 2 \in 1..(Len(H) - p) /\ 2 + n <= Len(r.buf)
      BY <1>1, <2>4, <3>1, <3>2
    <3>4. r.buf[1] = H[p + 1] /\ r.buf[2] = H[p + 2]
      BY <3>2, <3>3
    <3> QED BY <2>1, <3>1, <3>3, <3>4 DEF NoneWhole
  <2>6. Payload(H) = r.tmp
    BY <2>2, <2>3, <2>5, PayloadCarries
  <2>7. r.got # r.total
    <3>1. r.got \in Nat /\ r.total \in Nat
      BY <1>1 DEF Rcv
    <3> QED BY <2>1, <3>1
  <2> QED BY <2>1, <2>6, <2>7, Constants DEF Whole, Promised
<1> QED BY <1>2, <1>3

-----------------------------------------------------------------------------
(* Why a download failed, and why the sender of one closed its stream. What  *)
(* an app asks is never turned away.                                         *)
Excused(s) ==
  \/ rx[s].who = "stranger" /\ ~Sound(sent[s], rx[s].key)
  \/ rx[s].who = "stranger" /\ rx[s].key /\ ~Unlockable(Payload(sent[s]))
  \/ rx[s].who = "app" /\ edited
  \/ s \in badDisk
  \/ (Broken(s) \/ s \in refused \cup timedOut) /\ ~Whole(Handed(s))

Listens(s) ==
  /\ rx[s].who = "app" => rx[s].key = share.locked
  /\ Idle(rx[s]) /\ Closed(rx[s])
  /\ rx[s].who = "browser" => rx[s].row # "error"
  /\ rx[s].row = "error" => Excused(s)

Wants(t, m) == (t.req = <<>> /\ m = <<>>) \/ t.req \o m = RequestMagic
Stays(t, m) == t.lib # "gone" /\ ~t.path => Wants(t, m)
Speaks(s) ==
  /\ Stays(tx[s], toTx[s])
  /\ tx[s].lib = "gone" /\ ~edited =>
       SentAll(sent[s]) \/ Unheard(s) \/ s \in badDisk \cup refused \cup timedOut

Reasoned == \A s \in Streams : Listens(s) /\ (rx[s].who = "app" => Speaks(s))

(* What has happened stays so.                                              *)
Grows == /\ badDisk \subseteq badDisk' /\ refused \subseteq refused' /\ timedOut \subseteq timedOut'
         /\ (edited => edited') /\ UNCHANGED share

LEMMA SentAllSame == UNCHANGED share => \A V : SentAll(V)' <=> SentAll(V)
BY ShapesSame

LEMMA ExcusedKept ==
  ASSUME NEW s, Excused(s), Grows, rx'[s].who = rx[s].who, rx'[s].key = rx[s].key,
         rx[s].who = "stranger" => sent'[s] = sent[s],
         Broken(s) => Broken(s)', Handed(s)' = Handed(s)
  PROVE  Excused(s)'
BY DEF Excused, Grows

LEMMA ListensKept ==
  ASSUME Reasoned, NEW s \in Streams, Grows, rx'[s] = rx[s], rx[s].who = "stranger" => sent'[s] = sent[s],
         Broken(s) => Broken(s)', rx[s].who # "browser" => Handed(s)' = Handed(s)
  PROVE  Listens(s)'
<1>1. Listens(s) /\ UNCHANGED share
  BY DEF Reasoned, Grows
<1>2. rx[s].row = "error" => Excused(s)'
  BY <1>1, ExcusedKept DEF Listens
<1> QED BY <1>1, <1>2 DEF Listens

LEMMA SpeaksKept ==
  ASSUME Reasoned, NEW s \in Streams, rx[s].who = "app", Grows, tx'[s] = tx[s], sent'[s] = sent[s],
         Stays(tx[s], toTx'[s]), Unheard(s) => Unheard(s)'
  PROVE  Speaks(s)'
<1>1. Speaks(s) /\ \A V : SentAll(V)' <=> SentAll(V)
  BY SentAllSame DEF Reasoned, Grows
<1>2. Stays(tx[s], toTx[s])'
  BY DEF Stays, Wants
<1> QED BY <1>1, <1>2 DEF Speaks, Grows

LEMMA OthersReasoned ==
  ASSUME Reasoned, NEW q \in Streams, Same4(q), Grows
  PROVE  Listens(q)' /\ (rx'[q].who = "app" => Speaks(q)')
<1>1. /\ rx'[q] = rx[q] /\ tx'[q] = tx[q] /\ toTx'[q] = toTx[q] /\ sent'[q] = sent[q]
      /\ (Broken(q)' <=> Broken(q)) /\ (Unheard(q)' <=> Unheard(q)) /\ Handed(q)' = Handed(q)
  BY DEF Same4, Broken, Unheard, Handed
<1>2. Listens(q)'
  BY <1>1, ListensKept
<1>3. rx[q].who = "app" => Stays(tx[q], toTx'[q])
  BY <1>1 DEF Reasoned, Speaks
<1> QED BY <1>1, <1>2, <1>3, SpeaksKept

(* A step of the receiver of s.                                             *)
LEMMA HearerReasoned ==
  ASSUME Reasoned, NEW s \in Streams, Grows, UNCHANGED <<tx, sent>>,
         rx'[s].who = rx[s].who, rx[s].lib = "gone" => rx'[s].lib = "gone", Broken(s) => Broken(s)',
         \A q \in Streams \ {s} : rx'[q] = rx[q] /\ fed'[q] = fed[q] /\ cut'[q] = cut[q] /\ toTx'[q] = toTx[q],
         rx[s].who = "app" => Stays(tx[s], toTx'[s]),
         Listens(s)'
  PROVE  Reasoned'
<1>1. ASSUME NEW q \in Streams \ {s} PROVE Listens(q)' /\ (rx'[q].who = "app" => Speaks(q)')
  <2>1. Same4(q)
    BY DEF Same4
  <2> QED BY <2>1, OthersReasoned
<1>2. rx'[s].who = "app" => Speaks(s)'
  <2>1. Unheard(s) => Unheard(s)'
    BY DEF Unheard
  <2> QED BY <2>1, SpeaksKept
<1> QED BY <1>1, <1>2 DEF Reasoned

(* A step of the sender of s.                                               *)
Kept(s, t) ==
  /\ Stays(t, toTx'[s])
  /\ t.lib = "gone" /\ ~edited =>
       SentAll(sent'[s]) \/ Unheard(s) \/ s \in badDisk' \cup refused' \cup timedOut'

LEMMA TellerReasoned ==
  ASSUME Reasoned, NEW s \in Streams, Grows, UNCHANGED <<rx, fed, cut, edited>>, rx[s].who \in {"app", "browser"},
         \A q \in Streams \ {s} : tx'[q] = tx[q] /\ sent'[q] = sent[q] /\ toTx'[q] = toTx[q],
         rx[s].who = "app" => Handed(s)' = Handed(s) /\ Kept(s, tx'[s])
  PROVE  Reasoned'
<1>1. ASSUME NEW q \in Streams \ {s} PROVE Listens(q)' /\ (rx'[q].who = "app" => Speaks(q)')
  <2>1. Same4(q)
    BY DEF Same4
  <2> QED BY <2>1, OthersReasoned
<1>2. (Broken(s)' <=> Broken(s)) /\ (Unheard(s)' <=> Unheard(s))
  BY DEF Broken, Unheard
<1>3. Listens(s)'
  BY <1>2, ListensKept
<1>4. rx'[s].who = "app" => Speaks(s)'
  <2> SUFFICES ASSUME rx[s].who = "app" PROVE Speaks(s)'
    OBVIOUS
  <2>1. \A V : SentAll(V)' <=> SentAll(V)
    BY SentAllSame DEF Grows
  <2>2. Kept(s, tx'[s])
    OBVIOUS
  <2>3. Stays(tx[s], toTx[s])'
    BY <2>2 DEF Kept, Stays, Wants
  <2> QED BY <1>2, <2>1, <2>2, <2>3 DEF Kept, Speaks
<1> QED BY <1>1, <1>3, <1>4 DEF Reasoned

-----------------------------------------------------------------------------
(* The receiver's steps.                                                    *)
LEMMA WholeHanded ==
  ASSUME Inv, NEW s \in Streams, fed[s] = Arriving(s), ~Broken(s)
  PROVE  Handed(s) = sent[s]
<1>1. sent[s] \in Seq(Int) /\ fed[s] = Len(sent[s])
  BY At DEF Arriving, Broken
<1> QED BY <1>1 DEF Handed

LEMMA NotWhole ==
  ASSUME Inv, Told, Reasoned, NEW s \in Streams, rx[s].state \in {"header", "body"}
  PROVE  ~Whole(Handed(s)) /\ rx[s].who \in {"app", "stranger"}
<1>1. Rest(rx[s]) /\ Idle(rx[s]) /\ Hears(rx[s], Handed(s)) /\ rx[s].who \in {"app", "stranger"}
  BY At DEF Reasoned, Listens, Told, Heard, RecvInv
<1>2. Handed(s) \in Cells
  BY <1>1, HandedIs
<1> QED BY <1>1, <1>2, RestNotWhole

LEMMA InProgress ==
  ASSUME NEW r, Rest(r), r.state # ""
  PROVE  r.state \in {"header", "body"} /\ (r.named \/ r.tmp = NoFile)
BY DEF Rest, AtHeader, Writing

LEMMA OverReasoned ==
  ASSUME Inv, Told, Reasoned, NEW s \in Streams, DialFails(s) \/ RxClosed(s) \/ BrowserLeaves(s)
  PROVE  Reasoned'
<1>0. /\ refused \subseteq refused' /\ (DialFails(s) => s \in refused')
      /\ UNCHANGED <<share, file, busy, cur, tx, toTx, sent, fed, cut, timedOut, edited>>
      /\ \E bad \in {"none", "delete"} : Disk(s, bad) /\ rx' = [rx EXCEPT ![s] = Over(rx[s], bad)]
  BY OverSteps
<1>1. PICK bad \in {"none", "delete"} : Disk(s, bad) /\ rx' = [rx EXCEPT ![s] = Over(rx[s], bad)]
  BY <1>0
<1> DEFINE y == Over(rx[s], bad)
<1>2. Rest(rx[s]) /\ Hears(rx[s], Handed(s)) /\ Listens(s) /\ RecvInv(s)
  BY At DEF Told, Heard, Reasoned
<1>3. /\ y.lib = "gone" /\ y.who = rx[s].who /\ y.state = ""
      /\ y.key = rx[s].key /\ (rx[s].state = "" => y.row = rx[s].row)
  <2>1. /\ Rest(y) /\ y.who = rx[s].who /\ y.state = ""
        /\ rx[s].state = "" => y.tmp = rx[s].tmp /\ y.row = rx[s].row
        /\ rx[s].state # "" => y.row = "error" /\ (y.tmp # NoFile => bad # "none")
    BY <1>2, OverIs
  <2>2. y.lib = "gone" /\ y.key = rx[s].key
    BY <1>2, OverHears
  <2> HIDE DEF y
  <2> QED BY <2>1, <2>2
<1>4. rx'[s] = y /\ \A q \in Streams \ {s} : rx'[q] = rx[q]
  BY <1>1 DEF Inv, Types
<1>5. Handed(s)' = Handed(s) /\ (Broken(s)' <=> Broken(s)) /\ Grows
  BY <1>0, <1>1, DiskIs DEF Handed, Broken, Grows
<1> HIDE DEF y
<1>6. rx[s].state # "" => Excused(s)'
  <2> SUFFICES ASSUME rx[s].state # "" PROVE Excused(s)'
    OBVIOUS
  <2>1. rx[s].state \in {"header", "body"}
    BY <1>2, InProgress
  <2>2. ~Whole(Handed(s)) /\ rx[s].who \in {"app", "stranger"}
    BY <2>1, NotWhole
  <2>3. ~Whole(Handed(s)')
    BY <1>5, <2>2
  <2>4. CASE DialFails(s)
    BY <1>0, <1>1, <1>5, <2>2, <2>4 DEF Excused
  <2>5. CASE Broken(s) \/ s \in refused \cup timedOut
    BY <1>5, <2>2, <2>5 DEF Excused, Grows
  <2>6. CASE s \in badDisk
    BY <1>5, <2>6 DEF Excused, Grows
  <2>7. CASE RxClosed(s) /\ ~Broken(s) /\ s \notin refused \cup timedOut /\ s \notin badDisk
    <3>1. fed[s] = Arriving(s) /\ rx[s].lib = "open" /\ (tx[s].lib = "gone" \/ rx[s].who = "stranger")
      BY <2>7 DEF RxClosed
    <3>2. ~Whole(sent[s])
      BY <2>2, <2>7, <3>1, WholeHanded
    <3>3. CASE rx[s].who = "stranger"
      <4>1. ~Sound(sent[s], rx[s].key)
        BY <3>2 DEF Sound
      <4> QED BY <1>0, <1>1, <1>3, <1>4, <3>3, <4>1 DEF Excused
    <3>4. CASE rx[s].who = "app"
      <4>1. ~edited => SentAll(sent[s])
        BY <2>7, <3>1, <3>4 DEF Reasoned, Speaks, Unheard
      <4>2. SentAll(sent[s]) => Whole(sent[s])
        BY SentAllReads DEF Sound
      <4> QED BY <1>0, <1>1, <1>3, <1>4, <3>2, <3>4, <4>1, <4>2 DEF Excused
    <3> QED BY <2>2, <3>3, <3>4
  <2>8. ~BrowserLeaves(s)
    BY <2>2 DEF BrowserLeaves
  <2> QED BY <2>4, <2>5, <2>6, <2>7, <2>8
<1>7. rx[s].state = "" /\ rx[s].row = "error" => Excused(s)'
  BY <1>0, <1>1, <1>2, <1>3, <1>4, <1>5, ExcusedKept DEF Listens
<1>8. Listens(s)'
  <2>1. Idle(y) /\ Closed(y)
    BY <1>3 DEF Idle, Closed
  <2>2. rx[s].who = "browser" => rx[s].state = ""
    BY <1>2 DEF RecvInv
  <2> QED BY <1>0, <1>1, <1>2, <1>3, <1>4, <1>6, <1>7, <2>1, <2>2 DEF Listens
<1>9. rx[s].who = "app" => Stays(tx[s], toTx'[s])
  BY <1>0, <1>1 DEF Reasoned, Speaks
<1> QED BY <1>0, <1>1, <1>3, <1>4, <1>5, <1>8, <1>9, HearerReasoned

LEMMA RecvWatchdogReasoned ==
  ASSUME Inv, Told, Reasoned, NEW s \in Streams, RecvWatchdog(s)
  PROVE  Reasoned'
<1>0. /\ UNCHANGED <<share, file, busy, cur, tx, toTx, sent, fed, cut, refused, edited>>
      /\ timedOut' = IF rx[s].state # "" /\ ~rx[s].fresh THEN timedOut \cup {s} ELSE timedOut
      /\ \E r, bad : Watched(s, r, bad) /\ Disk(s, bad) /\ rx' = [rx EXCEPT ![s] = r]
  BY WatchSteps
<1>1. PICK r, bad : Watched(s, r, bad) /\ Disk(s, bad) /\ rx' = [rx EXCEPT ![s] = r]
  BY <1>0
<1> DEFINE live == rx[s].state # ""
           idle == live /\ ~rx[s].fresh
           r1   == [rx[s] EXCEPT !.fresh = FALSE, !.watch = live /\ ~idle]
<1>9. r = IF idle THEN RecvAbort(r1, bad) ELSE r1
  BY <1>1 DEF Watched
<1>2. rx[s] \in Rcv /\ Rest(rx[s]) /\ Listens(s)
  BY At DEF Reasoned
<1>3. /\ r1 \in Rcv /\ r1.who = rx[s].who /\ r1.lib = rx[s].lib /\ r1.named = rx[s].named /\ r1.tmp = rx[s].tmp
      /\ r1.row = rx[s].row /\ r1.key = rx[s].key /\ r1.state = rx[s].state
      /\ r1.buf = rx[s].buf /\ r1.got = rx[s].got /\ r1.total = rx[s].total
  BY <1>2 DEF Rcv
<1> HIDE DEF r1
<1>4. rx'[s] = r /\ \A q \in Streams \ {s} : rx'[q] = rx[q]
  BY <1>1 DEF Inv, Types
<1>5. Handed(s)' = Handed(s) /\ (Broken(s)' <=> Broken(s)) /\ Grows
  BY <1>0, <1>1, DiskIs DEF Handed, Broken, Grows
<1>6. /\ r.who = rx[s].who /\ r.key = rx[s].key /\ (rx[s].lib = "gone" => r.lib = "gone")
      /\ Idle(r) /\ Closed(r) /\ (r.row = "error" => Excused(s)') /\ (r.row = "error" => rx[s].who # "browser")
  <2>1. CASE idle
    <3>1. rx[s].state \in {"header", "body"} /\ (r1.named \/ r1.tmp = NoFile)
      BY <1>2, <1>3, <2>1, InProgress
    <3>2. Aborted(r, bad) /\ Same(r, r1) /\ r.lib = "gone"
      BY <1>3, <1>9, <2>1, <3>1, AbortIs
    <3>3. ~Whole(Handed(s)) /\ rx[s].who \in {"app", "stranger"}
      BY <3>1, NotWhole
    <3>4. Excused(s)'
      BY <1>0, <1>5, <2>1, <3>3 DEF Excused
    <3> QED BY <1>3, <3>2, <3>3, <3>4 DEF Aborted, Same, Idle, Closed
  <2>2. CASE ~idle
    <3>1. r = r1
      BY <1>9, <2>2
    <3>2. Idle(r) /\ Closed(r)
      BY <1>2, <1>3, <3>1 DEF Listens, Idle, Closed, NoneWhole
    <3>3. r.row = "error" => Excused(s)'
      BY <1>0, <1>2, <1>3, <1>4, <1>5, <3>1, ExcusedKept DEF Listens
    <3> QED BY <1>2, <1>3, <3>1, <3>2, <3>3 DEF Listens
  <2> QED BY <2>1, <2>2
<1>7. Listens(s)'
  BY <1>0, <1>2, <1>4, <1>6 DEF Listens
<1>8. rx[s].who = "app" => Stays(tx[s], toTx'[s])
  BY <1>0 DEF Reasoned, Speaks
<1> QED BY <1>0, <1>4, <1>5, <1>6, <1>7, <1>8, HearerReasoned

(* What the sender of this share says is read to the end.                   *)
LEMMA AppSteady ==
  ASSUME Inv, Told, Reasoned, NEW s \in Streams, rx[s].who = "app", ~edited, s \notin badDisk, sent[s] # <<>>
  PROVE  Steady(sent[s], rx[s].key)
<1>1. AppShape(s, sent[s]) /\ rx[s].key = share.locked
  BY DEF Told, Said, Tells, AppTells, Reasoned, Listens
<1>2. CASE \E o \in Nat : Sending(sent[s], o)
  BY <1>1, <1>2, SendingSteady
<1>3. CASE AppDone(s, sent[s])
  <2>1. SentAll(sent[s])
    BY <1>3 DEF AppDone, Enough, SentAll
  <2> QED BY <1>1, <2>1, SentAllReads, SoundSteady, LockedIs
<1> QED BY <1>1, <1>2, <1>3 DEF AppShape

LEMMA ReadReasoned ==
  ASSUME Inv, Told, Reasoned, NEW s \in Streams, RxData(s)
  PROVE  Reasoned'
<1>1. PICK k \in 1..(Arriving(s) - fed[s]), bad \in {"none"} \cup DiskCalls : RecvStream(s, k, bad)
  BY DEF RxData
<1> DEFINE data == SubSeq(sent[s], fed[s] + 1, fed[s] + k)
           r    == RecvData(rx[s], data, bad)
<1>2. /\ rx' = [rx EXCEPT ![s] = r] /\ fed' = [fed EXCEPT ![s] = @ + k]
      /\ badDisk \subseteq badDisk' /\ (bad # "none" => s \in badDisk')
      /\ UNCHANGED <<share, tx, toTx, sent, cut, refused, timedOut, edited>>
      /\ rx[s].lib = "open" /\ rx[s].who # "browser"
  BY <1>1, DiskIs DEF RecvStream, RxData, SetRx, gate
<1>3. /\ fed[s] \in 0..Len(sent[s]) /\ Len(sent[s]) \in Nat /\ Arriving(s) \in Int /\ Arriving(s) <= Len(sent[s])
      /\ sent[s] \in Cells /\ Handed(s) \in Cells
  BY <1>2, HandedIs
<1>4. k \in 0..(Len(sent[s]) - fed[s]) /\ k \in 1..Len(sent[s])
  BY <1>1, <1>3
<1>5. data \in Cells
  BY <1>3, <1>4, PrefixMore
<1>6. fed'[s] = fed[s] + k /\ rx'[s] = r /\ \A q \in Streams \ {s} : rx'[q] = rx[q] /\ fed'[q] = fed[q]
  BY <1>2 DEF Inv, Types
<1>7. SubSeq(sent[s], 1, fed[s] + k) = Handed(s) \o data
  BY <1>3, <1>4, PrefixMore DEF Handed
<1>8. /\ Rest(rx[s]) /\ Listens(s) /\ Hears(rx[s], Handed(s)) /\ rx[s].row # "error"
      /\ rx[s].who \in {"app", "stranger"} /\ rx[s] \in Rcv
  <2>1. rx[s].who # "none"
    BY <1>2, Dialed
  <2>2. Rest(rx[s]) /\ Listens(s) /\ Hears(rx[s], Handed(s)) /\ rx[s] \in Rcv
    BY At DEF Reasoned, Told, Heard
  <2> QED BY <1>2, <2>1, <2>2 DEF Listens, Closed, Rcv
<1> HIDE DEF data
<1>9. Begins(sent[s], Handed(s) \o data)
  <2> DEFINE H == Handed(s) \o data
  <2>1. H \in Cells /\ Len(H) = fed[s] + k /\ \A i \in 1..(fed[s] + k) : H[i] = sent[s][i]
    <3>1. fed[s] + k \in 0..Len(sent[s])
      BY <1>3, <1>4
    <3>2. \A w \in Cells : \A n \in 0..Len(w) :
             SubSeq(w, 1, n) \in Cells /\ Len(SubSeq(w, 1, n)) = n /\ \A i \in 1..n : SubSeq(w, 1, n)[i] = w[i]
      BY DEF Cells
    <3> QED BY <1>3, <1>7, <3>1, <3>2
  <2> HIDE DEF H
  <2>2. Len(H) <= Len(sent[s])
    BY <1>3, <1>4, <2>1
  <2> QED BY <2>1, <2>2 DEF Begins, H
<1>10. /\ r.who = rx[s].who /\ r.key = rx[s].key /\ Idle(r) /\ Closed(r)
  BY <1>5, <1>8, RecvDataIs, RecvDataCalm DEF Listens, Same
<1>11. bad = "none" /\ Steady(sent[s], rx[s].key) => r.row # "error"
  BY <1>3, <1>5, <1>8, <1>9, RecvDataFine
<1> HIDE DEF r
<1>12. r.row = "error" => Excused(s)'
  <2> SUFFICES ASSUME r.row = "error" PROVE Excused(s)'
    OBVIOUS
  <2>1. CASE bad # "none"
    BY <1>2, <2>1 DEF Excused
  <2>2. CASE bad = "none" /\ rx[s].who = "stranger"
    <3>1. ~Sound(sent[s], rx[s].key) \/ (rx[s].key /\ ~Unlockable(Payload(sent[s])))
      BY <1>3, <1>11, <2>2, SoundSteady
    <3> QED BY <1>2, <1>6, <1>10, <2>2, <3>1 DEF Excused
  <2>3. CASE bad = "none" /\ rx[s].who = "app"
    <3>1. sent[s] # <<>>
      BY <1>4
    <3>2. edited \/ s \in badDisk
      BY <1>11, <2>3, <3>1, AppSteady
    <3> QED BY <1>2, <1>6, <1>10, <2>3, <3>2 DEF Excused
  <2> QED BY <1>8, <2>1, <2>2, <2>3
<1>13. Listens(s)'
  BY <1>2, <1>6, <1>8, <1>10, <1>12 DEF Listens
<1>14. (Broken(s)' <=> Broken(s)) /\ Grows
  BY <1>2 DEF Broken, Grows
<1>15. rx[s].who = "app" => Stays(tx[s], toTx'[s])
  BY <1>2 DEF Reasoned, Speaks
<1> QED BY <1>2, <1>6, <1>10, <1>13, <1>14, <1>15, HearerReasoned

LEMMA MagicAlone == <<>> \o RequestMagic = RequestMagic
<1>1. RequestMagic \in Seq(Words)
  BY Saying
<1>2. \A q \in Seq(Words) : <<>> \o q = q
  OBVIOUS
<1> QED BY <1>1, <1>2

LEMMA OpenedReasoned ==
  ASSUME Inv, Told, Reasoned, NEW s \in Streams, AppOpened(s) \/ BrowserOpened(s)
  PROVE  Reasoned'
<1>1. PICK request : RxOpened(s, request) /\ (rx[s].who = "app" => request = RequestMagic)
  BY DEF AppOpened, BrowserOpened
<1> DEFINE r == [rx[s] EXCEPT !.lib = "open", !.fresh = rx[s].state # "", !.asks = request[1]]
           m == IF tx[s].lib = "gone" THEN <<>> ELSE request
<1>2. /\ rx[s].lib = "dialing" /\ rx' = [rx EXCEPT ![s] = r] /\ toTx' = [toTx EXCEPT ![s] = m]
      /\ UNCHANGED <<share, tx, sent, fed, cut, refused, timedOut, badDisk, edited>>
  BY <1>1 DEF RxOpened, SetRx, gate, down, history
<1>3. rx[s] \in Rcv /\ Said(s) /\ Listens(s)
  BY At DEF Told, Reasoned
<1>4. /\ r.who = rx[s].who /\ r.key = rx[s].key /\ r.state = rx[s].state /\ r.row = rx[s].row
      /\ r.buf = rx[s].buf /\ r.got = rx[s].got /\ r.total = rx[s].total
  BY <1>3 DEF Rcv
<1> HIDE DEF r, m
<1>5. /\ rx'[s] = r /\ toTx'[s] = m
      /\ \A q \in Streams \ {s} : rx'[q] = rx[q] /\ toTx'[q] = toTx[q]
  BY <1>2 DEF Inv, Types
<1>6. Handed(s)' = Handed(s) /\ (Broken(s)' <=> Broken(s)) /\ Grows
  BY <1>2 DEF Handed, Broken, Grows
<1>7. rx[s].row # "error"
  BY <1>2, <1>3 DEF Listens, Closed
<1>8. Listens(s)'
  BY <1>2, <1>3, <1>4, <1>5, <1>7 DEF Listens, Idle, NoneWhole, Closed
<1>9. rx[s].who = "app" => Stays(tx[s], toTx'[s])
  <2> SUFFICES ASSUME rx[s].who = "app", tx[s].lib # "gone" PROVE Wants(tx[s], toTx'[s])
    BY DEF Stays
  <2>1. tx[s].req = <<>>
    BY <1>2, <1>3 DEF Said, Tells
  <2> QED BY <1>1, <1>5, <2>1, MagicAlone DEF m, Wants
<1> QED BY <1>2, <1>4, <1>5, <1>6, <1>8, <1>9, HearerReasoned

LEMMA DialReasoned ==
  ASSUME Inv, Told, Reasoned, NEW s \in Streams, DialApp(s) \/ DialBrowser(s) \/ DialStranger(s)
  PROVE  Reasoned'
<1>0. PICK who \in {"app", "browser", "stranger"} :
        \E key, wire : Dial(s, who, key, wire) /\ (who = "app" => key = share.locked)
  BY DEF DialApp, DialBrowser, DialStranger
<1>1. PICK key, wire : Dial(s, who, key, wire) /\ (who = "app" => key = share.locked)
  BY <1>0
<1> DEFINE r == [NoRx EXCEPT !.who = who, !.lib = "dialing", !.key = key,
                             !.state = IF who = "browser" THEN "" ELSE "header",
                             !.watch = who # "browser",
                             !.row = IF who = "browser" THEN "" ELSE "connecting"]
<1>2. /\ rx[s].who = "none" /\ rx' = [rx EXCEPT ![s] = r] /\ sent' = [sent EXCEPT ![s] = wire]
      /\ UNCHANGED <<share, tx, toTx, fed, cut, refused, timedOut, badDisk, edited>>
  BY <1>1 DEF Dial, SetRx, gate, history
<1>3. r.who = who /\ r.key = key /\ r.state # "body" /\ r.row # "error"
  BY DEF NoRx
<1> HIDE DEF r
<1>4. tx[s] = NoTx /\ toTx[s] = <<>>
  BY <1>2 DEF Inv, StreamInv, Untouched
<1>5. rx'[s] = r /\ \A q \in Streams \ {s} : rx'[q] = rx[q] /\ sent'[q] = sent[q]
  BY <1>2 DEF Inv, Types
<1>6. Grows
  BY <1>2 DEF Grows
<1>7. Listens(s)'
  BY <1>1, <1>2, <1>3, <1>5 DEF Listens, Idle, Closed
<1>8. Speaks(s)'
  <2>1. NoTx.lib = "none" /\ NoTx.req = <<>>
    BY DEF NoTx
  <2>2. tx'[s] = NoTx /\ toTx'[s] = <<>>
    BY <1>2, <1>4
  <2> QED BY <2>1, <2>2 DEF Speaks, Stays, Wants
<1>9. ASSUME NEW q \in Streams \ {s} PROVE Listens(q)' /\ (rx'[q].who = "app" => Speaks(q)')
  <2>1. Same4(q)
    BY <1>2, <1>5 DEF Same4
  <2> QED BY <1>6, <2>1, OthersReasoned
<1> QED BY <1>7, <1>8, <1>9 DEF Reasoned

LEMMA BreakReasoned ==
  ASSUME Inv, Reasoned, NEW s \in Streams, Break(s)
  PROVE  Reasoned'
<1>1. PICK k \in fed[s]..Len(sent[s]) : cut' = [cut EXCEPT ![s] = k]
  BY DEF Break
<1>2. UNCHANGED <<share, tx, rx, toTx, sent, fed, refused, timedOut, badDisk, edited>> /\ ~Broken(s)
  BY DEF Break, gate, history
<1>3. \A q \in Streams \ {s} : cut'[q] = cut[q]
  BY <1>1 DEF Inv, Types
<1>4. Handed(s)' = Handed(s) /\ Grows
  BY <1>2 DEF Handed, Grows
<1>5. Listens(s)'
  BY <1>2, <1>4, ListensKept
<1>6. rx[s].who = "app" => Stays(tx[s], toTx'[s])
  BY <1>2 DEF Reasoned, Speaks
<1> QED BY <1>2, <1>3, <1>4, <1>5, <1>6, HearerReasoned

LEMMA EditReasoned ==
  ASSUME Inv, Reasoned, Edit
  PROVE  Reasoned'
<1>1. edited' /\ UNCHANGED <<share, tx, rx, toTx, sent, fed, cut, refused, timedOut, badDisk>>
  BY DEF Edit, gate, down
<1>2. Grows
  BY <1>1 DEF Grows
<1> SUFFICES ASSUME NEW q \in Streams PROVE Listens(q)' /\ (rx'[q].who = "app" => Speaks(q)')
  BY DEF Reasoned
<1>3. Same4(q)
  BY <1>1 DEF Same4
<1> QED BY <1>2, <1>3, OthersReasoned

LEMMA InitReasoned == Init => Reasoned
<1> SUFFICES ASSUME Init, NEW s \in Streams PROVE Listens(s) /\ rx[s].who # "app"
  BY DEF Reasoned
<1>1. rx[s] = NoRx
  BY DEF Init, Each
<1>2. NoRx.who = "none" /\ NoRx.state # "body" /\ NoRx.row # "error"
  BY DEF NoRx
<1> QED BY <1>1, <1>2 DEF Listens, Idle, Closed

-----------------------------------------------------------------------------
(* The sender's steps.                                                      *)
LEMMA AcceptReasoned ==
  ASSUME Inv, Told, Reasoned, NEW s \in Streams, Accept(s)
  PROVE  Reasoned'
<1>1. /\ tx[s].lib = "none" /\ rx[s].who \in {"app", "browser"} /\ refused \subseteq refused'
      /\ UNCHANGED <<share, rx, fed, cut, sent, timedOut, badDisk, edited>>
  BY DEF Accept, down
<1>2. tx[s] \in Snd
  BY At
<1>3. Grows
  BY <1>1 DEF Grows
<1>4. Handed(s)' = Handed(s)
  BY <1>1 DEF Handed
<1>5. CASE busy
  <2> DEFINE t == [tx[s] EXCEPT !.lib = "gone"]
  <2>1. tx' = [tx EXCEPT ![s] = t] /\ toTx' = [toTx EXCEPT ![s] = <<>>] /\ refused' = refused \cup {s}
    BY <1>5 DEF Accept, SetTx
  <2>2. t.lib = "gone"
    BY <1>2 DEF Snd
  <2> HIDE DEF t
  <2>3. tx'[s] = t /\ \A q \in Streams \ {s} : tx'[q] = tx[q] /\ toTx'[q] = toTx[q]
    BY <2>1 DEF Inv, Types
  <2>4. Kept(s, tx'[s])
    BY <2>1, <2>2, <2>3 DEF Kept, Stays
  <2> QED BY <1>1, <1>3, <1>4, <2>3, <2>4, TellerReasoned
<1>6. CASE ~busy
  <2> DEFINE t == [tx[s] EXCEPT !.lib = "open", !.watch = TRUE]
  <2>1. tx' = [tx EXCEPT ![s] = t] /\ UNCHANGED toTx
    BY <1>6 DEF Accept, SetTx
  <2>2. t.lib = "open" /\ t.req = tx[s].req /\ t.path = tx[s].path
    BY <1>2 DEF Snd
  <2> HIDE DEF t
  <2>3. tx'[s] = t /\ \A q \in Streams \ {s} : tx'[q] = tx[q]
    BY <2>1 DEF Inv, Types
  <2>4. rx[s].who = "app" => Kept(s, tx'[s])
    BY <1>1, <2>1, <2>2, <2>3 DEF Kept, Stays, Wants, Reasoned, Speaks
  <2> QED BY <1>1, <1>3, <1>4, <2>1, <2>3, <2>4, TellerReasoned
<1> QED BY <1>5, <1>6

LEMMA TxClosedReasoned ==
  ASSUME Inv, Told, Reasoned, NEW s \in Streams, TxClosed(s)
  PROVE  Reasoned'
<1>1. /\ tx[s].lib = "open" /\ toTx' = [toTx EXCEPT ![s] = <<>>] /\ Unheard(s)
      /\ UNCHANGED <<share, rx, fed, cut, sent, refused, timedOut, badDisk, edited>>
  BY DEF TxClosed, Unheard, down, history
<1>2. tx[s] \in Snd /\ rx[s].who \in {"app", "browser"}
  BY <1>1, At, Served
<1>3. Grows /\ Handed(s)' = Handed(s)
  BY <1>1 DEF Grows, Handed
<1> DEFINE t == [tx[s] EXCEPT !.lib = "gone"]
<1>4. PICK x \in {ServeAbort(tx[s]), t} : Ends(s, x) \/ GoesOn(s, x)
  BY DEF TxClosed
<1>5. t.lib = "gone" /\ ServeAbort(tx[s]).lib = "gone"
  BY <1>2, ServeAbortIs DEF Snd
<1> HIDE DEF t
<1>6. tx'[s].lib = "gone" /\ \A q \in Streams \ {s} : tx'[q] = tx[q]
  BY <1>4, <1>5, Leaves
<1>7. \A q \in Streams \ {s} : toTx'[q] = toTx[q]
  BY <1>1 DEF Inv, Types
<1>8. Kept(s, tx'[s])
  BY <1>1, <1>6 DEF Kept, Stays
<1> QED BY <1>1, <1>2, <1>3, <1>6, <1>7, <1>8, TellerReasoned

LEMMA SendWatchdogReasoned ==
  ASSUME Inv, Told, Reasoned, NEW s \in Streams, SendWatchdog(s)
  PROVE  Reasoned'
<1> DEFINE idle == cur = s /\ ~tx[s].fresh
           t    == [tx[s] EXCEPT !.fresh = FALSE, !.watch = cur = s /\ ~idle]
<1>1. /\ tx[s].watch /\ IF idle THEN Ends(s, ServeAbort(t)) ELSE GoesOn(s, t)
      /\ UNCHANGED <<share, rx, fed, cut, sent, edited, toTx, refused, badDisk>>
      /\ timedOut' = IF idle THEN timedOut \cup {s} ELSE timedOut
  BY DEF SendWatchdog, down
<1>2. tx[s] \in Snd /\ rx[s].who \in {"app", "browser"}
  BY <1>1, At, Served
<1>3. Grows /\ Handed(s)' = Handed(s)
  BY <1>1 DEF Grows, Handed
<1>4. t \in Snd /\ t.lib = tx[s].lib /\ t.path = tx[s].path /\ t.req = tx[s].req
  BY <1>2 DEF Snd
<1> HIDE DEF t
<1>5. \A q \in Streams \ {s} : tx'[q] = tx[q]
  BY <1>1, Leaves
<1>6. CASE idle
  <2>1. tx'[s] = ServeAbort(t) /\ ServeAbort(t).lib = "gone"
    BY <1>1, <1>4, <1>6, Leaves, ServeAbortIs
  <2>2. Kept(s, tx'[s])
    BY <1>1, <1>6, <2>1 DEF Kept, Stays
  <2> QED BY <1>1, <1>2, <1>3, <1>5, <2>2, TellerReasoned
<1>7. CASE ~idle
  <2>1. tx'[s] = t
    BY <1>1, <1>7, Leaves
  <2>2. rx[s].who = "app" => Kept(s, tx'[s])
    BY <1>1, <1>4, <1>7, <2>1 DEF Kept, Stays, Wants, Reasoned, Speaks
  <2> QED BY <1>1, <1>2, <1>3, <1>5, <2>2, TellerReasoned
<1> QED BY <1>6, <1>7

(* What is written for the receiver is behind what it was handed.           *)
LEMMA HandedStays ==
  ASSUME Inv, NEW s \in Streams, NEW w \in Seq(Int), sent' = [sent EXCEPT ![s] = sent[s] \o w], UNCHANGED fed
  PROVE  Handed(s)' = Handed(s) /\ sent'[s] = sent[s] \o w /\ \A q \in Streams \ {s} : sent'[q] = sent[q]
<1>1. sent'[s] = sent[s] \o w /\ \A q \in Streams \ {s} : sent'[q] = sent[q]
  BY DEF Inv, Types
<1>2. fed[s] \in 0..Len(sent[s]) /\ sent[s] \in Seq(Int)
  BY HandedIs
<1> QED BY <1>1, <1>2, PrefixIs DEF Handed

LEMMA PumpReasoned ==
  ASSUME Inv, Told, Reasoned, NEW s \in Streams, Pump(s)
  PROVE  Reasoned'
<1> DEFINE t     == [tx[s] EXCEPT !.pump = FALSE]
           upto  == IF t.off + Chunk <= Len(file) THEN t.off + Chunk ELSE Len(file)
           slice == SubSeq(file, t.off + 1, upto)
           n     == Len(slice)
           frame == IF t.raw THEN slice ELSE FrameLength(n) \o slice
           last  == IF t.raw THEN <<>> ELSE Terminator
           d     == [t EXCEPT !.row = "done", !.lib = "gone"]
           t2    == [t EXCEPT !.off = @ + n, !.fresh = TRUE, !.pump = TRUE]
           c     == ServeCleanup(d)
<1>1. /\ t # tx[s] /\ UNCHANGED <<share, rx, toTx, fed, cut, refused, timedOut, edited>>
      /\ badDisk \subseteq badDisk'
      /\ \/ ~t.path /\ GoesOn(s, t) /\ UNCHANGED sent
         \/ t.path /\ Ends(s, c) /\ (Writes(s, last) \/ (Unheard(s) /\ UNCHANGED sent))
         \/ t.path /\ Unheard(s) /\ Ends(s, ServeAbort(t)) /\ UNCHANGED sent
         \/ t.path /\ Writes(s, frame) /\ GoesOn(s, t2)
  <2>1. WriteMayFail(s) => Unheard(s)
    BY DEF WriteMayFail, Unheard
  <2>2. /\ t # tx[s] /\ UNCHANGED <<share, file, rx, toTx, fed, cut, refused, timedOut, edited>>
        /\ Disk(s, "none") \/ Disk(s, "read")
        /\ \/ ~t.path /\ GoesOn(s, t) /\ UNCHANGED sent
           \/ /\ t.path /\ (n = 0 \/ Disk(s, "read")) /\ Ends(s, c)
              /\ Writes(s, last) \/ (WriteMayFail(s) /\ UNCHANGED sent)
           \/ t.path /\ WriteMayFail(s) /\ Ends(s, ServeAbort(t)) /\ UNCHANGED sent
           \/ t.path /\ n # 0 /\ Writes(s, frame) /\ GoesOn(s, t2)
    BY PumpSteps
  <2>3. badDisk \subseteq badDisk'
    BY <2>2, DiskIs
  <2> HIDE DEF t, n, frame, last, c, t2
  <2> QED BY <2>1, <2>2, <2>3
<1>2. tx[s] \in Snd /\ SendInv(s)
  BY At
<1>3. tx[s].pump
  BY <1>1, <1>2 DEF Snd
<1>4. rx[s].who \in {"app", "browser"}
  BY <1>3, Served
<1>5. t \in Snd /\ t.lib = tx[s].lib /\ t.path = tx[s].path /\ t.req = tx[s].req /\ t.off \in Nat
  BY <1>2 DEF Snd
<1> HIDE DEF t
<1>6. t.path => t.lib = "open" /\ file \in Cells
  BY <1>2, <1>5 DEF SendInv, Inv, Types, Files
<1>7. d \in Snd /\ d.lib = "gone" /\ d.row = "done"
  BY <1>5 DEF Snd
<1> HIDE DEF d
<1>8. c.lib = "gone" /\ c.row = "done"
  BY <1>7, CleanupIs
<1> HIDE DEF c
<1>9. t.path => frame \in Cells
  <2> SUFFICES ASSUME t.path PROVE frame \in Cells
    OBVIOUS
  <2>1. upto \in 0..Len(file) /\ file \in Cells
    <3>1. Len(file) \in Nat /\ file \in Cells
      BY <1>6 DEF Cells
    <3> QED BY <1>5, <3>1, Constants
  <2> HIDE DEF upto
  <2>2. slice \in Cells /\ n \in Nat
    BY <1>5, <2>1, SliceIs
  <2> HIDE DEF slice, n
  <2>3. FrameLength(n) \in Cells
    BY <2>2, Framing
  <2>4. FrameLength(n) \o slice \in Cells
    BY <2>2, <2>3, ConcatProperties DEF Cells
  <2> QED BY <2>2, <2>4
<1>10. t2.path = t.path /\ t2.lib = t.lib
  BY <1>5 DEF Snd
<1>11. last \in Cells /\ <<>> \in Cells /\ Cells \subseteq Seq(Int)
  BY Framing, Constants DEF Terminator
<1> HIDE DEF slice, n, upto, frame, last, t2
<1>12. Grows
  BY <1>1 DEF Grows
<1>13. /\ Handed(s)' = Handed(s)
       /\ \A q \in Streams \ {s} : tx'[q] = tx[q] /\ sent'[q] = sent[q] /\ toTx'[q] = toTx[q]
  <2>1. PICK w \in Seq(Int) : sent' = [sent EXCEPT ![s] = sent[s] \o w]
    BY <1>1, <1>9, <1>11, Silent DEF Writes
  <2>2. Handed(s)' = Handed(s) /\ \A q \in Streams \ {s} : sent'[q] = sent[q]
    BY <1>1, <2>1, HandedStays
  <2>3. \A q \in Streams \ {s} : tx'[q] = tx[q]
    BY <1>1, Leaves
  <2> QED BY <1>1, <2>2, <2>3
<1>14. rx[s].who = "app" => Kept(s, tx'[s])
  <2> SUFFICES ASSUME rx[s].who = "app" PROVE Kept(s, tx'[s])
    OBVIOUS
  <2>1. CASE ~t.path /\ GoesOn(s, t) /\ UNCHANGED sent
    <3>1. tx'[s] = t
      BY <2>1, Leaves
    <3> QED BY <1>1, <1>5, <2>1, <3>1 DEF Kept, Stays, Wants, Reasoned, Speaks
  <2>2. CASE t.path /\ Ends(s, c)
    <3>1. tx'[s] = c
      BY <2>2, Leaves
    <3>2. Told'
      BY PumpTold
    <3>3. Said(s)'
      BY <3>2 DEF Told
    <3>4. rx'[s].who = "app" /\ edited' = edited
      BY <1>1
    <3>5. ~edited => Unheard(s)' \/ AppDone(s, sent[s])'
      BY <1>8, <3>1, <3>3, <3>4 DEF Said, Tells, AppTells
    <3>6. AppDone(s, sent[s])' => SentAll(sent[s])' \/ s \in badDisk'
      BY DEF AppDone, Enough, SentAll
    <3>7. (Unheard(s)' <=> Unheard(s)) /\ (SentAll(sent[s])' <=> SentAll(sent'[s]))
      BY <1>1, SentAllSame DEF Unheard, Broken
    <3> QED BY <1>8, <3>1, <3>5, <3>6, <3>7 DEF Kept, Stays
  <2>3. CASE t.path /\ Unheard(s) /\ Ends(s, ServeAbort(t))
    <3>1. tx'[s] = ServeAbort(t) /\ ServeAbort(t).lib = "gone"
      BY <1>5, <2>3, Leaves, ServeAbortIs
    <3> QED BY <2>3, <3>1 DEF Kept, Stays
  <2>4. CASE t.path /\ GoesOn(s, t2)
    <3>1. tx'[s] = t2
      BY <2>4, Leaves
    <3> QED BY <1>6, <1>10, <2>4, <3>1 DEF Kept, Stays
  <2> QED BY <1>1, <2>1, <2>2, <2>3, <2>4
<1> QED BY <1>1, <1>4, <1>12, <1>13, <1>14, TellerReasoned

(* An app's request, as far as it has come: its first word, or all of it.   *)
LEMMA AskIs ==
  ASSUME NEW a \in Seq(Words), NEW b \in Seq(Words), a # <<>>, a \o b = RequestMagic
  PROVE  a[1] = "B" /\ (Len(a) = 1 \/ (Len(a) = 2 /\ a = RequestMagic))
<1>1. /\ Len(a) + Len(b) = Len(RequestMagic) /\ \A i \in 1..Len(a) : RequestMagic[i] = a[i]
  BY JoinAny
<1>2. Len(RequestMagic) = 2 /\ RequestMagic[1] = "B"
  BY DEF RequestMagic
<1>3. Len(a) \in Nat /\ Len(b) \in Nat /\ Len(a) # 0
  BY EmptySeq
<1>4. Len(a) \in {1, 2}
  BY <1>1, <1>2, <1>3
<1>5. a[1] = "B"
  BY <1>1, <1>2, <1>4
<1>6. ASSUME Len(a) = 2 PROVE a = RequestMagic
  <2>1. Len(b) = 0
    BY <1>1, <1>2, <1>3, <1>6
  <2>2. b = <<>>
    BY <2>1
  <2>3. a \o <<>> = a
    OBVIOUS
  <2> QED BY <2>2, <2>3
<1> QED BY <1>4, <1>5, <1>6

(* An app asks, and is not turned away: it is served unless the file or the *)
(* disk fails or nobody hears.                                              *)
LEMMA AskServed ==
  ASSUME Inv, Told, NEW s \in Streams, rx[s].who = "app", NEW t \in Snd, Serve(s, t),
         t.lib = "open", ~t.path, t.req # <<>>, toTx'[s] \in Seq(Words), t.req \o toTx'[s] = RequestMagic,
         UNCHANGED <<share, edited>>
  PROVE  Kept(s, tx'[s]) /\ \E w \in Seq(Int) : sent' = [sent EXCEPT ![s] = sent[s] \o w]
<1> DEFINE t1 == [t EXCEPT !.row = "active"]
           t2 == [t1 EXCEPT !.path = TRUE, !.off = 0, !.pump = TRUE]
<1>1. t.req \in Seq(Words)
  BY DEF Snd
<1>2. t.req[1] = "B" /\ (Len(t.req) = 1 \/ (Len(t.req) = 2 /\ t.req = RequestMagic))
  BY <1>1, AskIs
<1>3. Len(RequestMagic) = 2
  BY DEF RequestMagic
<1>4. Waits(s, t) \/ BeginSend(s, t)
  <2>1. t.req[1] \notin {"G", "H"}
    BY <1>2
  <2>2. CASE Len(t.req) = 1
    <3>1. Len(t.req) < Len(RequestMagic)
      BY <1>3, <2>2
    <3> QED BY <1>2, <2>1, <3>1 DEF Serve
  <2>3. CASE Len(t.req) = 2 /\ t.req = RequestMagic
    <3>1. ~(Len(t.req) < Len(RequestMagic))
      BY <1>3, <2>3
    <3>2. SubSeq(t.req, 1, Len(RequestMagic)) = RequestMagic
      <4>1. SubSeq(t.req, 1, Len(t.req)) = t.req
        BY <1>1
      <4> QED BY <1>3, <2>3, <4>1
    <3> QED BY <1>2, <2>1, <3>1, <3>2 DEF Serve
  <2> QED BY <1>2, <2>2, <2>3
<1>5. <<>> \in Seq(Int) /\ OnionHeader(share.locked, Total) \in Seq(Int)
  BY Framing, HeaderIs
<1>6. CASE Waits(s, t)
  <2>1. tx'[s] = t /\ UNCHANGED sent
    BY <1>6, Leaves DEF Waits
  <2>2. Kept(s, t)
    BY DEF Kept, Stays, Wants
  <2> QED BY <1>5, <2>1, <2>2, Silent
<1>7. CASE BeginSend(s, t)
  <2>1. t1 \in Snd
    BY DEF Snd
  <2>2. t2.path /\ t2.lib = "open"
    BY DEF Snd
  <2>3. \/ OpenMayFail(s) /\ Ends(s, ServeAbort(t1)) /\ UNCHANGED sent
        \/ DiskWorks /\ WriteMayFail(s) /\ Ends(s, ServeAbort(t1)) /\ UNCHANGED sent
        \/ DiskWorks /\ Writes(s, OnionHeader(share.locked, Total)) /\ GoesOn(s, t2)
    BY <1>7 DEF BeginSend
  <2> HIDE DEF t1, t2
  <2>4. CASE (OpenMayFail(s) \/ WriteMayFail(s)) /\ Ends(s, ServeAbort(t1)) /\ UNCHANGED sent
    <3>1. tx'[s] = ServeAbort(t1) /\ ServeAbort(t1).lib = "gone"
      BY <2>1, <2>4, Leaves, ServeAbortIs
    <3>2. OpenMayFail(s) /\ ~edited => s \in badDisk'
      <4>1. ~edited => file = share.content
        BY DEF Told
      <4>2. share.content # NoFile
        BY At, TransferAssumption DEF Cells
      <4> QED BY <4>1, <4>2 DEF OpenMayFail
    <3>3. WriteMayFail(s) => Unheard(s)
      BY DEF WriteMayFail, Unheard
    <3>4. Kept(s, ServeAbort(t1))
      BY <2>4, <3>1, <3>2, <3>3 DEF Kept, Stays
    <3> QED BY <1>5, <2>4, <3>1, <3>4, Silent
  <2>5. CASE Writes(s, OnionHeader(share.locked, Total)) /\ GoesOn(s, t2)
    <3>1. tx'[s] = t2
      BY <2>5, Leaves
    <3>2. Kept(s, t2)
      BY <2>2 DEF Kept, Stays
    <3>3. sent' = [sent EXCEPT ![s] = sent[s] \o OnionHeader(share.locked, Total)]
      BY <2>5 DEF Writes
    <3> QED BY <1>5, <3>1, <3>2, <3>3
  <2> QED BY <2>3, <2>4, <2>5
<1> QED BY <1>4, <1>6, <1>7

LEMMA TxDataReasoned ==
  ASSUME Inv, Told, Reasoned, NEW s \in Streams, TxData(s)
  PROVE  Reasoned'
<1>1. PICK k \in 1..Len(toTx[s]) :
        /\ toTx' = [toTx EXCEPT ![s] = Drop(@, k)]
        /\ IF cur # s \/ tx[s].row = "active" THEN UNCHANGED <<tx, gate, sent, faults, badDisk>>
           ELSE Serve(s, [tx[s] EXCEPT !.req = @ \o SubSeq(toTx[s], 1, k), !.fresh = TRUE])
  BY DEF TxData
<1>2. tx[s].lib = "open" /\ UNCHANGED <<share, rx, fed, cut, refused, timedOut, edited>>
  BY DEF TxData
<1>3. tx[s] \in Snd /\ SendInv(s) /\ toTx \in [Streams -> Seq(Words)]
      /\ toTx[s] \in Seq(Words) /\ tx[s].req \in Seq(Words)
  BY At DEF Inv, Types, Snd
<1>4. rx[s].who \in {"app", "browser"}
  BY <1>2, Served
<1>5. cur = s
  BY <1>2, <1>4, Telling
<1> DEFINE came == SubSeq(toTx[s], 1, k)
           left == Drop(toTx[s], k)
<1>6. came \in Seq(Words) /\ left \in Seq(Words)
  BY <1>1, <1>3 DEF Drop
<1>7. came # <<>> /\ toTx[s] # <<>>
  BY <1>1, <1>3
<1>8. came \o left = toTx[s]
  BY <1>1, <1>3, PartsJoin
<1>9. (\A q \in Streams \ {s} : toTx'[q] = toTx[q]) /\ toTx'[s] = left
  BY <1>1, <1>3
<1> HIDE DEF came, left
<1>10. CASE tx[s].row = "active"
  <2>1. UNCHANGED <<tx, sent, badDisk>>
    BY <1>1, <1>10
  <2>2. Grows /\ Handed(s)' = Handed(s)
    BY <1>2, <2>1 DEF Grows, Handed
  <2>3. tx[s].path
    BY <1>3, <1>10 DEF SendInv
  <2>4. Kept(s, tx'[s])
    BY <1>2, <2>1, <2>3 DEF Kept, Stays
  <2> QED BY <1>2, <1>4, <1>9, <2>1, <2>2, <2>4, TellerReasoned
<1>11. CASE tx[s].row # "active"
  <2> DEFINE req == tx[s].req \o came
             t   == [tx[s] EXCEPT !.req = req, !.fresh = TRUE]
  <2>1. Serve(s, t)
    BY <1>1, <1>5, <1>11 DEF came
  <2>2. req \in Seq(Words) /\ req # <<>>
    BY <1>3, <1>6, <1>7, JoinMore
  <2>3. req \o left = tx[s].req \o toTx[s]
    <3>1. (tx[s].req \o came) \o left = tx[s].req \o (came \o left)
      BY <1>3, <1>6, JoinThree
    <3> QED BY <1>8, <3>1
  <2> HIDE DEF req
  <2>4. ~tx[s].path
    BY <1>3, <1>11 DEF SendInv
  <2>5. t \in Snd /\ t.lib = "open" /\ ~t.path /\ t.req = req
    BY <1>2, <1>3, <2>2, <2>4 DEF Snd
  <2> HIDE DEF t
  <2>6. Apart(s)
    BY <2>1, ServeApart
  <2>7. Grows
    BY <1>2, <2>6 DEF Grows, Apart
  <2>8. rx[s].who = "app" => Handed(s)' = Handed(s) /\ Kept(s, tx'[s])
    <3> SUFFICES ASSUME rx[s].who = "app" PROVE Handed(s)' = Handed(s) /\ Kept(s, tx'[s])
      OBVIOUS
    <3>1. Wants(tx[s], toTx[s])
      BY <1>2, <2>4 DEF Reasoned, Speaks, Stays
    <3>2. t.req \o left = RequestMagic
      BY <1>7, <2>3, <2>5, <3>1 DEF Wants
    <3>3. Kept(s, tx'[s]) /\ \E w \in Seq(Int) : sent' = [sent EXCEPT ![s] = sent[s] \o w]
      BY <1>2, <1>6, <1>9, <2>1, <2>2, <2>5, <3>2, AskServed
    <3> QED BY <1>2, <3>3, HandedStays
  <2> QED BY <1>2, <1>4, <1>9, <2>6, <2>7, <2>8, TellerReasoned DEF Apart
<1> QED BY <1>10, <1>11

-----------------------------------------------------------------------------
LEMMA NextReasoned == Inv /\ Told /\ Reasoned /\ [Next]_vars => Reasoned'
<1> SUFFICES ASSUME Inv, Told, Reasoned, [Next]_vars PROVE Reasoned'
  OBVIOUS
<1>1. CASE Edit
  BY <1>1, EditReasoned
<1>2. CASE \E s \in Streams : Receiver(s)
  BY <1>2, DialReasoned, OverReasoned, OpenedReasoned, ReadReasoned, RecvWatchdogReasoned DEF Receiver
<1>3. CASE \E s \in Streams : Sender(s)
  BY <1>3, AcceptReasoned, TxDataReasoned, PumpReasoned, TxClosedReasoned, SendWatchdogReasoned DEF Sender
<1>4. CASE \E s \in Streams : Break(s)
  BY <1>4, BreakReasoned
<1>5. CASE UNCHANGED vars
  <2>1. Grows /\ \A q \in Streams : Same4(q)
    BY <1>5 DEF vars, gate, down, history, Grows, Same4
  <2> QED BY <2>1, OthersReasoned DEF Reasoned
<1> QED BY <1>1, <1>2, <1>3, <1>4, <1>5 DEF Next

LEMMA ReasonedFails == Reasoned => FailsForAReason
BY DEF Reasoned, Listens, Excused, FailsForAReason

(* A download fails only when the stream was not what a header promises and *)
(* the code allows or was not sealed with the key, the file was edited, a   *)
(* disk failed, or the stream ended, was refused or timed out before all of *)
(* the file was handed over: never for where its reads were cut, nor for    *)
(* the lack of a terminator, nor when a watchdog or a close comes after the *)
(* last cell of it (qsOnionRecvData, qsOnionRecvFinish, qsOnionRecvStream,  *)
(* qsOnionRecvAbort, qsOnionRecvWatchdog, qsOnionSendPump).                 *)
THEOREM FailsForAReasonCorrect == Spec => []FailsForAReason
BY InitInv, NextInv, InitTold, NextTold, InitReasoned, NextReasoned, ReasonedFails, PTL DEF Spec

=============================================================================
