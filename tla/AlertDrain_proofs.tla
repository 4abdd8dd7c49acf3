------------------------- MODULE AlertDrain_proofs -------------------------
(***************************************************************************)
(* Theorems about the alert stream, for any number of alerts, sizes, queue *)
(* and buffer limits and torrents:                                         *)
(*   AnswersCorrect      what btPoll reads from a return value is so       *)
(*   DrainImplementsQueue  across stash, buffers, overflow and exceptions, *)
(*                       the stream is taken in order, each alert once     *)
(*                                                                         *)
(* What is surfaced of a queue is a recursive function; its facts are by   *)
(* induction, in the form of sets: a set of naturals has a least one.      *)
(***************************************************************************)
EXTENDS AlertDrain, SequenceTheorems, WellFoundedInduction, TLAPS

-----------------------------------------------------------------------------
(* Induction over numbers.                                                 *)
LEMMA Least ==
  ASSUME NEW T, T \subseteq Nat, T # {}
  PROVE  \E x \in T : \A y \in T : x <= y
<1> DEFINE R == {p \in Nat \X Nat : p[1] < p[2]}
<1>1. IsWellFoundedOn(R, Nat)
  BY NatLessThanWellFounded DEF OpToRel
<1>2. PICK x \in T : \A y \in T : ~(<<y, x>> \in R)
  <2> HIDE DEF R
  <2> QED BY <1>1, WFMin
<1>3. \A y \in T : <<y, x>> \in R <=> y < x
  OBVIOUS
<1>4. x \in Nat /\ \A y \in T : y \in Nat /\ ~(y < x)
  BY <1>2, <1>3
<1> QED BY <1>4

LEMMA Upto ==
  ASSUME NEW N \in Nat, NEW G \in SUBSET (0..N), 0 \in G, \A k \in 1..N : k - 1 \in G => k \in G
  PROVE  G = 0..N
<1> DEFINE B == (0..N) \ G
<1> SUFFICES ASSUME B # {} PROVE FALSE
  OBVIOUS
<1>0. B \subseteq Nat
  OBVIOUS
<1>1. PICK n \in B : \A m \in B : n <= m
  <2> HIDE DEF B
  <2> QED BY <1>0, Least
<1>2. n \in 1..N /\ n - 1 \in 0..N /\ ~(n <= n - 1)
  BY <1>1
<1> QED BY <1>1, <1>2

(* A set of numbers up to N has a greatest one.                            *)
LEMMA Greatest ==
  ASSUME NEW N \in Nat, NEW S \in SUBSET (0..N), S # {}
  PROVE  Max(S) \in S
<1> DEFINE T == {n \in 0..N : N - n \in S}
<1>1. T \subseteq Nat /\ T # {}
  <2>1. PICK x \in S : TRUE
    OBVIOUS
  <2>2. N - x \in 0..N /\ N - (N - x) = x
    BY <2>1
  <2>3. N - x \in T
    BY <2>1, <2>2
  <2>4. T \subseteq 0..N
    OBVIOUS
  <2> HIDE DEF T
  <2> QED BY <2>3, <2>4
<1>2. PICK n \in T : \A m \in T : n <= m
  <2> HIDE DEF T
  <2> QED BY <1>1, Least
<1>3. ASSUME NEW y \in S PROVE N - n >= y
  <2>1. y \in 0..N /\ N - y \in 0..N /\ N - (N - y) = y
    OBVIOUS
  <2>2. N - y \in T
    BY <2>1
  <2>3. n <= N - y /\ n \in 0..N
    BY <1>2, <2>2
  <2> QED BY <2>1, <2>3
<1>4. \E x \in S : \A y \in S : x >= y
  BY <1>2, <1>3
<1> QED BY <1>4 DEF Max

-----------------------------------------------------------------------------
(* What extract_alert surfaces of a queue, one alert at a time.            *)
Sifts(f, q) ==
  /\ f[0] = <<>>
  /\ \A i \in 1..Len(q) : f[i] = IF q[i].kind = "unmapped" THEN f[i - 1] ELSE Append(f[i - 1], q[i])

LEMMA SiftExists ==
  ASSUME NEW q \in Seq(Alert)
  PROVE  \E f \in [0..Len(q) -> Seq(Alert)] : Sifts(f, q)
<1> DEFINE N       == Len(q)
           Next1(s, i) == IF q[i].kind = "unmapped" THEN s ELSE Append(s, q[i])
           Good(n) == \E h \in [0..n -> Seq(Alert)] : h[0] = <<>> /\ \A k \in 1..n : h[k] = Next1(h[k - 1], k)
           G       == {n \in 0..N : Good(n)}
<1>1. Good(0)
  <2> DEFINE z == [k \in 0..0 |-> <<>>]
  <2>1. z \in [0..0 -> Seq(Alert)] /\ z[0] = <<>> /\ \A k \in 1..0 : z[k] = Next1(z[k - 1], k)
    OBVIOUS
  <2> QED BY <2>1
<1>2. ASSUME NEW n \in 1..N, Good(n - 1) PROVE Good(n)
  <2>1. PICK h \in [0..(n - 1) -> Seq(Alert)] : h[0] = <<>> /\ \A k \in 1..(n - 1) : h[k] = Next1(h[k - 1], k)
    BY <1>2
  <2> DEFINE e == Next1(h[n - 1], n)
             g == [k \in 0..n |-> IF k = n THEN e ELSE h[k]]
  <2>2. e \in Seq(Alert)
    <3>1. h[n - 1] \in Seq(Alert) /\ q[n] \in Alert
      BY <1>2
    <3> QED BY <3>1
  <2> HIDE DEF e
  <2>3. g \in [0..n -> Seq(Alert)]
    BY <2>2
  <2>4. g[0] = <<>>
    BY <2>1
  <2>5. ASSUME NEW k \in 1..n PROVE g[k] = Next1(g[k - 1], k)
    <3>1. CASE k = n
      <4>1. g[k] = e /\ g[k - 1] = h[n - 1]
        BY <3>1
      <4> QED BY <3>1, <4>1 DEF e
    <3>2. CASE k # n
      <4>1. g[k] = h[k] /\ g[k - 1] = h[k - 1] /\ k \in 1..(n - 1)
        BY <3>2
      <4> QED BY <2>1, <4>1
    <3> QED BY <3>1, <3>2
  <2> HIDE DEF g, Next1
  <2> QED BY <2>3, <2>4, <2>5
<1> HIDE DEF Good
<1>3. G = 0..N
  <2>1. 0 \in G /\ \A k \in 1..N : k - 1 \in G => k \in G
    BY <1>1, <1>2
  <2> HIDE DEF G
  <2>2. G \in SUBSET (0..N)
    BY DEF G
  <2> QED BY <2>1, <2>2, Upto
<1>4. Good(N)
  BY <1>3
<1> QED BY <1>4 DEF Good, Sifts

LEMMA SurfacedIs ==
  ASSUME NEW q \in Seq(Alert)
  PROVE  \E f \in [0..Len(q) -> Seq(Alert)] : Sifts(f, q) /\ Surfaced(q) = f[Len(q)]
<1> DEFINE D(f) == [i \in 0..Len(q) |-> IF i = 0 THEN <<>>
                                        ELSE IF q[i].kind = "unmapped" THEN f[i - 1] ELSE Append(f[i - 1], q[i])]
           kept == CHOOSE f : f = D(f)
<1>1. PICK f \in [0..Len(q) -> Seq(Alert)] : Sifts(f, q)
  BY SiftExists
<1>2. f = D(f)
  <2>1. \A i \in 0..Len(q) : f[i] = D(f)[i]
    <3> SUFFICES ASSUME NEW i \in 0..Len(q) PROVE f[i] = D(f)[i]
      OBVIOUS
    <3>1. CASE i = 0
      BY <1>1, <3>1 DEF Sifts
    <3>2. CASE i # 0
      <4>1. i \in 1..Len(q)
        BY <3>2
      <4>2. f[i] = IF q[i].kind = "unmapped" THEN f[i - 1] ELSE Append(f[i - 1], q[i])
        BY <1>1, <4>1 DEF Sifts
      <4> QED BY <3>2, <4>2
    <3> QED BY <3>1, <3>2
  <2>2. f = [i \in 0..Len(q) |-> f[i]] /\ D(f) = [i \in 0..Len(q) |-> D(f)[i]]
    BY <1>1
  <2> HIDE DEF D
  <2> QED BY <2>1, <2>2
<1>3. kept = D(kept)
  <2> HIDE DEF D
  <2> QED BY <1>2
<1>4. Surfaced(q) = kept[Len(q)]
  BY DEF Surfaced
<1> HIDE DEF kept
<1>5. Sifts(kept, q)
  <2>1. \A i \in 0..Len(q) : D(kept)[i] = IF i = 0 THEN <<>> ELSE IF q[i].kind = "unmapped" THEN kept[i - 1]
                                          ELSE Append(kept[i - 1], q[i])
    OBVIOUS
  <2> HIDE DEF D
  <2>2. \A i \in 0..Len(q) : kept[i] = D(kept)[i]
    BY <1>3
  <2>3. 0 \in 0..Len(q) /\ \A i \in 1..Len(q) : i \in 0..Len(q) /\ i # 0
    OBVIOUS
  <2> QED BY <2>1, <2>2, <2>3 DEF Sifts
<1>6. kept \in [0..Len(q) -> Seq(Alert)]
  <2> DEFINE G == {n \in 0..Len(q) : kept[n] \in Seq(Alert)}
  <2>1. 0 \in G
    <3>1. kept[0] = <<>> /\ <<>> \in Seq(Alert) /\ 0 \in 0..Len(q)
      BY <1>5 DEF Sifts
    <3> QED BY <3>1
  <2>2. ASSUME NEW k \in 1..Len(q), k - 1 \in G PROVE k \in G
    <3>1. kept[k - 1] \in Seq(Alert) /\ q[k] \in Alert
      BY <2>2, ElementOfSeq
    <3>2. kept[k] \in Seq(Alert)
      <4>1. kept[k] = kept[k - 1] \/ kept[k] = Append(kept[k - 1], q[k])
        BY <1>5 DEF Sifts
      <4>2. Append(kept[k - 1], q[k]) \in Seq(Alert)
        BY <3>1, AppendProperties
      <4> QED BY <3>1, <4>1, <4>2
    <3> QED BY <3>2
  <2>3. G = 0..Len(q)
    <3> HIDE DEF G
    <3>1. G \in SUBSET (0..Len(q)) /\ Len(q) \in Nat
      BY DEF G
    <3> QED BY <2>1, <2>2, <3>1, Upto
  <2>4. kept = [i \in 0..Len(q) |-> kept[i]]
    BY <1>3
  <2> QED BY <2>3, <2>4
<1> QED BY <1>4, <1>5, <1>6

LEMMA SurfacedType == ASSUME NEW q \in Seq(Alert) PROVE Surfaced(q) \in Seq(Alert)
BY SurfacedIs

LEMMA SurfacedEmpty == Surfaced(<<>>) = <<>>
<1>1. <<>> \in Seq(Alert) /\ Len(<<>>) = 0
  OBVIOUS
<1>2. PICK f \in [0..0 -> Seq(Alert)] : Sifts(f, <<>>) /\ Surfaced(<<>>) = f[0]
  BY <1>1, SurfacedIs
<1> QED BY <1>2 DEF Sifts

(* Two queues that begin alike surface alike as far.                       *)
Alike(p, q, n) == n <= Len(q) /\ n <= Len(p) /\ \A i \in 1..n : p[i] = q[i]

LEMMA SiftAlike ==
  ASSUME NEW q \in Seq(Alert), NEW p \in Seq(Alert), NEW n \in Nat, Alike(p, q, n),
         NEW f, Sifts(f, q), NEW g, Sifts(g, p)
  PROVE  f[n] = g[n]
<1> DEFINE G == {k \in 0..n : f[k] = g[k]}
<1>1. 0 \in G
  BY DEF Sifts
<1>2. ASSUME NEW k \in 1..n, k - 1 \in G PROVE k \in G
  <2>1. k \in 1..Len(q) /\ k \in 1..Len(p) /\ p[k] = q[k] /\ f[k - 1] = g[k - 1]
    BY <1>2 DEF Alike
  <2> QED BY <2>1 DEF Sifts
<1>3. G = 0..n
  <2> HIDE DEF G
  <2>1. G \in SUBSET (0..n) /\ n \in Nat
    BY DEF G
  <2> QED BY <1>1, <1>2, <2>1, Upto
<1> QED BY <1>3

LEMMA SurfacedAppend ==
  ASSUME NEW q \in Seq(Alert), NEW a \in Alert
  PROVE  Surfaced(Append(q, a)) = IF a.kind = "unmapped" THEN Surfaced(q) ELSE Append(Surfaced(q), a)
<1> DEFINE p == Append(q, a)
           N == Len(q)
<1>1. p \in Seq(Alert) /\ Len(p) = N + 1 /\ p[N + 1] = a /\ N \in Nat /\ \A i \in 1..N : p[i] = q[i]
  BY AppendProperties
<1> HIDE DEF p
<1>2. PICK f \in [0..Len(q) -> Seq(Alert)] : Sifts(f, q) /\ Surfaced(q) = f[Len(q)]
  BY SurfacedIs
<1>3. PICK g \in [0..Len(p) -> Seq(Alert)] : Sifts(g, p) /\ Surfaced(p) = g[Len(p)]
  BY <1>1, SurfacedIs
<1>4. g[N] = f[N]
  <2>1. Alike(p, q, N) /\ N \in Nat
    BY <1>1 DEF Alike
  <2>2. Sifts(f, q) /\ Sifts(g, p)
    BY <1>2, <1>3
  <2> HIDE DEF N
  <2>3. f[N] = g[N]
    BY <1>1, <2>1, <2>2, SiftAlike
  <2> QED BY <2>3
<1>5. g[N + 1] = IF a.kind = "unmapped" THEN g[N] ELSE Append(g[N], a)
  <2>1. N + 1 \in 1..Len(p) /\ (N + 1) - 1 = N
    BY <1>1
  <2> QED BY <1>1, <1>3, <2>1 DEF Sifts
<1> QED BY <1>1, <1>2, <1>3, <1>4, <1>5 DEF p

(* What is surfaced of a start of the queue is a start of what is surfaced. *)
Starts(s, t) == Len(s) <= Len(t) /\ \A i \in 1..Len(s) : t[i] = s[i]

LEMMA SurfacedPrefix ==
  ASSUME NEW q \in Seq(Alert), NEW n \in 0..Len(q)
  PROVE  Surfaced(Prefix(q, n)) \in Seq(Alert) /\ Starts(Surfaced(Prefix(q, n)), Surfaced(q))
<1> DEFINE p == Prefix(q, n)
<1>1. p \in Seq(Alert) /\ Len(p) = n /\ \A i \in 1..n : p[i] = q[i]
  BY DEF Prefix
<1> HIDE DEF p
<1>2. PICK f \in [0..Len(q) -> Seq(Alert)] : Sifts(f, q) /\ Surfaced(q) = f[Len(q)]
  BY SurfacedIs
<1>3. PICK g \in [0..Len(p) -> Seq(Alert)] : Sifts(g, p) /\ Surfaced(p) = g[Len(p)]
  BY <1>1, SurfacedIs
<1>4. f[n] = g[n]
  <2>1. Alike(p, q, n) /\ n \in Nat
    BY <1>1 DEF Alike
  <2>2. Sifts(f, q) /\ Sifts(g, p)
    BY <1>2, <1>3
  <2> QED BY <1>1, <2>1, <2>2, SiftAlike
<1> DEFINE N == Len(q)
           G == {k \in 0..N : k < n \/ Starts(f[n], f[k])}
<1>5. ASSUME NEW k \in 1..N, k - 1 \in G PROVE k \in G
  <2>1. CASE k < n
    BY <2>1
  <2>2. CASE k = n
    BY <2>2 DEF Starts
  <2>3. CASE k > n
    <3>1. Starts(f[n], f[k - 1])
      BY <1>5, <2>3
    <3>2. f[k - 1] \in Seq(Alert) /\ q[k] \in Alert /\ f[n] \in Seq(Alert)
      <4>1. k - 1 \in 0..Len(q)
        OBVIOUS
      <4> QED BY <4>1, ElementOfSeq
    <3>3. f[k] = f[k - 1] \/ f[k] = Append(f[k - 1], q[k])
      BY <1>2 DEF Sifts
    <3>4. Starts(f[n], Append(f[k - 1], q[k]))
      <4>1. /\ Len(Append(f[k - 1], q[k])) = Len(f[k - 1]) + 1 /\ Len(f[n]) \in Nat /\ Len(f[k - 1]) \in Nat
            /\ \A i \in 1..Len(f[k - 1]) : Append(f[k - 1], q[k])[i] = f[k - 1][i]
        BY <3>2, AppendProperties
      <4> QED BY <3>1, <4>1 DEF Starts
    <3>5. Starts(f[n], f[k])
      BY <3>1, <3>3, <3>4
    <3> QED BY <3>5
  <2> QED BY <2>1, <2>2, <2>3
<1>6. 0 \in G
  <2>1. n = 0 => Starts(f[n], f[0])
    BY DEF Starts
  <2> QED BY <2>1
<1>7. G = 0..N
  <2> HIDE DEF G
  <2>1. G \in SUBSET (0..N) /\ N \in Nat
    BY DEF G
  <2> QED BY <1>5, <1>6, <2>1, Upto
<1>8. Starts(f[n], f[N])
  BY <1>7
<1> QED BY <1>1, <1>2, <1>3, <1>4, <1>8 DEF p

-----------------------------------------------------------------------------
(* How a poll splits what it drains, and what it answers.                  *)
LEMMA EmittedIs ==
  ASSUME NEW q \in Seq(Alert), NEW pos, NEW cap
  PROVE  Emitted(q, pos, cap) \in 0..Len(q)
<1> DEFINE S == {k \in 0..Len(q) : pos + Bytes(Prefix(q, k)) <= cap \/ k = 0}
<1>1. S \in SUBSET (0..Len(q)) /\ Len(q) \in Nat /\ 0 \in S
  OBVIOUS
<1>2. Max(S) \in S
  <2> HIDE DEF S
  <2> QED BY <1>1, Greatest
<1> QED BY <1>1, <1>2 DEF Emitted

LEMMA SplitIs ==
  ASSUME NEW q \in Seq(Alert), NEW k \in 0..Len(q)
  PROVE  /\ Prefix(q, k) \in Seq(Alert) /\ Rest(q, k) \in Seq(Alert)
         /\ Len(Prefix(q, k)) = k /\ Len(Rest(q, k)) = Len(q) - k
         /\ \A i \in 1..k : Prefix(q, k)[i] = q[i]
         /\ \A i \in 1..(Len(q) - k) : Rest(q, k)[i] = q[k + i]
BY DEF Prefix, Rest

LEMMA ResultIs ==
  ASSUME NEW n \in Nat, NEW left \in Seq(Alert)
  PROVE  /\ Result(n, left) \in Int
         /\ Result(n, left) = 0 => left = <<>>
         /\ Result(n, left) < 0 => left # <<>> /\ 0 - Result(n, left) = 2 + Head(left).size
<1>1. CASE n = 0 /\ left # <<>>
  <2>1. Head(left) \in Alert
    BY <1>1, HeadTailProperties
  <2>2. Head(left).size \in Nat
    BY <2>1, AlertAssumption DEF Alert
  <2> QED BY <1>1, <2>2 DEF Result, Needed
<1>2. CASE ~(n = 0 /\ left # <<>>)
  BY <1>2 DEF Result
<1> QED BY <1>1, <1>2

(* A poll that leaves this in the stash and answers so.                    *)
LEMMA PollAnswers ==
  ASSUME TypeOK, NEW n \in Nat, NEW left \in Seq(Alert), stash' = left, Return(Result(n, left))
  PROVE  /\ sDrainCap' \in Nat /\ retry' \in BOOLEAN /\ rc' \in Int /\ stash' \in Seq(Alert)
         /\ RetrySucceeds' /\ (rc' = 0 => stash' = <<>>)
<1> DEFINE r == Result(n, left)
<1>1. /\ r \in Int /\ (r = 0 => left = <<>>)
      /\ r < 0 => left # <<>> /\ 0 - r = 2 + Head(left).size
  BY ResultIs
<1>2. /\ rc' = r /\ retry' = (r < 0 /\ ~retry)
      /\ sDrainCap' = IF r < 0 /\ ~retry /\ -r > sDrainCap THEN -r ELSE sDrainCap
  BY DEF Return
<1> HIDE DEF r
<1>3. sDrainCap \in Nat /\ retry \in BOOLEAN
  BY DEF TypeOK
<1>4. sDrainCap' \in Nat /\ retry' \in BOOLEAN
  BY <1>1, <1>2, <1>3
<1>5. retry' => r < 0 /\ 0 - r <= sDrainCap'
  <2> SUFFICES ASSUME retry' PROVE r < 0 /\ 0 - r <= sDrainCap'
    OBVIOUS
  <2>1. r < 0 /\ ~retry
    BY <1>2
  <2>2. sDrainCap' = IF -r > sDrainCap THEN -r ELSE sDrainCap
    BY <1>2, <2>1
  <2> QED BY <1>1, <1>3, <2>1, <2>2
<1>6. RetrySucceeds'
  BY <1>1, <1>5 DEF RetrySucceeds
<1> QED BY <1>1, <1>2, <1>4, <1>6

-----------------------------------------------------------------------------
(* Each action keeps the answers right.                                    *)
LEMMA PostAnswers ==
  ASSUME Answers, NEW a, Post(a), a.n = posted + 1, a \in [n : {posted + 1}, kind : Kinds, size : EntrySizes,
                                                            torrent : Torrents \cup {None}]
  PROVE  Answers'
<1>1. posted \in 0..MaxAlerts /\ posted < MaxAlerts /\ posted' = posted + 1 /\ MaxAlerts \in Nat
  BY AlertAssumption DEF Answers, TypeOK, Post
<1>2. posted + 1 \in 1..MaxAlerts /\ posted' \in 0..MaxAlerts
  BY <1>1
<1>3. a \in Alert /\ a.kind \in Kinds
  BY <1>2 DEF Alert
<1>4. ltQueue' \in Seq(Alert) /\ ltDropped' \subseteq Kinds /\ lost' \in Nat
  <2>1. ltQueue \in Seq(Alert) /\ ltDropped \subseteq Kinds /\ lost \in Nat
    BY DEF Answers, TypeOK
  <2>2. \/ ltQueue' = Append(ltQueue, a) /\ ltDropped' = ltDropped /\ lost' = lost
        \/ ltQueue' = ltQueue /\ ltDropped' = ltDropped \cup {a.kind} /\ lost' = lost + 1
    BY DEF Post
  <2>3. Append(ltQueue, a) \in Seq(Alert)
    BY <1>3, <2>1, AppendProperties
  <2> QED BY <1>3, <2>1, <2>2, <2>3
<1>5. UNCHANGED <<removed, stash, sDrainCap, retry, got, rc, throws>>
  BY DEF Post
<1> QED BY <1>2, <1>4, <1>5 DEF Answers, TypeOK, RetrySucceeds, ZeroMeansNone

LEMMA RemoveAnswers ==
  ASSUME Answers, NEW t \in Torrents, btRemove(t)
  PROVE  Answers'
BY DEF btRemove, Answers, TypeOK, RetrySucceeds, ZeroMeansNone

LEMMA PopStashAnswers ==
  ASSUME Answers, PopStash
  PROVE  Answers'
<1> DEFINE k    == Emitted(stash, 2, sDrainCap)
           left == Rest(stash, k)
           out  == Prefix(stash, k)
<1>1. stash \in Seq(Alert) /\ got \in Seq(Alert) /\ TypeOK
  BY DEF Answers, TypeOK
<1>2. k \in 0..Len(stash) /\ k \in Nat
  BY <1>1, EmittedIs
<1>3. got' = got \o out /\ stash' = left /\ Return(Result(k, left))
      /\ UNCHANGED <<ltQueue, ltDropped, removed, posted, lost, throws>>
  BY DEF PopStash
<1> HIDE DEF k
<1>4. left \in Seq(Alert) /\ out \in Seq(Alert)
  BY <1>1, <1>2, SplitIs
<1> HIDE DEF left, out
<1>5. /\ sDrainCap' \in Nat /\ retry' \in BOOLEAN /\ rc' \in Int /\ stash' \in Seq(Alert)
      /\ RetrySucceeds' /\ (rc' = 0 => stash' = <<>>)
  BY <1>1, <1>2, <1>3, <1>4, PollAnswers
<1>6. got' \in Seq(Alert)
  BY <1>1, <1>3, <1>4, ConcatProperties
<1>7. TypeOK'
  BY <1>1, <1>3, <1>5, <1>6 DEF TypeOK
<1> QED BY <1>5, <1>7 DEF Answers, ZeroMeansNone

LEMMA PopFreshAnswers ==
  ASSUME Answers, PopFresh
  PROVE  Answers'
<1> DEFINE pos   == 2 + Bytes(stash)
           fresh == Surfaced(ltQueue)
           k     == Emitted(fresh, pos, sDrainCap)
           out   == Prefix(fresh, k)
           left  == Rest(fresh, k)
<1>1. stash \in Seq(Alert) /\ got \in Seq(Alert) /\ ltQueue \in Seq(Alert) /\ lost \in Nat /\ TypeOK
  BY DEF Answers, TypeOK
<1>2. /\ got' = got \o stash \o out /\ stash' = left /\ Return(Result(Len(stash) + Len(out), left))
      /\ ltQueue' = <<>> /\ ltDropped' = {} /\ lost' = Report /\ UNCHANGED <<removed, posted, throws>>
  BY DEF PopFresh, Written, Stashed
<1>3. fresh \in Seq(Alert)
  BY <1>1, SurfacedType
<1> HIDE DEF fresh, pos
<1>4. k \in 0..Len(fresh)
  BY <1>3, EmittedIs
<1> HIDE DEF k
<1>5. out \in Seq(Alert) /\ left \in Seq(Alert)
  BY <1>3, <1>4, SplitIs
<1> HIDE DEF out, left
<1>6. Len(stash) + Len(out) \in Nat
  BY <1>1, <1>5
<1>7. /\ sDrainCap' \in Nat /\ retry' \in BOOLEAN /\ rc' \in Int /\ stash' \in Seq(Alert)
      /\ RetrySucceeds' /\ (rc' = 0 => stash' = <<>>)
  BY <1>1, <1>2, <1>5, <1>6, PollAnswers
<1>8. got' \in Seq(Alert)
  <2>1. got \o stash \in Seq(Alert)
    BY <1>1, ConcatProperties
  <2> QED BY <1>2, <1>5, <2>1, ConcatProperties
<1>9. lost' \in Nat /\ ltQueue' \in Seq(Alert)
  BY <1>1, <1>2 DEF Report
<1>10. TypeOK'
  BY <1>1, <1>2, <1>7, <1>8, <1>9 DEF TypeOK
<1> QED BY <1>7, <1>10 DEF Answers, ZeroMeansNone

LEMMA PopThrowsAnswers ==
  ASSUME Answers, NEW i \in DOMAIN ltQueue, PopThrows(i)
  PROVE  Answers'
<1> DEFINE fresh == Surfaced(Prefix(ltQueue, i - 1))
           k     == Emitted(fresh, 2 + Bytes(stash), sDrainCap)
<1>1. ltQueue \in Seq(Alert) /\ throws \in Nat /\ sDrainCap \in Nat /\ retry \in BOOLEAN /\ TypeOK
  BY DEF Answers, TypeOK
<1>2. /\ stash' = Rest(fresh, k) /\ Return(0) /\ ltQueue' = <<>> /\ ltDropped' = {}
      /\ throws' = throws + 1 /\ UNCHANGED <<removed, posted, got, lost>>
  BY DEF PopThrows, Stashed
<1>3. i - 1 \in 0..Len(ltQueue)
  BY <1>1
<1>4. fresh \in Seq(Alert)
  BY <1>1, <1>3, SurfacedPrefix
<1> HIDE DEF fresh
<1>5. stash' \in Seq(Alert)
  BY <1>2, <1>4, EmittedIs, SplitIs
<1>6. rc' = 0 /\ retry' = FALSE /\ sDrainCap' = sDrainCap /\ throws' \in Nat /\ throws' # 0
  <2>1. ~(0 < 0)
    OBVIOUS
  <2>2. rc' = 0 /\ retry' = FALSE /\ sDrainCap' = sDrainCap
    BY <1>2, <2>1, Zenon DEF Return
  <2>3. throws' \in Nat /\ throws' # 0
    BY <1>1, <1>2
  <2> QED BY <2>2, <2>3
<1>7. TypeOK'
  <2>1. rc' \in Int
    BY <1>6
  <2>2. retry' \in BOOLEAN
    BY <1>6
  <2>3. ltQueue' \in Seq(Alert) /\ ltDropped' \subseteq Kinds
    BY <1>2
  <2> QED BY <1>1, <1>2, <1>5, <1>6, <2>1, <2>2, <2>3 DEF TypeOK
<1> QED BY <1>6, <1>7 DEF Answers, RetrySucceeds, ZeroMeansNone

LEMMA InitAnswers == Init => Answers
<1> SUFFICES ASSUME Init PROVE Answers
  OBVIOUS
<1>1. <<>> \in Seq(Alert) /\ 0 \in Nat /\ 0 \in Int /\ 0 \in 0..MaxAlerts
  BY AlertAssumption
<1>2. TypeOK
  BY <1>1, AlertAssumption DEF Init, TypeOK
<1> QED BY <1>2 DEF Init, Answers, RetrySucceeds, ZeroMeansNone

LEMMA NextAnswers == Answers /\ [Next]_vars => Answers'
<1> SUFFICES ASSUME Answers, [Next]_vars PROVE Answers'
  OBVIOUS
<1>1. CASE UNCHANGED vars
  BY <1>1 DEF vars, Answers, TypeOK, RetrySucceeds, ZeroMeansNone
<1>2. ASSUME NEW kind \in Kinds, NEW size \in EntrySizes, NEW t \in Torrents \cup {None},
             Post([n |-> posted + 1, kind |-> kind, size |-> size, torrent |-> t])
      PROVE  Answers'
  BY <1>2, PostAnswers
<1> QED BY <1>1, <1>2, RemoveAnswers, PopStashAnswers, PopFreshAnswers, PopThrowsAnswers DEF Next

(* What btPoll reads from btx_pop_alerts is so at every poll: a negative     *)
(* return is a size that lets the one retry take at least the first stashed  *)
(* alert; 0 leaves the stash empty, unless an exception ended a poll         *)
(* (btx_pop_alerts, BTX_GUARD, btPoll).                                      *)
THEOREM AnswersCorrect == Spec => []Answers
BY InitAnswers, NextAnswers, PTL DEF Spec

-----------------------------------------------------------------------------
(* The abstract queue is the stash and what will be surfaced of libtorrent's *)
(* queue; taking k of it crosses from the one to the other.                 *)
Held == stash \o Surfaced(ltQueue)

LEMMA Parts ==
  ASSUME NEW a \in Seq(Alert), NEW b \in Seq(Alert), NEW k \in 0..Len(a)
  PROVE  SubSeq(a \o b, 1, k) = Prefix(a, k) /\ SubSeq(a \o b, k + 1, Len(a \o b)) = Rest(a, k) \o b
<1> DEFINE q == a \o b
<1>1. /\ q \in Seq(Alert) /\ Len(q) = Len(a) + Len(b)
      /\ \A i \in 1..Len(a) + Len(b) : q[i] = IF i <= Len(a) THEN a[i] ELSE b[i - Len(a)]
  BY ConcatProperties
<1> HIDE DEF q
<1>2. Len(a) \in Nat /\ Len(b) \in Nat /\ k \in Nat /\ k <= Len(a)
  OBVIOUS
<1>3. SubSeq(q, 1, k) = Prefix(a, k)
  <2>1. SubSeq(q, 1, k) \in Seq(Alert) /\ Len(SubSeq(q, 1, k)) = k /\ \A i \in 1..k : SubSeq(q, 1, k)[i] = q[i]
    BY <1>1, <1>2
  <2>2. Prefix(a, k) \in Seq(Alert) /\ Len(Prefix(a, k)) = k /\ \A i \in 1..k : Prefix(a, k)[i] = a[i]
    BY SplitIs
  <2>3. \A i \in 1..k : q[i] = a[i]
    BY <1>1, <1>2
  <2>4. \A i \in 1..k : SubSeq(q, 1, k)[i] = Prefix(a, k)[i]
    BY <2>1, <2>2, <2>3
  <2> QED BY <2>1, <2>2, <2>4, SeqEqual
<1>4. SubSeq(q, k + 1, Len(q)) = Rest(a, k) \o b
  <2> DEFINE r == Rest(a, k)
             s == SubSeq(q, k + 1, Len(q))
             n == Len(q) - k
  <2>1. r \in Seq(Alert) /\ Len(r) = Len(a) - k /\ \A i \in 1..(Len(a) - k) : r[i] = a[k + i]
    BY SplitIs
  <2>2. s \in Seq(Alert) /\ Len(s) = n /\ \A i \in 1..n : s[i] = q[k + i]
    BY <1>1, <1>2
  <2> HIDE DEF r, s
  <2>3. /\ r \o b \in Seq(Alert) /\ Len(r \o b) = n
        /\ \A i \in 1..n : (r \o b)[i] = IF i <= Len(r) THEN r[i] ELSE b[i - Len(r)]
    <3>1. Len(r) + Len(b) = n
      BY <1>1, <1>2, <2>1
    <3>2. /\ r \o b \in Seq(Alert) /\ Len(r \o b) = Len(r) + Len(b)
          /\ \A i \in 1..Len(r) + Len(b) :
               (r \o b)[i] = IF i <= Len(r) THEN r[i] ELSE b[i - Len(r)]
      BY <2>1, ConcatProperties
    <3> HIDE DEF n
    <3> QED BY <3>1, <3>2
  <2>4. ASSUME NEW i \in 1..n PROVE s[i] = (r \o b)[i]
    <3>1. s[i] = q[k + i] /\ k + i \in 1..Len(a) + Len(b)
      BY <1>1, <1>2, <2>2
    <3>2. CASE i <= Len(a) - k
      <4>1. i \in 1..(Len(a) - k) /\ k + i <= Len(a) /\ i <= Len(r)
        BY <1>2, <2>1, <3>2
      <4> QED BY <1>1, <2>1, <2>3, <3>1, <4>1
    <3>3. CASE ~(i <= Len(a) - k)
      <4>1. ~(k + i <= Len(a)) /\ ~(i <= Len(r)) /\ i - Len(r) = (k + i) - Len(a)
        BY <1>2, <2>1, <3>3
      <4>2. q[k + i] = b[(k + i) - Len(a)]
        BY <1>1, <3>1, <4>1
      <4>3. (r \o b)[i] = b[i - Len(r)]
        BY <2>3, <4>1
      <4> QED BY <3>1, <4>1, <4>2, <4>3
    <3> QED BY <3>2, <3>3
  <2>5. s = r \o b
    BY <2>2, <2>3, <2>4, SeqEqual
  <2> QED BY <2>5 DEF r, s
<1> QED BY <1>3, <1>4 DEF q

LEMMA StretchIs ==
  ASSUME NEW q \in Seq(Alert), NEW j \in Nat, NEW n \in Nat, j + n <= Len(q)
  PROVE  /\ SubSeq(q, j + 1, j + n) \in Seq(Alert) /\ Len(SubSeq(q, j + 1, j + n)) = n
         /\ \A m \in 1..n : SubSeq(q, j + 1, j + n)[m] = q[j + m]
<1>1. \A i \in (j + 1)..(j + n) : q[i] \in Alert
  <2>1. (j + 1)..(j + n) \subseteq 1..Len(q)
    OBVIOUS
  <2> QED BY <2>1, ElementOfSeq
<1>2. /\ SubSeq(q, j + 1, j + n) \in Seq(Alert)
      /\ Len(SubSeq(q, j + 1, j + n)) = IF j + 1 <= j + n THEN (j + n) - (j + 1) + 1 ELSE 0
      /\ \A m \in 1..((j + n) - (j + 1) + 1) : SubSeq(q, j + 1, j + n)[m] = q[(j + 1) + m - 1]
  BY <1>1, SubSeqProperties
<1>3. (j + n) - (j + 1) + 1 = n /\ \A m \in 1..n : (j + 1) + m - 1 = j + m
  OBVIOUS
<1> QED BY <1>2, <1>3

LEMMA JoinThree ==
  ASSUME NEW a \in Seq(Alert), NEW b \in Seq(Alert), NEW c \in Seq(Alert)
  PROVE  (a \o b) \o c = a \o (b \o c)
OBVIOUS

LEMMA HeldType == ASSUME TypeOK PROVE Held \in Seq(Alert) /\ stash \in Seq(Alert) /\ Surfaced(ltQueue) \in Seq(Alert)
<1>1. stash \in Seq(Alert) /\ Surfaced(ltQueue) \in Seq(Alert)
  BY SurfacedType DEF TypeOK
<1> QED BY <1>1, ConcatProperties DEF Held

LEMMA PostQueues ==
  ASSUME Answers, Answers', NEW a, Post(a), a \in Alert
  PROVE  [Queue!Next]_(Queue!vars)
<1>1. TypeOK /\ ltQueue \in Seq(Alert) /\ UNCHANGED <<stash, got, throws>>
  BY DEF Answers, TypeOK, Post
<1>2. CASE ltQueue' = Append(ltQueue, a) /\ lost' = lost /\ a.kind # "unmapped"
  <2>1. Surfaced(ltQueue)' = Append(Surfaced(ltQueue), a)
    BY <1>1, <1>2, SurfacedAppend
  <2>2. stash \o Append(Surfaced(ltQueue), a) = Append(stash \o Surfaced(ltQueue), a)
    <3>1. \A x, y \in Seq(Alert) : x \o Append(y, a) = Append(x \o y, a)
      OBVIOUS
    <3> QED BY <1>1, <3>1, HeldType
  <2>3. Queue!Accept(a)
    BY <1>1, <1>2, <2>1, <2>2 DEF Queue!Accept
  <2> QED BY <2>3 DEF Queue!Next
<1>3. CASE ltQueue' = Append(ltQueue, a) /\ lost' = lost /\ a.kind = "unmapped"
  <2>1. Surfaced(ltQueue)' = Surfaced(ltQueue)
    BY <1>1, <1>3, SurfacedAppend
  <2> QED BY <1>1, <1>3, <2>1 DEF Queue!vars
<1>4. CASE ltQueue' = ltQueue /\ lost' = lost + 1
  <2>1. Queue!Lose
    BY <1>1, <1>4 DEF Queue!Lose
  <2> QED BY <2>1 DEF Queue!Next
<1> QED BY <1>2, <1>3, <1>4 DEF Post

LEMMA PopStashQueues ==
  ASSUME Answers, PopStash
  PROVE  Queue!Take
<1> DEFINE k == Emitted(stash, 2, sDrainCap)
           S == Surfaced(ltQueue)
<1>1. TypeOK /\ stash \in Seq(Alert) /\ S \in Seq(Alert)
  BY HeldType DEF Answers
<1>2. k \in 0..Len(stash)
  BY <1>1, EmittedIs
<1>3. got' = got \o Prefix(stash, k) /\ stash' = Rest(stash, k) /\ UNCHANGED <<ltQueue, lost, throws>>
  BY DEF PopStash
<1> HIDE DEF k
<1>4. SubSeq(stash \o S, 1, k) = Prefix(stash, k) /\ SubSeq(stash \o S, k + 1, Len(stash \o S)) = Rest(stash, k) \o S
  BY <1>1, <1>2, Parts
<1>5. k \in 0..Len(stash \o S)
  BY <1>1, <1>2, ConcatProperties
<1>6. (stash \o Surfaced(ltQueue))' = Rest(stash, k) \o S
  BY <1>3
<1> QED BY <1>3, <1>4, <1>5, <1>6 DEF Queue!Take

LEMMA PopFreshQueues ==
  ASSUME Answers, PopFresh
  PROVE  Queue!Take
<1> DEFINE pos   == 2 + Bytes(stash)
           S     == Surfaced(ltQueue)
           e     == Emitted(S, pos, sDrainCap)
           out   == Prefix(S, e)
           left  == Rest(S, e)
           k     == Len(stash) + e
<1>1. TypeOK /\ stash \in Seq(Alert) /\ S \in Seq(Alert) /\ got \in Seq(Alert)
  BY HeldType DEF Answers, TypeOK
<1>2. e \in 0..Len(S)
  BY <1>1, EmittedIs
<1>3. got' = got \o stash \o out /\ stash' = left /\ ltQueue' = <<>> /\ lost' \in {lost, 0} /\ UNCHANGED throws
  BY DEF PopFresh, Written, Stashed, Report
<1> HIDE DEF e, S
<1>4. out \in Seq(Alert) /\ left \in Seq(Alert)
  BY <1>1, <1>2, SplitIs
<1> DEFINE q == stash \o S
<1>5. q \in Seq(Alert) /\ Len(q) = Len(stash) + Len(S) /\ k \in 0..Len(q)
  BY <1>1, <1>2, ConcatProperties
<1>6. S = out \o left
  <2>1. \A n \in 0..Len(S) : SubSeq(S, 1, n) \o SubSeq(S, n + 1, Len(S)) = S
    <3>1. ASSUME NEW n \in 0..Len(S) PROVE SubSeq(S, 1, n) \o SubSeq(S, n + 1, Len(S)) = S
      <4>1. 1 \in 1..(Len(S) + 1) /\ n \in (1 - 1)..Len(S) /\ Len(S) \in n..Len(S)
        BY <1>1
      <4>2. SubSeq(S, 1, n) \o SubSeq(S, n + 1, Len(S)) = SubSeq(S, 1, Len(S))
        BY <1>1, <4>1, ConcatAdjacentSubSeq
      <4> QED BY <1>1, <4>2, SubSeqFull
    <3> QED BY <3>1
  <2> QED BY <1>2, <2>1 DEF Prefix, Rest
<1> HIDE DEF out, left
<1>7. q = (stash \o out) \o left
  <2>1. stash \o S = stash \o (out \o left)
    BY <1>6
  <2> QED BY <1>1, <1>4, <2>1, JoinThree
<1>8. Len(stash \o out) = k /\ stash \o out \in Seq(Alert) /\ k \in 0..Len(stash \o out)
  <2>1. Len(out) = e
    BY <1>1, <1>2, SplitIs DEF out
  <2>2. Len(stash \o out) = Len(stash) + Len(out) /\ stash \o out \in Seq(Alert)
    BY <1>1, <1>4, ConcatProperties
  <2>3. Len(stash) \in Nat /\ e \in Nat
    BY <1>1, <1>2
  <2> QED BY <2>1, <2>2, <2>3
<1>9. SubSeq(q, 1, k) = stash \o out /\ SubSeq(q, k + 1, Len(q)) = left
  <2> DEFINE a == stash \o out
  <2>1. a \in Seq(Alert) /\ Len(a) = k /\ k \in 0..Len(a) /\ q = a \o left
    BY <1>7, <1>8
  <2> HIDE DEF a, q, k
  <2>2. SubSeq(q, 1, k) = Prefix(a, k) /\ SubSeq(q, k + 1, Len(q)) = Rest(a, k) \o left
    BY <1>4, <2>1, Parts
  <2>3. Prefix(a, k) = a /\ Rest(a, k) = <<>>
    <3>1. \A x \in Seq(Alert) : SubSeq(x, 1, Len(x)) = x /\ SubSeq(x, Len(x) + 1, Len(x)) = <<>>
      OBVIOUS
    <3> QED BY <2>1, <3>1 DEF Prefix, Rest
  <2>4. <<>> \o left = left
    BY <1>4, ConcatEmptySeq
  <2> QED BY <2>2, <2>3, <2>4 DEF a
<1>10. got' = got \o SubSeq(q, 1, k)
  <2>1. (got \o stash) \o out = got \o (stash \o out)
    BY <1>1, <1>4, JoinThree
  <2> QED BY <1>3, <1>9, <2>1
<1>11. (stash \o Surfaced(ltQueue))' = SubSeq(q, k + 1, Len(q))
  BY <1>3, <1>4, <1>9, SurfacedEmpty, ConcatEmptySeq
<1> QED BY <1>3, <1>5, <1>10, <1>11 DEF Queue!Take, S

(* A poll an exception ends leaves, of the queue, what was stashed of the    *)
(* alerts before the one whose torrent is gone.                             *)
LEMMA PopThrowsQueues ==
  ASSUME Answers, NEW i \in DOMAIN ltQueue, PopThrows(i)
  PROVE  Queue!Fail
<1> DEFINE S     == Surfaced(ltQueue)
           fresh == Surfaced(Prefix(ltQueue, i - 1))
           e     == Emitted(fresh, 2 + Bytes(stash), sDrainCap)
           q     == stash \o S
           j     == Len(stash) + e
           k     == Len(stash) + Len(fresh)
<1>1. TypeOK /\ stash \in Seq(Alert) /\ S \in Seq(Alert) /\ ltQueue \in Seq(Alert)
  BY HeldType DEF Answers, TypeOK
<1>2. /\ stash' = Rest(fresh, e) /\ ltQueue' = <<>> /\ throws' = throws + 1 /\ UNCHANGED <<got, lost>>
  BY DEF PopThrows, Stashed
<1>3. i - 1 \in 0..Len(ltQueue)
  BY <1>1
<1>4. fresh \in Seq(Alert) /\ Starts(fresh, S)
  BY <1>1, <1>3, SurfacedPrefix
<1> HIDE DEF fresh, S
<1>5. e \in 0..Len(fresh)
  BY <1>4, EmittedIs
<1> HIDE DEF e
<1>6. /\ q \in Seq(Alert) /\ Len(q) = Len(stash) + Len(S)
      /\ \A n \in 1..Len(stash) + Len(S) : q[n] = IF n <= Len(stash) THEN stash[n] ELSE S[n - Len(stash)]
  BY <1>1, ConcatProperties
<1> HIDE DEF q
<1>7. Len(stash) \in Nat /\ Len(S) \in Nat /\ Len(fresh) \in Nat /\ e \in Nat /\ e <= Len(fresh)
      /\ Len(fresh) <= Len(S)
  BY <1>1, <1>4, <1>5 DEF Starts
<1>8. j \in 0..Len(q) /\ k \in 0..Len(q)
  BY <1>6, <1>7
<1>9. SubSeq(q, j + 1, k) = Rest(fresh, e)
  <2> DEFINE n == Len(fresh) - e
  <2>1. n \in Nat /\ k = j + n /\ j \in Nat
    BY <1>7
  <2>2. Rest(fresh, e) \in Seq(Alert) /\ Len(Rest(fresh, e)) = n /\ \A m \in 1..n : Rest(fresh, e)[m] = fresh[e + m]
    BY <1>4, <1>5, SplitIs
  <2>3. SubSeq(q, j + 1, k) \in Seq(Alert) /\ Len(SubSeq(q, j + 1, k)) = n
        /\ \A m \in 1..n : SubSeq(q, j + 1, k)[m] = q[j + m]
    <3> HIDE DEF j, k, n
    <3>1. j + n <= Len(q) /\ Len(q) \in Nat
      BY <1>6, <1>8, <2>1
    <3>2. SubSeq(q, j + 1, j + n) \in Seq(Alert) /\ Len(SubSeq(q, j + 1, j + n)) = n
          /\ \A m \in 1..n : SubSeq(q, j + 1, j + n)[m] = q[j + m]
      BY <1>6, <2>1, <3>1, StretchIs
    <3> QED BY <2>1, <3>2
  <2>4. ASSUME NEW m \in 1..n PROVE q[j + m] = fresh[e + m]
    <3>1. e + m \in 1..Len(fresh) /\ j + m \in 1..Len(stash) + Len(S) /\ ~(j + m <= Len(stash))
          /\ (j + m) - Len(stash) = e + m
      BY <1>7
    <3>2. q[j + m] = S[e + m]
      BY <1>6, <3>1
    <3>3. S[e + m] = fresh[e + m]
      BY <1>4, <3>1 DEF Starts
    <3> QED BY <3>2, <3>3
  <2> HIDE DEF j, k, n
  <2>5. \A m \in 1..n : SubSeq(q, j + 1, k)[m] = Rest(fresh, e)[m]
    BY <2>2, <2>3, <2>4
  <2> QED BY <2>2, <2>3, <2>5, SeqEqual
<1>10. (stash \o Surfaced(ltQueue))' = Rest(fresh, e)
  <2>1. Rest(fresh, e) \in Seq(Alert)
    BY <1>4, <1>5, SplitIs
  <2> QED BY <1>2, <2>1, SurfacedEmpty, ConcatEmptySeq
<1> HIDE DEF j, k
<1> QED BY <1>2, <1>8, <1>9, <1>10 DEF Queue!Fail, q, S

LEMMA InitQueues == Init => Queue!Init
<1>1. Init => Surfaced(ltQueue) = <<>>
  BY SurfacedEmpty DEF Init
<1>2. <<>> \o <<>> = <<>>
  OBVIOUS
<1> QED BY <1>1, <1>2 DEF Init, Queue!Init

LEMMA NextQueues == Answers /\ Answers' /\ [Next]_vars => [Queue!Next]_(Queue!vars)
<1> SUFFICES ASSUME Answers, Answers', [Next]_vars PROVE [Queue!Next]_(Queue!vars)
  OBVIOUS
<1>1. CASE UNCHANGED vars
  BY <1>1 DEF vars, Queue!vars
<1>2. ASSUME NEW kind \in Kinds, NEW size \in EntrySizes, NEW t \in Torrents \cup {None},
             Post([n |-> posted + 1, kind |-> kind, size |-> size, torrent |-> t])
      PROVE  [Queue!Next]_(Queue!vars)
  <2> DEFINE a == [n |-> posted + 1, kind |-> kind, size |-> size, torrent |-> t]
  <2>1. posted \in 0..MaxAlerts /\ posted < MaxAlerts /\ MaxAlerts \in Nat
    BY <1>2, AlertAssumption DEF Answers, TypeOK, Post
  <2>2. posted + 1 \in 1..MaxAlerts
    BY <2>1
  <2>3. a \in Alert
    BY <2>2 DEF Alert
  <2> HIDE DEF a
  <2>4. Post(a)
    BY <1>2 DEF a
  <2> QED BY <2>3, <2>4, PostQueues
<1>3. ASSUME NEW t \in Torrents, btRemove(t) PROVE [Queue!Next]_(Queue!vars)
  BY <1>3 DEF btRemove, Queue!vars
<1>4. CASE PopStash
  BY <1>4, PopStashQueues DEF Queue!Next
<1>5. CASE PopFresh
  BY <1>5, PopFreshQueues DEF Queue!Next
<1>6. ASSUME NEW i \in DOMAIN ltQueue, PopThrows(i) PROVE [Queue!Next]_(Queue!vars)
  BY <1>6, PopThrowsQueues DEF Queue!Next
<1> QED BY <1>1, <1>2, <1>3, <1>4, <1>5, <1>6 DEF Next

(* The alert stream is the queue LossyQueue promises: across the stash, the  *)
(* boundary of two buffers and libtorrent's overflow alerts are taken in     *)
(* order, each once, and a loss is counted until it is reported; only a poll *)
(* an exception ends takes alerts along (btx_pop_alerts, emit_alert,         *)
(* extract_alert, BTX_GUARD).                                                *)
THEOREM DrainImplementsQueue == Spec => ImplementsQueue
<1>1. Spec => []Answers
  BY AnswersCorrect
<1> QED BY <1>1, InitQueues, NextQueues, PTL DEF Spec, ImplementsQueue, Queue!Spec

=============================================================================
