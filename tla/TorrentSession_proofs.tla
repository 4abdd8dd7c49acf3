------------------------ MODULE TorrentSession_proofs ------------------------
(***************************************************************************)
(* Theorems about sessions and torrent ids, for any capacity, generation   *)
(* limit, number of torrents, sessions, adds and alerts:                   *)
(*   SessionsCorrect  the latch, the session table, the torrent table and  *)
(*                    the reverse map agree                                *)
(*   IdsCorrect       an id never reaches another torrent than its own, as *)
(*                    long as no more than GenMax adds were made           *)
(*   StaleCorrect     once the removed event is drained no id reaches the  *)
(*                    torrent                                              *)
(*   CountCorrect     the count is the number of torrents, when each has   *)
(*                    a slot                                               *)
(*                                                                         *)
(* The machine is reasoned about through three lemmas on the handle table: *)
(* as a map from live handles to objects, alloc adds a handle that was not *)
(* live, free takes one away, and neither touches another (AllocMap,       *)
(* FreeMap, EmptyMap).                                                     *)
(***************************************************************************)
EXTENDS TorrentSession, SequenceTheorems, FiniteSetTheorems, TLAPS

-----------------------------------------------------------------------------
(* Handles and their two parts.                                            *)
Handles == {encode(g, i) : g \in 1..GenMax, i \in Index}

LEMMA Decode ==
  ASSUME NEW g \in 1..GenMax, NEW i \in Index
  PROVE  /\ encode(g, i) \in Handles /\ encode(g, i) \in Nat /\ encode(g, i) > 0
         /\ decode_gen(encode(g, i)) = g /\ decode_idx(encode(g, i)) = i
<1>1. g \in Int /\ 1 <= g /\ g <= 32767 /\ i \in Int /\ 0 <= i /\ i < 65536
  BY GenMaxAssumption, CapacityAssumption DEF Index, Span
<1>2. (g * 65536 + i) % 65536 = i
  BY <1>1
<1>3. (g * 65536 + i) \div 65536 = g
  BY <1>1
<1>4. g % 32768 = g
  BY <1>1
<1>5. g * 65536 + i \in Nat /\ g * 65536 + i > 0
  BY <1>1
<1> QED
  BY <1>2, <1>3, <1>4, <1>5 DEF Handles, encode, decode_gen, decode_idx, Span

LEMMA HandleParts ==
  ASSUME NEW h \in Handles
  PROVE  /\ decode_gen(h) \in 1..GenMax /\ decode_idx(h) \in Index
         /\ h = encode(decode_gen(h), decode_idx(h))
         /\ h \in Nat /\ h > 0
<1>1. PICK g \in 1..GenMax, i \in Index : h = encode(g, i)
  BY DEF Handles
<1> QED
  BY <1>1, Decode

-----------------------------------------------------------------------------
(* A sound table: well-formed slots, and a free stack that lists the used  *)
(* dead slots, once each. A slot not used yet is empty.                    *)
TableSound(t, Obj) ==
  /\ t \in Table(Obj)
  /\ \A i \in Index : t.slots[i].live => t.slots[i].gen >= 1
  /\ \A i \in Index : i >= t.size => t.slots[i] = EmptySlot
  /\ \A j, k \in 1..Len(t.free) : t.free[j] = t.free[k] => j = k
  /\ \A k \in 1..Len(t.free) : t.free[k] < t.size /\ ~t.slots[t.free[k]].live
  /\ \A i \in Index : i < t.size /\ ~t.slots[i].live => \E k \in 1..Len(t.free) : t.free[k] = i

LEMMA TableTypes ==
  ASSUME NEW Obj, NEW t \in Table(Obj)
  PROVE  /\ t.size \in 0..Capacity /\ t.size \in Int /\ t.count \in Int
         /\ t.free \in Seq(Index) /\ Len(t.free) \in Nat
         /\ \A k \in 1..Len(t.free) : t.free[k] \in Index
         /\ t.slots \in [Index -> Slot(Obj)]
         /\ \A i \in Index : /\ t.slots[i].gen \in Gen /\ t.slots[i].gen \in Nat
                             /\ t.slots[i].live \in BOOLEAN /\ t.slots[i].obj \in Obj \cup {None}
<1>1. t.size \in 0..Capacity /\ t.count \in Int /\ t.free \in Seq(Index) /\ t.slots \in [Index -> Slot(Obj)]
  BY DEF Table
<1>2. \A i \in Index : /\ t.slots[i].gen \in Gen
                       /\ t.slots[i].live \in BOOLEAN /\ t.slots[i].obj \in Obj \cup {None}
  BY <1>1 DEF Slot
<1>3. t.size \in Int /\ \A i \in Index : t.slots[i].gen \in Nat
  BY <1>1, <1>2, CapacityAssumption, GenMaxAssumption DEF Gen
<1> QED
  BY <1>1, <1>2, <1>3, LenProperties, ElementOfSeq

LEMMA EmptySound ==
  ASSUME NEW Obj
  PROVE  TableSound(EmptyTable, Obj)
<1>1. EmptySlot \in Slot(Obj)
  <2>1. 0 \in Gen /\ None \in Obj \cup {None} /\ FALSE \in BOOLEAN
    BY GenMaxAssumption DEF Gen
  <2> QED BY <2>1 DEF EmptySlot, Slot
<1>2. << >> \in Seq(Index) /\ Len(<< >>) = 0
  BY EmptySeq
<1>3. 0 \in 0..Capacity
  BY CapacityAssumption
<1>4. EmptyTable \in Table(Obj)
  BY <1>1, <1>2, <1>3 DEF EmptyTable, Table
<1>5. \A i \in Index : EmptyTable.slots[i] = EmptySlot /\ ~EmptyTable.slots[i].live
  BY DEF EmptyTable, EmptySlot
<1>6. EmptyTable.size = 0 /\ EmptyTable.free = << >>
  BY DEF EmptyTable
<1>7. \A i \in Index : ~(i < 0)
  BY CapacityAssumption DEF Index
<1> QED
  BY <1>2, <1>4, <1>5, <1>6, <1>7 DEF TableSound

(* alloc takes a slot that is dead, or the next one, and fills it.          *)
LEMMA AllocSlot ==
  ASSUME NEW Obj, NEW t, TableSound(t, Obj), NEW o \in Obj, ~IsFull(t)
  PROVE  LET i == AllocIndex(t)  u == AllocTable(t, o) IN
         /\ i \in Index /\ ~t.slots[i].live /\ AllocGen(t) \in 1..GenMax
         /\ i < t.size => AllocGen(t) = t.slots[i].gen \/ t.slots[i].gen = 0
         /\ AllocHandle(t) = encode(AllocGen(t), i)
         /\ u = [slots |-> [t.slots EXCEPT ![i] = [obj |-> o, gen |-> AllocGen(t), live |-> TRUE]],
                 size  |-> IF t.free # << >> THEN t.size ELSE t.size + 1,
                 free  |-> IF t.free # << >> THEN Pop(t.free) ELSE t.free,
                 count |-> t.count + 1]
         /\ t.free # << >> => i = t.free[Len(t.free)] /\ Len(t.free) \in Nat \ {0} /\ i < t.size
         /\ t.free = << >> => i = t.size
<1> DEFINE i == AllocIndex(t)
<1>1. t \in Table(Obj)
  BY DEF TableSound
<1>2. CASE t.free # << >>
  <2>1. Len(t.free) \in Nat \ {0} /\ i = t.free[Len(t.free)]
    BY <1>1, <1>2, TableTypes, EmptySeq DEF AllocIndex
  <2>2. i \in Index /\ ~t.slots[i].live /\ i < t.size
    BY <1>1, <2>1, TableTypes DEF TableSound
  <2> QED
    BY <1>1, <1>2, <2>1, <2>2, TableTypes, GenMaxAssumption DEF AllocGen, AllocHandle, AllocTable, Gen
<1>3. CASE t.free = << >>
  <2>1. i = t.size /\ t.size # Capacity
    BY <1>3 DEF AllocIndex, IsFull
  <2>2. i \in Index
    BY <1>1, <2>1, TableTypes, CapacityAssumption DEF Index
  <2>3. t.slots[i] = EmptySlot
    BY <1>1, <2>1, <2>2, TableTypes DEF TableSound
  <2> QED
    BY <1>1, <1>3, <2>1, <2>2, <2>3, TableTypes, GenMaxAssumption
    DEF AllocGen, AllocHandle, AllocTable, EmptySlot, Gen
<1> QED BY <1>2, <1>3

LEMMA PopStack ==
  ASSUME NEW s \in Seq(Index), s # << >>
  PROVE  /\ Pop(s) \in Seq(Index)
         /\ Len(Pop(s)) = Len(s) - 1
         /\ \A k \in 1..(Len(s) - 1) : Pop(s)[k] = s[k]
<1>1. Len(s) \in Nat \ {0} /\ \A k \in 1..Len(s) : s[k] \in Index
  BY EmptySeq, ElementOfSeq
<1>2. /\ Pop(s) \in Seq(Index)
      /\ Len(Pop(s)) = IF 1 <= Len(s) - 1 THEN Len(s) - 1 - 1 + 1 ELSE 0
      /\ \A k \in 1..(Len(s) - 1 - 1 + 1) : Pop(s)[k] = s[1 + k - 1]
  BY <1>1, SubSeqProperties DEF Pop
<1>3. Len(Pop(s)) = Len(s) - 1
  <2>1. \A n \in Nat \ {0} : (IF 1 <= n - 1 THEN n - 1 - 1 + 1 ELSE 0) = n - 1
    OBVIOUS
  <2> QED BY <1>1, <1>2, <2>1
<1>4. \A k \in 1..(Len(s) - 1) : Pop(s)[k] = s[k]
  <2> TAKE k \in 1..(Len(s) - 1)
  <2>1. Len(s) - 1 - 1 + 1 = Len(s) - 1 /\ 1 + k - 1 = k
    BY <1>1
  <2> QED BY <1>2, <2>1
<1> QED
  BY <1>2, <1>3, <1>4

LEMMA AllocSound ==
  ASSUME NEW Obj, NEW t, TableSound(t, Obj), NEW o \in Obj
  PROVE  TableSound(AllocTable(t, o), Obj)
<1>1. CASE IsFull(t)
  BY <1>1 DEF AllocTable
<1>2. CASE ~IsFull(t)
  <2> DEFINE i == AllocIndex(t)
             u == AllocTable(t, o)
             slot == [obj |-> o, gen |-> AllocGen(t), live |-> TRUE]
  <2>0. t \in Table(Obj)
    BY DEF TableSound
  <2>1. /\ i \in Index /\ ~t.slots[i].live /\ AllocGen(t) \in 1..GenMax
        /\ u = [slots |-> [t.slots EXCEPT ![i] = slot],
                size  |-> IF t.free # << >> THEN t.size ELSE t.size + 1,
                free  |-> IF t.free # << >> THEN Pop(t.free) ELSE t.free,
                count |-> t.count + 1]
        /\ t.free # << >> => i = t.free[Len(t.free)] /\ Len(t.free) \in Nat \ {0} /\ i < t.size
        /\ t.free = << >> => i = t.size
    BY <1>2, AllocSlot
  <2>2. slot \in Slot(Obj)
    BY <2>1, GenMaxAssumption DEF Slot, Gen
  <2>3. u.slots \in [Index -> Slot(Obj)] /\ u.count \in Int
    BY <2>0, <2>1, <2>2, TableTypes
  <2>4. /\ u.slots[i] = slot
        /\ \A j \in Index : j # i => u.slots[j] = t.slots[j]
    BY <2>0, <2>1, TableTypes
  <2> HIDE DEF i, u
  <2>5. CASE t.free # << >>
    <3>1. /\ u.free \in Seq(Index) /\ u.size = t.size
          /\ Len(u.free) = Len(t.free) - 1 /\ Len(t.free) \in Nat \ {0}
          /\ \A k \in 1..(Len(t.free) - 1) : u.free[k] = t.free[k] /\ t.free[k] \in Index
      BY <2>0, <2>1, <2>5, PopStack, TableTypes
    <3>2. \A k \in 1..(Len(t.free) - 1) : t.free[k] # i
      BY <2>1, <2>5, <3>1 DEF TableSound
    <3>3. u \in Table(Obj)
      BY <2>0, <2>1, <2>3, <3>1, TableTypes DEF Table
    <3>4. \A j, k \in 1..Len(u.free) : u.free[j] = u.free[k] => j = k
      BY <3>1 DEF TableSound
    <3>5. \A k \in 1..Len(u.free) : u.free[k] < u.size /\ ~u.slots[u.free[k]].live
      <4> TAKE k \in 1..Len(u.free)
      <4>1. k \in 1..(Len(t.free) - 1) /\ k \in 1..Len(t.free)
        BY <3>1
      <4>2. u.free[k] = t.free[k] /\ t.free[k] # i /\ t.free[k] \in Index
        BY <3>1, <3>2, <4>1
      <4>3. t.free[k] < t.size /\ ~t.slots[t.free[k]].live
        BY <4>1 DEF TableSound
      <4> QED BY <2>4, <3>1, <4>2, <4>3
    <3>6. \A j \in Index : j < u.size /\ ~u.slots[j].live => \E k \in 1..Len(u.free) : u.free[k] = j
      <4> SUFFICES ASSUME NEW j \in Index, j < u.size, ~u.slots[j].live
                   PROVE  \E k \in 1..Len(u.free) : u.free[k] = j
        OBVIOUS
      <4>1. j # i /\ ~t.slots[j].live /\ j < t.size
        BY <2>4, <3>1
      <4>2. PICK k \in 1..Len(t.free) : t.free[k] = j
        BY <4>1 DEF TableSound
      <4>3. k \in 1..(Len(t.free) - 1)
        BY <4>1, <4>2, <2>1, <2>5, <3>1
      <4> QED BY <4>2, <4>3, <3>1
    <3>7. \A j \in Index : j >= u.size => u.slots[j] = EmptySlot
      BY <2>0, <2>1, <2>4, <2>5, <3>1, TableTypes DEF TableSound, Index
    <3>8. \A j \in Index : u.slots[j].live => u.slots[j].gen >= 1
      BY <2>1, <2>4 DEF TableSound
    <3> QED
      BY <3>3, <3>4, <3>5, <3>6, <3>7, <3>8 DEF TableSound, u
  <2>6. CASE t.free = << >>
    <3>1. u.free = << >> /\ u.size = t.size + 1 /\ i = t.size /\ Len(u.free) = 0 /\ Len(t.free) = 0
      BY <2>1, <2>6, EmptySeq
    <3>2. u \in Table(Obj)
      <4>1. u.size \in 0..Capacity
        BY <2>0, <2>1, <3>1, TableTypes, CapacityAssumption DEF Index
      <4> QED BY <2>0, <2>1, <2>3, <3>1, <4>1, EmptySeq DEF Table
    <3>3. \A j \in Index : j < u.size => u.slots[j].live
      BY <2>0, <2>4, <3>1, TableTypes DEF TableSound, Index
    <3>4. \A j \in Index : j >= u.size => u.slots[j] = EmptySlot
      BY <2>0, <2>4, <3>1, TableTypes DEF TableSound, Index
    <3>5. \A j \in Index : u.slots[j].live => u.slots[j].gen >= 1
      BY <2>1, <2>4 DEF TableSound
    <3> QED
      BY <3>1, <3>2, <3>3, <3>4, <3>5 DEF TableSound, u
  <2> QED BY <2>5, <2>6
<1> QED BY <1>1, <1>2

(* free empties a live slot and puts it on the stack; its generation moves  *)
(* on, or wraps.                                                           *)
LEMMA FreeSound ==
  ASSUME NEW Obj, NEW t, TableSound(t, Obj), NEW h \in Handles \cup {0}
  PROVE  TableSound(FreeTable(t, h), Obj)
<1>1. CASE ~IsLive(t, h)
  BY <1>1 DEF FreeTable
<1>2. CASE IsLive(t, h)
  <2> DEFINE i == decode_idx(h)
             u == FreeTable(t, h)
             slot == [obj |-> None, gen |-> NextGen(t.slots[i].gen), live |-> FALSE]
  <2>0. t \in Table(Obj) /\ Len(t.free) \in Nat
    BY TableTypes DEF TableSound
  <2>1. i \in Index /\ i < t.size /\ t.slots[i].live
    <3>1. h \in Handles
      BY <1>2 DEF IsLive
    <3> QED BY <1>2, <3>1, HandleParts DEF IsLive
  <2>2. u = [slots |-> [t.slots EXCEPT ![i] = slot], size |-> t.size,
             free |-> Append(t.free, i), count |-> t.count - 1]
    BY <1>2 DEF FreeTable
  <2>3. slot \in Slot(Obj)
    <3>1. NextGen(t.slots[i].gen) \in Gen
      BY <2>0, <2>1, TableTypes, GenMaxAssumption DEF NextGen, Gen
    <3> QED BY <3>1 DEF Slot
  <2>4. /\ u.slots[i] = slot
        /\ \A j \in Index : j # i => u.slots[j] = t.slots[j]
    BY <2>0, <2>1, <2>2, TableTypes
  <2>5. /\ u.free \in Seq(Index) /\ Len(u.free) = Len(t.free) + 1
        /\ u.free[Len(t.free) + 1] = i
        /\ \A k \in 1..Len(t.free) : u.free[k] = t.free[k] /\ t.free[k] \in Index
    BY <2>0, <2>1, <2>2, TableTypes, AppendProperties
  <2>6. u \in Table(Obj)
    BY <2>0, <2>1, <2>2, <2>3, <2>5, TableTypes DEF Table
  <2>7. \A k \in 1..Len(t.free) : t.free[k] # i
    BY <2>1 DEF TableSound
  <2>8. \A j, k \in 1..Len(u.free) : u.free[j] = u.free[k] => j = k
    <3> SUFFICES ASSUME NEW j \in 1..Len(u.free), NEW k \in 1..Len(u.free), u.free[j] = u.free[k]
                 PROVE  j = k
      OBVIOUS
    <3>1. CASE j \in 1..Len(t.free) /\ k \in 1..Len(t.free)
      BY <2>5, <3>1 DEF TableSound
    <3>2. CASE j = Len(t.free) + 1 \/ k = Len(t.free) + 1
      BY <2>0, <2>5, <2>7, <3>2
    <3> QED BY <2>0, <2>5, <3>1, <3>2
  <2>9. \A k \in 1..Len(u.free) : u.free[k] < u.size /\ ~u.slots[u.free[k]].live
    <3> SUFFICES ASSUME NEW k \in 1..Len(u.free) PROVE u.free[k] < u.size /\ ~u.slots[u.free[k]].live
      OBVIOUS
    <3>1. CASE k \in 1..Len(t.free)
      BY <2>2, <2>4, <2>5, <2>7, <3>1 DEF TableSound
    <3>2. CASE k = Len(t.free) + 1
      BY <2>1, <2>2, <2>4, <2>5, <3>2
    <3> QED BY <2>0, <2>5, <3>1, <3>2
  <2>10. \A j \in Index : j < u.size /\ ~u.slots[j].live => \E k \in 1..Len(u.free) : u.free[k] = j
    <3> SUFFICES ASSUME NEW j \in Index, j < u.size, ~u.slots[j].live
                 PROVE  \E k \in 1..Len(u.free) : u.free[k] = j
      OBVIOUS
    <3>1. CASE j = i
      BY <2>0, <2>5, <3>1
    <3>2. CASE j # i
      <4>1. PICK k \in 1..Len(t.free) : t.free[k] = j
        BY <2>2, <2>4, <3>2 DEF TableSound
      <4> QED BY <2>0, <2>5, <4>1
    <3> QED BY <3>1, <3>2
  <2>11. \A j \in Index : j >= u.size => u.slots[j] = EmptySlot
    BY <2>0, <2>1, <2>2, <2>4, TableTypes DEF TableSound, Index
  <2>12. \A j \in Index : u.slots[j].live => u.slots[j].gen >= 1
    BY <2>4 DEF TableSound
  <2> QED
    BY <2>6, <2>8, <2>9, <2>10, <2>11, <2>12 DEF TableSound
<1> QED BY <1>1, <1>2

-----------------------------------------------------------------------------
(* The table as a map from its live handles to objects.                    *)
LEMMA LiveParts ==
  ASSUME NEW Obj, NEW t, TableSound(t, Obj), NEW h \in Handles
  PROVE  /\ IsLive(t, h) <=> /\ decode_idx(h) < t.size /\ t.slots[decode_idx(h)].live
                             /\ t.slots[decode_idx(h)].gen = decode_gen(h)
         /\ ~IsLive(t, 0)
  BY HandleParts DEF IsLive

(* Two live handles of one slot are one handle.                             *)
LEMMA OneHandlePerSlot ==
  ASSUME NEW t, NEW h \in Handles, NEW k \in Handles, IsLive(t, h), IsLive(t, k),
         decode_idx(h) = decode_idx(k)
  PROVE  h = k
<1>1. decode_gen(h) = decode_gen(k)
  BY DEF IsLive
<1> QED BY <1>1, HandleParts

LEMMA EmptyMap ==
  ASSUME NEW h \in Handles
  PROVE  ~IsLive(EmptyTable, h) /\ Get(EmptyTable, h) = None
<1>1. decode_idx(h) \in Index /\ EmptyTable.size = 0
  BY HandleParts DEF EmptyTable
<1>2. ~(decode_idx(h) < 0)
  BY <1>1, CapacityAssumption DEF Index
<1> QED BY <1>1, <1>2 DEF IsLive, Get

(* What a live handle names is an object.                                   *)
LEMMA GetType ==
  ASSUME NEW Obj, NEW t, TableSound(t, Obj), NEW h \in Handles
  PROVE  Get(t, h) \in Obj \cup {None}
  BY HandleParts, TableTypes DEF Get, TableSound

LEMMA AllocMap ==
  ASSUME NEW Obj, NEW t, TableSound(t, Obj), NEW o \in Obj, ~IsFull(t)
  PROVE  LET n == AllocHandle(t)  u == AllocTable(t, o) IN
         /\ n \in Handles /\ ~IsLive(t, n) /\ IsLive(u, n) /\ Get(u, n) = o
         /\ \A h \in Handles : h # n => (IsLive(u, h) <=> IsLive(t, h)) /\ Get(u, h) = Get(t, h)
         /\ u.count = t.count + 1
<1> DEFINE i == AllocIndex(t)
           n == AllocHandle(t)
           u == AllocTable(t, o)
           slot == [obj |-> o, gen |-> AllocGen(t), live |-> TRUE]
<1>1. /\ i \in Index /\ ~t.slots[i].live /\ AllocGen(t) \in 1..GenMax
      /\ n = encode(AllocGen(t), i)
      /\ u = [slots |-> [t.slots EXCEPT ![i] = slot],
              size  |-> IF t.free # << >> THEN t.size ELSE t.size + 1,
              free  |-> IF t.free # << >> THEN Pop(t.free) ELSE t.free,
              count |-> t.count + 1]
      /\ t.free # << >> => i < t.size
      /\ t.free = << >> => i = t.size
  BY AllocSlot
<1>2. n \in Handles /\ n > 0 /\ decode_gen(n) = AllocGen(t) /\ decode_idx(n) = i
  BY <1>1, Decode
<1>3. t \in Table(Obj) /\ t.size \in Int /\ i \in Int
  BY <1>1, TableTypes DEF TableSound, Index
<1> HIDE DEF i
<1>4. /\ u.slots[i] = slot /\ u.count = t.count + 1 /\ i < u.size
      /\ \A j \in Index : j # i => u.slots[j] = t.slots[j] /\ (j < u.size <=> j < t.size)
  <2>1. u.slots = [t.slots EXCEPT ![i] = slot] /\ u.count = t.count + 1
        /\ u.size = IF t.free # << >> THEN t.size ELSE t.size + 1
    BY <1>1
  <2>2. u.slots[i] = slot /\ \A j \in Index : j # i => u.slots[j] = t.slots[j]
    BY <1>1, <1>3, <2>1, TableTypes
  <2>3. i < u.size /\ \A j \in Index : j # i => (j < u.size <=> j < t.size)
    BY <1>1, <1>3, <2>1 DEF Index
  <2> QED BY <2>1, <2>2, <2>3
<1> HIDE DEF n, u
<1>5. ~IsLive(t, n) /\ IsLive(u, n) /\ Get(u, n) = o
  BY <1>1, <1>2, <1>4 DEF IsLive, Get
<1>6. ASSUME NEW h \in Handles, h # n
      PROVE  (IsLive(u, h) <=> IsLive(t, h)) /\ Get(u, h) = Get(t, h)
  <2>1. CASE decode_idx(h) = i
    <3>1. ~IsLive(t, h)
      BY <1>1, <2>1 DEF IsLive
    <3>2. ~IsLive(u, h)
      BY <1>2, <1>5, <1>6, <2>1, OneHandlePerSlot
    <3> QED BY <3>1, <3>2 DEF Get
  <2>2. CASE decode_idx(h) # i
    BY <1>4, <1>6, <2>2, HandleParts DEF IsLive, Get
  <2> QED BY <2>1, <2>2
<1> QED
  BY <1>2, <1>4, <1>5, <1>6 DEF n, u

LEMMA FreeMap ==
  ASSUME NEW Obj, NEW t, TableSound(t, Obj), NEW f \in Handles, IsLive(t, f)
  PROVE  LET u == FreeTable(t, f) IN
         /\ ~IsLive(u, f)
         /\ \A h \in Handles : h # f => (IsLive(u, h) <=> IsLive(t, h)) /\ Get(u, h) = Get(t, h)
         /\ u.count = t.count - 1
<1> DEFINE i == decode_idx(f)
           u == FreeTable(t, f)
           slot == [obj |-> None, gen |-> NextGen(t.slots[i].gen), live |-> FALSE]
<1>1. u = [slots |-> [t.slots EXCEPT ![i] = slot], size |-> t.size,
           free |-> Append(t.free, i), count |-> t.count - 1]
  BY DEF FreeTable
<1>2. i \in Index /\ t \in Table(Obj)
  BY HandleParts DEF TableSound
<1>3. /\ u.slots[i] = slot /\ u.count = t.count - 1 /\ u.size = t.size
      /\ \A j \in Index : j # i => u.slots[j] = t.slots[j]
  BY <1>1, <1>2, TableTypes
<1> HIDE DEF i, u
<1>4. ~IsLive(u, f)
  BY <1>3 DEF IsLive, i
<1>5. ASSUME NEW h \in Handles, h # f
      PROVE  (IsLive(u, h) <=> IsLive(t, h)) /\ Get(u, h) = Get(t, h)
  <2>1. CASE decode_idx(h) = i
    <3>1. ~IsLive(t, h)
      BY <1>5, <2>1, OneHandlePerSlot DEF i
    <3>2. ~IsLive(u, h)
      BY <1>3, <2>1 DEF IsLive
    <3> QED BY <3>1, <3>2 DEF Get
  <2>2. CASE decode_idx(h) # i
    BY <1>3, <1>5, <2>2, HandleParts DEF IsLive, Get
  <2> QED BY <2>1, <2>2
<1> QED
  BY <1>3, <1>4, <1>5 DEF u

(* collect_live lists the handles that are live.                            *)
LEMMA CollectLiveMap ==
  ASSUME NEW Obj, NEW t, TableSound(t, Obj)
  PROVE  CollectLive(t) = {h \in Handles : IsLive(t, h)}
<1> USE DEF TableSound
<1>1. ASSUME NEW i \in LiveIndices(t)
      PROVE  /\ encode(t.slots[i].gen, i) \in Handles /\ IsLive(t, encode(t.slots[i].gen, i))
  <2>1. i \in Index /\ i < t.size /\ t.slots[i].live /\ t.slots[i].gen \in 1..GenMax
    BY <1>1, TableTypes, GenMaxAssumption DEF LiveIndices, Gen
  <2> QED BY <2>1, Decode DEF IsLive
<1>2. ASSUME NEW h \in Handles, IsLive(t, h)
      PROVE  decode_idx(h) \in LiveIndices(t) /\ h = encode(t.slots[decode_idx(h)].gen, decode_idx(h))
  BY <1>2, HandleParts DEF IsLive, LiveIndices
<1> QED
  BY <1>1, <1>2 DEF CollectLive

-----------------------------------------------------------------------------
(* The shim's books: sound tables, one live session that the latch names,  *)
(* a reverse map of live ids. While no poll runs nothing is in its locals, *)
(* and a poll is of a live session.                                        *)
Books ==
  /\ TableSound(sessions, 1..MaxSessions) /\ TableSound(torrents, Tid)
  /\ gLive # 0 => gLive \in Handles /\ IsLive(sessions, gLive) /\ sessionsMade >= 1
  /\ \A h \in Handles : IsLive(sessions, h) => h = gLive
  /\ \A x \in Tid : idOf[x] # 0 => /\ idOf[x] \in Handles /\ IsLive(torrents, idOf[x])
                                   /\ Get(torrents, idOf[x]) = x
  /\ \A p \in issued : p.id \in Handles
  /\ sessionsMade \in 0..MaxSessions /\ adds \in 0..MaxAdds
  /\ ~polling => out = << >> /\ batch = << >>
  /\ polling => gLive # 0

(* The latch, once more: whether a session is live is whether it is set.   *)
LEMMA LatchMeaning ==
  ASSUME Books
  PROVE  /\ session_for(gLive) <=> gLive # 0
         /\ \A s \in MadeSessions : session_for(s) => s = gLive
<1>1. ~IsLive(sessions, 0)
  BY DEF IsLive
<1> QED BY <1>1 DEF Books, session_for, MadeSessions, Handles

(* A call that resolves a torrent id acts on a live handle.                 *)
LEMMA ResolveMeaning ==
  ASSUME Books, NEW t \in Handles, torrent_only(t) # None
  PROVE  /\ IsLive(torrents, t) /\ gLive # 0
         /\ torrent_only(t) = Get(torrents, t) /\ torrent_only(t) \in Tid
         /\ is_valid(torrent_only(t))
<1>1. session_for(gLive) /\ IsLive(torrents, t) /\ is_valid(Get(torrents, t)) /\ torrent_only(t) = Get(torrents, t)
  BY DEF torrent_only
<1>2. Get(torrents, t) \in Tid \cup {None}
  BY GetType DEF Books
<1> QED BY <1>1, <1>2, LatchMeaning

LEMMA FreshBooks ==
  ASSUME FreshState
  PROVE  /\ TableSound(torrents', Tid) /\ idOf' = [x \in Tid |-> 0]
         /\ torrents' = EmptyTable /\ stash' = << >> /\ ltQueue' = << >>
  BY EmptySound DEF FreshState

(* One by one: what an action does to the shim's books.                    *)
LEMMA InitBooks == Init => TypeOK /\ Books
<1> SUFFICES ASSUME Init PROVE TypeOK /\ Books
  OBVIOUS
<1> USE SessionAssumption
<1>1. TableSound(sessions, 1..MaxSessions) /\ TableSound(torrents, Tid)
  BY EmptySound DEF Init
<1>2. sessions \in Table(1..MaxSessions) /\ torrents \in Table(Tid)
  BY <1>1 DEF TableSound
<1>3. \A h \in Handles : ~IsLive(sessions, h)
  BY EmptyMap DEF Init
<1>4. TypeOK
  <2>1. << >> \in Seq(Entry) /\ << >> \in Seq(RawAlert)
    BY EmptySeq
  <2>2. idOf \in [Tid -> Nat] /\ engine \in [Tid -> {"none", "live", "removing", "removed", "expired"}]
    BY DEF Init
  <2> QED BY <1>2, <2>1, <2>2 DEF Init, TypeOK
<1>5. Books
  BY <1>1, <1>3 DEF Init, Books
<1> QED BY <1>4, <1>5

LEMMA SessionNewStep ==
  ASSUME TypeOK, Books, SessionNew
  PROVE  /\ TypeOK' /\ Books'
         /\ sessionsMade' = sessionsMade + 1 /\ torrents' = EmptyTable /\ gLive = 0 /\ gLive' # 0
<1> USE SessionAssumption
<1>1. gLive = 0 /\ \A h \in Handles : ~IsLive(sessions, h)
  BY LatchMeaning, HandleParts DEF SessionNew, Books
<1>2. sessionsMade + 1 \in 1..MaxSessions /\ sessionsMade' = sessionsMade + 1
  BY DEF SessionNew, Books
<1>3. /\ TableSound(sessions', 1..MaxSessions)
      /\ gLive' \in Handles /\ gLive' # 0 /\ IsLive(sessions', gLive')
      /\ \A h \in Handles : h # gLive' => ~IsLive(sessions', h)
  BY <1>1, <1>2, AllocMap, AllocSound, HandleParts DEF SessionNew, Books
<1>4. TableSound(torrents', Tid) /\ idOf' = [x \in Tid |-> 0] /\ torrents' = EmptyTable /\ stash' = << >> /\ ltQueue' = << >>
  BY FreshBooks DEF SessionNew
<1>5. gLive' \in Nat /\ sessions' \in Table(1..MaxSessions) /\ torrents' \in Table(Tid)
  BY <1>3, <1>4, HandleParts DEF TableSound
<1>6. TypeOK'
  BY <1>4, <1>5 DEF SessionNew, popVars, engineVars, histVars, TypeOK
<1>7. Books'
  BY <1>2, <1>3, <1>4 DEF SessionNew, popVars, engineVars, histVars, Books
<1> QED BY <1>1, <1>2, <1>3, <1>4, <1>6, <1>7

LEMMA SessionFreeStep ==
  ASSUME TypeOK, Books, NEW s \in MadeSessions, SessionFree(s)
  PROVE  /\ TypeOK' /\ Books' /\ issued' = issued /\ sessionsMade' = sessionsMade
         /\ \/ /\ gLive' = 0 /\ torrents' = EmptyTable /\ stash' = << >>
               /\ engine' = [x \in Tid |-> IF engine[x] = "none" THEN "none" ELSE "expired"]
            \/ gLive' = gLive /\ UNCHANGED <<torrents, idOf, stash, engine, ltQueue>>
<1> USE SessionAssumption
<1>0. UNCHANGED <<polling, batch, out, stashing, hash, adds, posted, sessionsMade, issued, gone, tame>>
  BY DEF SessionFree, popVars, boundVars, histVars
<1>1. CASE session_for(s)
  <2>1. s = gLive /\ gLive # 0 /\ gLive' = 0 /\ ~polling
    BY <1>1, LatchMeaning DEF SessionFree
  <2>2. gLive \in Handles /\ IsLive(sessions, gLive)
    BY <2>1 DEF Books
  <2>3. sessions' = FreeTable(sessions, gLive)
    BY <1>1, <2>1 DEF SessionFree
  <2>4. TableSound(sessions', 1..MaxSessions) /\ \A h \in Handles : ~IsLive(sessions', h)
    BY <2>2, <2>3, FreeSound, FreeMap DEF Books
  <2>5. /\ TableSound(torrents', Tid) /\ idOf' = [x \in Tid |-> 0] /\ torrents' = EmptyTable
        /\ stash' = << >> /\ ltQueue' = << >>
        /\ engine' = [x \in Tid |-> IF engine[x] = "none" THEN "none" ELSE "expired"]
    BY <1>1, FreshBooks DEF SessionFree
  <2>6. sessions' \in Table(1..MaxSessions) /\ torrents' \in Table(Tid)
    BY <2>4, <2>5 DEF TableSound
  <2>7. TypeOK'
    BY <1>0, <2>1, <2>5, <2>6 DEF TypeOK
  <2>8. Books'
    BY <1>0, <2>1, <2>4, <2>5 DEF Books
  <2> QED BY <1>0, <2>1, <2>5, <2>7, <2>8
<1>2. CASE ~session_for(s)
  <2>1. UNCHANGED <<sessions, engine, torrents, idOf, stash, ltQueue>>
    BY <1>2 DEF SessionFree, stateVars
  <2>2. gLive' = gLive
    <3>1. s # gLive \/ gLive = 0
      BY <1>2, LatchMeaning
    <3> QED BY <3>1 DEF SessionFree
  <2> QED BY <1>0, <2>1, <2>2 DEF TypeOK, Books
<1> QED BY <1>1, <1>2

LEMMA AddStep ==
  ASSUME TypeOK, Books, NEW h \in Hashes, Add(h)
  PROVE  TypeOK' /\ Books'
<1> USE SessionAssumption
<1>0. UNCHANGED <<sessions, gLive, stash, polling, batch, out, stashing, hash, posted, sessionsMade, gone>>
  BY DEF Add, shimVars, popVars
<1>1. PICK x \in Added(h) :
        /\ engine' = [engine EXCEPT ![x] = "live"]
        /\ ltQueue' = Append(ltQueue, [kind |-> "added", tid |-> x])
        /\ torrents' = AllocTable(torrents, x)
        /\ IF IsFull(torrents)
           THEN UNCHANGED <<idOf, issued>>
           ELSE /\ idOf' = [idOf EXCEPT ![x] = AllocHandle(torrents)]
                /\ issued' = issued \cup {[id |-> AllocHandle(torrents), tid |-> x, made |-> sessionsMade]}
  BY DEF Add
<1>2. x \in Tid /\ ~polling /\ gLive # 0
  BY LatchMeaning DEF Added, Known, Unused, Add
<1>3. TableSound(torrents', Tid) /\ torrents' \in Table(Tid)
  BY <1>1, <1>2, AllocSound DEF Books, TableSound
<1>4. adds' \in 0..MaxAdds /\ tame' \in BOOLEAN
  BY DEF Add, Books, TypeOK
<1>5. engine' \in [Tid -> {"none", "live", "removing", "removed", "expired"}]
  BY <1>1, <1>2 DEF TypeOK
<1>6. ltQueue' \in Seq(RawAlert)
  <2>1. [kind |-> "added", tid |-> x] \in RawAlert
    BY <1>2 DEF RawAlert
  <2> QED BY <1>1, <2>1, AppendProperties DEF TypeOK
<1>7. CASE IsFull(torrents)
  <2>1. torrents' = torrents /\ UNCHANGED <<idOf, issued>>
    BY <1>1, <1>7 DEF AllocTable
  <2> QED BY <1>0, <1>4, <1>5, <1>6, <2>1 DEF TypeOK, Books
<1>8. CASE ~IsFull(torrents)
  <2> DEFINE n == AllocHandle(torrents)
  <2>1. /\ n \in Handles /\ ~IsLive(torrents, n) /\ IsLive(torrents', n) /\ Get(torrents', n) = x
        /\ \A k \in Handles : k # n => /\ IsLive(torrents', k) <=> IsLive(torrents, k)
                                       /\ Get(torrents', k) = Get(torrents, k)
    BY <1>1, <1>2, <1>8, AllocMap DEF Books
  <2> HIDE DEF n
  <2>2. n \in Nat
    BY <2>1, HandleParts
  <2>3. idOf' = [idOf EXCEPT ![x] = n] /\ issued' = issued \cup {[id |-> n, tid |-> x, made |-> sessionsMade]}
    BY <1>1, <1>8 DEF n
  <2>4. sessionsMade \in 1..MaxSessions
    BY <1>2 DEF Books
  <2>5. issued' \subseteq [id : Nat, tid : Tid, made : 1..MaxSessions]
    BY <1>2, <2>2, <2>3, <2>4 DEF TypeOK
  <2>6. idOf' \in [Tid -> Nat]
    BY <1>2, <2>2, <2>3 DEF TypeOK
  <2>7. \A y \in Tid : idOf'[y] # 0 => /\ idOf'[y] \in Handles /\ IsLive(torrents', idOf'[y])
                                       /\ Get(torrents', idOf'[y]) = y
    BY <1>2, <2>1, <2>3 DEF TypeOK, Books
  <2>8. \A p \in issued' : p.id \in Handles
    BY <2>1, <2>3 DEF Books
  <2>9. TypeOK'
    BY <1>0, <1>3, <1>4, <1>5, <1>6, <2>5, <2>6 DEF TypeOK
  <2>10. Books'
    BY <1>0, <1>3, <1>4, <2>7, <2>8 DEF Books
  <2> QED BY <2>9, <2>10
<1> QED BY <1>7, <1>8

(* The reverse map after a slot was freed and its entry erased.             *)
LEMMA MapAfterFree ==
  ASSUME TypeOK, Books, NEW x \in Tid, NEW f \in Handles, IsLive(torrents, f), Get(torrents, f) = x,
         torrents' = FreeTable(torrents, f), idOf' = [idOf EXCEPT ![x] = 0]
  PROVE  /\ TableSound(torrents', Tid) /\ torrents' \in Table(Tid) /\ idOf' \in [Tid -> Nat]
         /\ \A y \in Tid : idOf'[y] # 0 => /\ idOf'[y] \in Handles /\ IsLive(torrents', idOf'[y])
                                           /\ Get(torrents', idOf'[y]) = y
<1>1. TableSound(torrents', Tid) /\ torrents' \in Table(Tid)
  <2>1. TableSound(torrents', Tid)
    BY FreeSound DEF Books
  <2> QED BY <2>1 DEF TableSound
<1>2. \A k \in Handles : k # f => /\ IsLive(torrents', k) <=> IsLive(torrents, k)
                                  /\ Get(torrents', k) = Get(torrents, k)
  BY FreeMap DEF Books
<1>3. \A y \in Tid : idOf'[y] # 0 => idOf'[y] = idOf[y] /\ y # x /\ idOf'[y] # f
  BY DEF TypeOK, Books
<1>4. idOf' \in [Tid -> Nat]
  BY DEF TypeOK
<1> QED BY <1>1, <1>2, <1>3, <1>4 DEF Books

LEMMA RemoveStep ==
  ASSUME TypeOK, Books, NEW p \in issued, Remove(p.id)
  PROVE  TypeOK' /\ Books'
<1> DEFINE x == torrent_only(p.id)
<1>1. p.id \in Handles /\ IsLive(torrents, p.id) /\ x = Get(torrents, p.id) /\ x \in Tid
  BY ResolveMeaning DEF Books, Remove
<1>2. /\ torrents' = FreeTable(torrents, p.id) /\ idOf' = [idOf EXCEPT ![x] = 0]
      /\ engine' = [engine EXCEPT ![x] = IF @ = "live" THEN "removing" ELSE @]
      /\ UNCHANGED <<sessions, gLive, stash, polling, batch, out, stashing, hash, ltQueue, adds, posted,
                     sessionsMade, issued, gone, tame>>
  BY DEF Remove, shimVars, popVars, boundVars, histVars
<1> HIDE DEF x
<1>3. /\ TableSound(torrents', Tid) /\ torrents' \in Table(Tid) /\ idOf' \in [Tid -> Nat]
      /\ \A y \in Tid : idOf'[y] # 0 => /\ idOf'[y] \in Handles /\ IsLive(torrents', idOf'[y])
                                        /\ Get(torrents', idOf'[y]) = y
  BY <1>1, <1>2, MapAfterFree
<1>4. engine' \in [Tid -> {"none", "live", "removing", "removed", "expired"}]
  BY <1>1, <1>2 DEF TypeOK
<1>5. TypeOK'
  BY <1>2, <1>3, <1>4 DEF TypeOK
<1>6. Books'
  BY <1>2, <1>3 DEF Books
<1> QED BY <1>5, <1>6

LEMMA EngineStep ==
  ASSUME TypeOK, Books, NEW x \in Tid, PostEvent(x) \/ EngineRemove(x) \/ Expire(x)
  PROVE  TypeOK' /\ Books'
<1> USE SessionAssumption
<1>1. CASE PostEvent(x)
  <2>1. [kind |-> "event", tid |-> x] \in RawAlert
    BY DEF RawAlert
  <2>2. ltQueue' \in Seq(RawAlert)
    BY <1>1, <2>1, AppendProperties DEF PostEvent, TypeOK
  <2> QED BY <1>1, <2>2 DEF PostEvent, TypeOK, Books, shimVars, stateVars, popVars, engineVars, histVars
<1>2. CASE EngineRemove(x)
  <2>1. [kind |-> "removed", tid |-> x] \in RawAlert
    BY DEF RawAlert
  <2>2. ltQueue' \in Seq(RawAlert)
    BY <1>2, <2>1, AppendProperties DEF EngineRemove, TypeOK
  <2>3. engine' \in [Tid -> {"none", "live", "removing", "removed", "expired"}] /\ tame' \in BOOLEAN
    BY <1>2 DEF EngineRemove, TypeOK
  <2> QED BY <1>2, <2>2, <2>3 DEF EngineRemove, TypeOK, Books, shimVars, stateVars, popVars, boundVars
<1>3. CASE Expire(x)
  <2>1. engine' \in [Tid -> {"none", "live", "removing", "removed", "expired"}]
    BY <1>3 DEF Expire, TypeOK
  <2> QED BY <1>3, <2>1 DEF Expire, TypeOK, Books, shimVars, stateVars, popVars, boundVars, histVars
<1> QED BY <1>1, <1>2, <1>3

-----------------------------------------------------------------------------
(* The entries of a queue as a set.                                        *)
LEMMA EntriesOf ==
  ASSUME NEW S, NEW q \in Seq(S)
  PROVE  /\ Entries(q) = {q[i] : i \in 1..Len(q)} /\ Entries(q) \subseteq S
         /\ \A e \in S : Entries(Append(q, e)) = Entries(q) \cup {e}
         /\ q # << >> => /\ Head(q) \in Entries(q) /\ Tail(q) \in Seq(S)
                         /\ Entries(Tail(q)) \subseteq Entries(q)
<1>1. Len(q) \in Nat /\ DOMAIN q = 1..Len(q) /\ \A i \in 1..Len(q) : q[i] \in S
  BY LenProperties, ElementOfSeq
<1>2. ASSUME NEW e \in S PROVE Entries(Append(q, e)) = Entries(q) \cup {e}
  <2>1. /\ Append(q, e) \in Seq(S) /\ Len(Append(q, e)) = Len(q) + 1
        /\ \A i \in 1..Len(q) : Append(q, e)[i] = q[i]
        /\ Append(q, e)[Len(q) + 1] = e
    BY AppendProperties
  <2>2. DOMAIN Append(q, e) = 1..(Len(q) + 1)
    BY <2>1, LenProperties
  <2> QED BY <1>1, <2>1, <2>2 DEF Entries
<1>3. ASSUME q # << >>
      PROVE  Head(q) \in Entries(q) /\ Tail(q) \in Seq(S) /\ Entries(Tail(q)) \subseteq Entries(q)
  <2>1. Len(q) \in Nat \ {0} /\ Head(q) = q[1]
    BY <1>3, EmptySeq
  <2>2. /\ Tail(q) \in Seq(S) /\ Len(Tail(q)) = Len(q) - 1
        /\ \A i \in 1..Len(Tail(q)) : Tail(q)[i] = q[i + 1]
    BY <1>3, HeadTailProperties
  <2>3. DOMAIN Tail(q) = 1..(Len(q) - 1)
    BY <2>2, LenProperties
  <2> QED BY <1>1, <2>1, <2>2, <2>3 DEF Entries
<1> QED BY <1>1, <1>2, <1>3 DEF Entries

LEMMA RemovedTids ==
  ASSUME NEW q \in Seq(Entry)
  PROVE  RemovedIn(q) \subseteq Tid
<1>1. Entries(q) \subseteq Entry
  BY EntriesOf
<1>2. \A e \in Entry : e.tid \in Tid
  BY DEF Entry
<1> QED BY <1>1, <1>2 DEF RemovedIn

LEMMA EntriesOfPart ==
  ASSUME NEW S, NEW q \in Seq(S), NEW m \in 1..(Len(q) + 1), NEW n \in 0..Len(q)
  PROVE  SubSeq(q, m, n) \in Seq(S) /\ Entries(SubSeq(q, m, n)) \subseteq Entries(q)
<1>1. Len(q) \in Nat /\ DOMAIN q = 1..Len(q) /\ \A i \in 1..Len(q) : q[i] \in S
  BY LenProperties, ElementOfSeq
<1>2. \A i \in m..n : q[i] \in S
  BY <1>1
<1>3. /\ SubSeq(q, m, n) \in Seq(S)
      /\ Len(SubSeq(q, m, n)) = IF m <= n THEN n - m + 1 ELSE 0
      /\ \A i \in 1..(n - m + 1) : SubSeq(q, m, n)[i] = q[m + i - 1]
  BY <1>1, <1>2, SubSeqProperties
<1>4. DOMAIN SubSeq(q, m, n) = 1..Len(SubSeq(q, m, n))
  BY <1>3, LenProperties
<1>5. \A i \in DOMAIN SubSeq(q, m, n) : SubSeq(q, m, n)[i] = q[m + i - 1] /\ m + i - 1 \in 1..Len(q)
  BY <1>1, <1>3, <1>4
<1> QED BY <1>1, <1>3, <1>5 DEF Entries

-----------------------------------------------------------------------------
(* The poll.                                                               *)
LEMMA PollStashStep ==
  ASSUME TypeOK, Books, PollStash
  PROVE  /\ TypeOK' /\ Books'
         /\ stash' \in Seq(Entry) /\ Entries(stash') \subseteq Entries(stash)
         /\ gone' \subseteq gone \cup RemovedIn(stash)
<1>1. PICK k \in 0..(Len(stash) - 1) : /\ gone' = gone \cup RemovedIn(SubSeq(stash, 1, k))
                                       /\ stash' = SubSeq(stash, k + 1, Len(stash))
  BY DEF PollStash
<1>2. Len(stash) \in Nat /\ stash \in Seq(Entry)
  BY LenProperties DEF TypeOK
<1>3. /\ stash' \in Seq(Entry) /\ Entries(stash') \subseteq Entries(stash)
      /\ Entries(SubSeq(stash, 1, k)) \subseteq Entries(stash)
  <2>1. k + 1 \in 1..(Len(stash) + 1) /\ 1 \in 1..(Len(stash) + 1) /\ k \in 0..Len(stash) /\ Len(stash) \in 0..Len(stash)
    BY <1>1, <1>2
  <2> QED BY <1>1, <1>2, <2>1, EntriesOfPart
<1>4. RemovedIn(SubSeq(stash, 1, k)) \subseteq RemovedIn(stash)
  BY <1>3 DEF RemovedIn
<1>5. RemovedIn(stash) \subseteq Tid
  BY <1>2, RemovedTids
<1>6. UNCHANGED <<sessions, gLive, torrents, idOf, polling, batch, out, stashing, engine, hash, ltQueue,
                  adds, posted, sessionsMade, issued, tame>>
  BY DEF PollStash, shimVars, stateVars, popVars, engineVars, boundVars
<1>7. TypeOK'
  BY <1>1, <1>3, <1>4, <1>5, <1>6 DEF TypeOK
<1>8. Books'
  BY <1>6 DEF Books
<1> QED BY <1>1, <1>3, <1>4, <1>7, <1>8

LEMMA PollFreshStep ==
  ASSUME TypeOK, Books, PollFresh
  PROVE  TypeOK' /\ Books'
<1>1. UNCHANGED <<sessions, gLive, torrents, idOf, engine, hash, adds, posted, sessionsMade, issued, gone, tame>>
  BY DEF PollFresh, shimVars, stateVars, engineVars, boundVars, histVars
<1>2. << >> \in Seq(Entry) /\ << >> \in Seq(RawAlert)
  BY EmptySeq
<1>3. TypeOK'
  BY <1>1, <1>2 DEF PollFresh, TypeOK
<1>4. Books'
  BY <1>1, LatchMeaning DEF PollFresh, Books
<1> QED BY <1>3, <1>4

(* An alert is extracted: the entry it becomes, and the slot it reclaims.   *)
LEMMA ExtractStep ==
  ASSUME TypeOK, Books, Extract
  PROVE  LET a == Head(batch)
             e == [kind |-> a.kind, tid |-> a.tid, id |-> idForHandle(a.tid)]
         IN  /\ TypeOK' /\ Books'
             /\ a \in Entries(batch) /\ a \in RawAlert /\ e \in Entry /\ polling /\ gLive # 0
             /\ Entries(batch') \subseteq Entries(batch)
             /\ Entries(stash') \cup Entries(out') = Entries(stash) \cup Entries(out) \cup {e}
             /\ a.kind # "removed" => UNCHANGED <<torrents, idOf>>
             /\ a.kind = "removed" => /\ torrents' = FreeTable(torrents, idForHandle(a.tid))
                                      /\ idOf' = [idOf EXCEPT ![a.tid] = 0]
             /\ UNCHANGED <<sessions, gLive, polling, engine, hash, ltQueue, adds, posted, sessionsMade,
                            issued, gone, tame>>
<1> DEFINE a == Head(batch)
           e == [kind |-> a.kind, tid |-> a.tid, id |-> idForHandle(a.tid)]
<1>1. /\ polling /\ batch # << >> /\ batch' = Tail(batch)
      /\ UNCHANGED <<sessions, gLive, polling, engine, hash, ltQueue, adds, posted, sessionsMade,
                     issued, gone, tame>>
      /\ a.kind # "removed" => UNCHANGED <<torrents, idOf>>
      /\ a.kind = "removed" => /\ torrents' = FreeTable(torrents, idForHandle(a.tid))
                               /\ idOf' = [idOf EXCEPT ![a.tid] = 0]
      /\ \/ out' = Append(out, e) /\ UNCHANGED <<stash, stashing>>
         \/ stash' = Append(stash, e) /\ stashing' = TRUE /\ UNCHANGED out
  BY DEF Extract, Reclaim, shimVars, stateVars, engineVars, boundVars, histVars
<1>2. batch \in Seq(RawAlert) /\ stash \in Seq(Entry) /\ out \in Seq(Entry) /\ gLive # 0
  BY <1>1 DEF TypeOK, Books
<1>3. a \in Entries(batch) /\ a \in RawAlert /\ batch' \in Seq(RawAlert) /\ Entries(batch') \subseteq Entries(batch)
  BY <1>1, <1>2, EntriesOf
<1>4. a.tid \in Tid /\ a.kind \in {"added", "removed", "event"} /\ idForHandle(a.tid) \in Nat
  BY <1>3 DEF RawAlert, idForHandle, TypeOK
<1>5. e \in Entry
  BY <1>4 DEF Entry
<1> HIDE DEF a, e
<1>6. /\ stash' \in Seq(Entry) /\ out' \in Seq(Entry) /\ stashing' \in BOOLEAN
      /\ Entries(stash') \cup Entries(out') = Entries(stash) \cup Entries(out) \cup {e}
  <2>1. CASE out' = Append(out, e) /\ UNCHANGED <<stash, stashing>>
    <3>1. out' \in Seq(Entry) /\ Entries(out') = Entries(out) \cup {e}
      BY <1>2, <1>5, <2>1, AppendProperties, EntriesOf
    <3> QED BY <2>1, <3>1 DEF TypeOK
  <2>2. CASE stash' = Append(stash, e) /\ stashing' = TRUE /\ UNCHANGED out
    <3>1. stash' \in Seq(Entry) /\ Entries(stash') = Entries(stash) \cup {e}
      BY <1>2, <1>5, <2>2, AppendProperties, EntriesOf
    <3> QED BY <2>2, <3>1 DEF TypeOK
  <2> QED BY <1>1, <2>1, <2>2
<1>7. /\ TableSound(torrents', Tid) /\ torrents' \in Table(Tid) /\ idOf' \in [Tid -> Nat]
      /\ \A y \in Tid : idOf'[y] # 0 => /\ idOf'[y] \in Handles /\ IsLive(torrents', idOf'[y])
                                        /\ Get(torrents', idOf'[y]) = y
  <2>1. CASE a.kind # "removed"
    BY <1>1, <2>1 DEF TypeOK, Books
  <2>2. CASE a.kind = "removed" /\ idForHandle(a.tid) = 0
    <3>1. ~IsLive(torrents, 0)
      BY DEF IsLive
    <3>2. torrents' = torrents
      BY <1>1, <2>2, <3>1 DEF FreeTable
    <3> QED BY <1>1, <1>4, <2>2, <3>2 DEF TypeOK, Books
  <2>3. CASE a.kind = "removed" /\ idForHandle(a.tid) # 0
    <3>1. idForHandle(a.tid) = idOf[a.tid]
      BY <2>3 DEF idForHandle
    <3> QED BY <1>1, <1>4, <2>3, <3>1, MapAfterFree DEF Books
  <2> QED BY <2>1, <2>2, <2>3
<1>8. TypeOK'
  BY <1>1, <1>3, <1>6, <1>7 DEF TypeOK
<1>9. Books'
  BY <1>1, <1>2, <1>7 DEF Books
<1> QED BY <1>1, <1>2, <1>3, <1>5, <1>6, <1>8, <1>9 DEF a, e

LEMMA PollEndStep ==
  ASSUME TypeOK, Books, ExtractThrows \/ PollEnd
  PROVE  TypeOK' /\ Books' /\ gone' \subseteq gone \cup RemovedIn(out)
<1>1. << >> \in Seq(Entry) /\ << >> \in Seq(RawAlert)
  BY EmptySeq
<1>2. RemovedIn(out) \subseteq Tid
  BY RemovedTids DEF TypeOK
<1>3. CASE ExtractThrows
  BY <1>1, <1>3 DEF ExtractThrows, TypeOK, Books, shimVars, stateVars, engineVars, boundVars, histVars
<1>4. CASE PollEnd
  BY <1>1, <1>2, <1>4 DEF PollEnd, TypeOK, Books, shimVars, stateVars, engineVars, boundVars
<1> QED BY <1>3, <1>4

LEMMA BooksStep == TypeOK /\ Books /\ [Next]_vars => TypeOK' /\ Books'
<1> SUFFICES ASSUME TypeOK, Books, [Next]_vars PROVE TypeOK' /\ Books'
  OBVIOUS
<1>1. CASE UNCHANGED vars
  BY <1>1 DEF vars, shimVars, stateVars, popVars, engineVars, boundVars, histVars, TypeOK, Books
<1>2. CASE Next
  BY <1>2, SessionNewStep, SessionFreeStep, AddStep, RemoveStep, EngineStep, PollStashStep, PollFreshStep,
     ExtractStep, PollEndStep DEF Next
<1> QED BY <1>1, <1>2

LEMMA BooksAlways == Spec => [](TypeOK /\ Books)
  BY InitBooks, BooksStep, PTL DEF Spec

(* The latch names the live session if there is one, the reverse map only  *)
(* ids that are live and name that very torrent, and every variable has    *)
(* its type, whatever is called and whatever libtorrent does meanwhile.    *)
THEOREM SessionsCorrect == Spec => []SessionsSound
<1>1. TypeOK /\ Books => SessionsSound
  <2> SUFFICES ASSUME TypeOK, Books PROVE SessionsSound
    OBVIOUS
  <2>1. CollectLive(sessions) = {h \in Handles : IsLive(sessions, h)}
    BY CollectLiveMap DEF Books
  <2>2. {h \in Handles : IsLive(sessions, h)} = {gLive} \ {0}
    BY HandleParts DEF Books
  <2> QED BY <2>1, <2>2 DEF SessionsSound, SessionLatch, IdOfSound, Books
<1> QED BY <1>1, BooksAlways, PTL

-----------------------------------------------------------------------------
(* An id keeps naming its torrent. A generation grows by at most one per    *)
(* add, so that none has come round again while there were no more adds     *)
(* than generations; then an id handed out stays at or below its slot's     *)
(* generation, and when it is equal and live the slot holds its torrent.    *)
GensBounded(t, n) ==
  \A i \in Index : /\ t.slots[i].live => t.slots[i].gen <= n
                   /\ ~t.slots[i].live => t.slots[i].gen <= n + 1

KeptIn(t, n, h, x) ==
  LET i == decode_idx(h)  s == t.slots[i] IN
  /\ i < t.size
  /\ s.live => decode_gen(h) <= s.gen /\ (decode_gen(h) = s.gen => s.obj = x)
  /\ ~s.live => decode_gen(h) < s.gen \/ n >= GenMax

LEMMA AllocKeeps ==
  ASSUME NEW t, TableSound(t, Tid), NEW o \in Tid, ~IsFull(t),
         NEW n \in Nat, n + 1 <= GenMax, GensBounded(t, n)
  PROVE  LET u == AllocTable(t, o) IN
         /\ GensBounded(u, n + 1)
         /\ KeptIn(u, n + 1, AllocHandle(t), o)
         /\ \A h \in Handles, x \in Tid : KeptIn(t, n, h, x) => KeptIn(u, n + 1, h, x)
<1> DEFINE i == AllocIndex(t)
           a == AllocHandle(t)
           u == AllocTable(t, o)
           slot == [obj |-> o, gen |-> AllocGen(t), live |-> TRUE]
<1>1. /\ i \in Index /\ ~t.slots[i].live /\ AllocGen(t) \in 1..GenMax
      /\ i < t.size => AllocGen(t) = t.slots[i].gen \/ t.slots[i].gen = 0
      /\ a = encode(AllocGen(t), i)
      /\ u = [slots |-> [t.slots EXCEPT ![i] = slot],
              size  |-> IF t.free # << >> THEN t.size ELSE t.size + 1,
              free  |-> IF t.free # << >> THEN Pop(t.free) ELSE t.free,
              count |-> t.count + 1]
      /\ t.free # << >> => i < t.size
      /\ t.free = << >> => i = t.size
  BY AllocSlot
<1>2. decode_gen(a) = AllocGen(t) /\ decode_idx(a) = i
  BY <1>1, Decode
<1>3. t \in Table(Tid) /\ t.size \in Int /\ i \in Int
  BY <1>1, TableTypes DEF TableSound, Index
<1>4. AllocGen(t) <= n + 1
  BY <1>1, <1>3, TableTypes DEF GensBounded, AllocGen
<1> HIDE DEF i, a
<1>5. /\ u.slots[i] = slot /\ i < u.size /\ t.size <= u.size /\ u.size \in Int
      /\ \A j \in Index : j # i => u.slots[j] = t.slots[j]
  BY <1>1, <1>3, TableTypes
<1> HIDE DEF u
<1>6. \A j \in Index : t.slots[j].gen \in Nat
  BY <1>3, TableTypes
<1>7. GensBounded(u, n + 1)
  BY <1>4, <1>5, <1>6 DEF GensBounded
<1>8. KeptIn(u, n + 1, a, o)
  BY <1>1, <1>2, <1>5, GenMaxAssumption DEF KeptIn
<1>9. ASSUME NEW h \in Handles, NEW x \in Tid, KeptIn(t, n, h, x)
      PROVE  KeptIn(u, n + 1, h, x)
  <2>1. decode_idx(h) \in Index /\ decode_gen(h) \in 1..GenMax /\ decode_idx(h) < u.size
    <3>1. decode_idx(h) \in Index /\ decode_gen(h) \in 1..GenMax
      BY HandleParts
    <3>2. decode_idx(h) \in Int /\ decode_idx(h) < t.size
      BY <1>9, <3>1 DEF KeptIn, Index
    <3> QED BY <1>3, <1>5, <3>1, <3>2
  <2>2. CASE decode_idx(h) = i
    <3>1. decode_gen(h) < t.slots[i].gen /\ i < t.size
      BY <1>1, <1>9, <2>2, GenMaxAssumption DEF KeptIn
    <3>2. AllocGen(t) = t.slots[i].gen
      BY <1>1, <1>6, <2>1, <3>1, GenMaxAssumption
    <3> QED BY <1>1, <1>5, <2>1, <2>2, <3>1, <3>2, GenMaxAssumption DEF KeptIn
  <2>3. CASE decode_idx(h) # i
    BY <1>5, <1>9, <2>1, <2>3, GenMaxAssumption DEF KeptIn
  <2> QED BY <2>2, <2>3
<1> QED BY <1>7, <1>8, <1>9 DEF u, a

LEMMA FreeKeeps ==
  ASSUME NEW t, TableSound(t, Tid), NEW f \in Handles, IsLive(t, f),
         NEW n \in Nat, GensBounded(t, n)
  PROVE  LET u == FreeTable(t, f) IN
         /\ GensBounded(u, n)
         /\ \A h \in Handles, x \in Tid : KeptIn(t, n, h, x) => KeptIn(u, n, h, x)
<1> DEFINE i == decode_idx(f)
           u == FreeTable(t, f)
           slot == [obj |-> None, gen |-> NextGen(t.slots[i].gen), live |-> FALSE]
<1>1. u = [slots |-> [t.slots EXCEPT ![i] = slot], size |-> t.size,
           free |-> Append(t.free, i), count |-> t.count - 1]
  BY DEF FreeTable
<1>2. i \in Index /\ t \in Table(Tid) /\ t.slots[i].live
  BY HandleParts DEF TableSound, IsLive
<1>3. /\ u.slots[i] = slot /\ u.size = t.size
      /\ \A j \in Index : j # i => u.slots[j] = t.slots[j]
  BY <1>1, <1>2, TableTypes
<1>4. t.slots[i].gen \in Nat /\ t.slots[i].gen <= GenMax /\ t.slots[i].gen <= n
  BY <1>2, TableTypes, GenMaxAssumption DEF Gen, GensBounded
<1>5. slot.gen <= n + 1 /\ (slot.gen = t.slots[i].gen + 1 \/ n >= GenMax)
  BY <1>4, GenMaxAssumption DEF NextGen
<1> HIDE DEF i, u
<1>6. GensBounded(u, n)
  BY <1>3, <1>5 DEF GensBounded
<1>7. ASSUME NEW h \in Handles, NEW x \in Tid, KeptIn(t, n, h, x)
      PROVE  KeptIn(u, n, h, x)
  <2>1. decode_idx(h) \in Index /\ decode_gen(h) \in Nat
    BY HandleParts, GenMaxAssumption
  <2>2. CASE decode_idx(h) = i
    BY <1>2, <1>3, <1>4, <1>5, <1>7, <2>1, <2>2 DEF KeptIn
  <2>3. CASE decode_idx(h) # i
    BY <1>3, <1>7, <2>1, <2>3 DEF KeptIn
  <2> QED BY <2>2, <2>3
<1> QED BY <1>6, <1>7 DEF u

(* Every live handle and every id of a waiting entry was issued, this      *)
(* session, for the torrent it names.                                      *)
Ticket(h, x) == [id |-> h, tid |-> x, made |-> sessionsMade]

Pending == Entries(stash) \cup Entries(out)

Tickets ==
  /\ adds <= GenMax =>
       /\ GensBounded(torrents, adds)
       /\ gLive # 0 => \A p \in issued : p.made = sessionsMade => KeptIn(torrents, adds, p.id, p.tid)
  /\ \A p \in issued : p.made <= sessionsMade
  /\ gLive = 0 => torrents = EmptyTable
  /\ \A h \in Handles : IsLive(torrents, h) => Ticket(h, Get(torrents, h)) \in issued
  /\ \A e \in Pending : e.id # 0 => Ticket(e.id, e.tid) \in issued

(* Every step is, for the tickets, one of five: a session made, a session  *)
(* freed, a torrent added, a slot freed, or nothing of theirs. An entry     *)
(* appears in the stash or the buffer only with an id the map holds.        *)
Mapped == {e \in Entry : e.id = idForHandle(e.tid)}

MakesSession ==
  /\ gLive' # 0 /\ sessionsMade' = sessionsMade + 1
  /\ torrents' = EmptyTable /\ Pending' = {} /\ UNCHANGED <<issued, adds>>

FreesSession ==
  /\ gLive' = 0 /\ torrents' = EmptyTable /\ Pending' = {}
  /\ UNCHANGED <<issued, adds, sessionsMade>>

AddsTorrent(x) ==
  /\ gLive # 0 /\ adds' = adds + 1
  /\ torrents' = AllocTable(torrents, x) /\ Pending' = Pending
  /\ issued' = IF IsFull(torrents) THEN issued ELSE issued \cup {Ticket(AllocHandle(torrents), x)}
  /\ UNCHANGED <<gLive, sessionsMade>>

FreesSlot(f) ==
  /\ gLive # 0 /\ IsLive(torrents, f) /\ torrents' = FreeTable(torrents, f)
  /\ Pending' \subseteq Pending \cup Mapped
  /\ UNCHANGED <<gLive, issued, adds, sessionsMade>>

KeepsTickets ==
  /\ Pending' \subseteq Pending \cup Mapped
  /\ UNCHANGED <<torrents, gLive, issued, adds, sessionsMade>>

LEMMA TicketSteps ==
  ASSUME TypeOK, Books, [Next]_vars
  PROVE  \/ MakesSession \/ FreesSession \/ KeepsTickets
         \/ \E x \in Tid : AddsTorrent(x)
         \/ \E f \in Handles : FreesSlot(f)
<1>1. Entries(<< >>) = {}
  BY DEF Entries
<1>2. CASE UNCHANGED vars
  BY <1>2 DEF vars, shimVars, stateVars, popVars, boundVars, histVars, KeepsTickets, Pending
<1>3. CASE SessionNew
  <2>1. out = << >> /\ out' = << >> /\ stash' = << >> /\ UNCHANGED <<issued, adds>>
    BY <1>3 DEF SessionNew, FreshState, popVars, histVars, Books
  <2> QED BY <1>1, <1>3, <2>1, SessionNewStep DEF MakesSession, Pending
<1>4. ASSUME NEW s \in MadeSessions, SessionFree(s)
      PROVE  FreesSession \/ KeepsTickets
  <2>1. out = << >> /\ out' = << >> /\ UNCHANGED <<issued, adds, sessionsMade>>
    BY <1>4 DEF SessionFree, popVars, boundVars, histVars, Books
  <2> QED BY <1>1, <1>4, <2>1, SessionFreeStep DEF FreesSession, KeepsTickets, Pending
<1>5. ASSUME NEW h \in Hashes, Add(h)
      PROVE  \E x \in Tid : AddsTorrent(x)
  <2>1. PICK x \in Added(h) :
          /\ torrents' = AllocTable(torrents, x)
          /\ issued' = IF IsFull(torrents) THEN issued ELSE issued \cup {Ticket(AllocHandle(torrents), x)}
    BY <1>5 DEF Add, Ticket
  <2>2. x \in Tid
    BY DEF Added, Known, Unused
  <2>3. gLive # 0 /\ adds' = adds + 1 /\ UNCHANGED <<gLive, sessionsMade, stash, out>>
    BY <1>5, LatchMeaning DEF Add, shimVars, popVars
  <2> QED BY <2>1, <2>2, <2>3 DEF AddsTorrent, Pending
<1>6. ASSUME NEW p \in issued, Remove(p.id)
      PROVE  \E f \in Handles : FreesSlot(f)
  <2>1. p.id \in Handles /\ IsLive(torrents, p.id) /\ gLive # 0
    BY <1>6, ResolveMeaning DEF Books, Remove
  <2>2. FreesSlot(p.id)
    BY <1>6, <2>1 DEF Remove, FreesSlot, Pending, shimVars, popVars, boundVars, histVars
  <2> QED BY <2>1, <2>2
<1>7. ASSUME NEW x \in Tid, PostEvent(x) \/ EngineRemove(x) \/ Expire(x)
      PROVE  KeepsTickets
  BY <1>7 DEF PostEvent, EngineRemove, Expire, KeepsTickets, Pending, shimVars, stateVars, popVars,
     boundVars, histVars
<1>8. CASE PollStash
  BY <1>8, PollStashStep DEF PollStash, KeepsTickets, Pending, shimVars, stateVars, popVars, boundVars
<1>9. CASE PollFresh
  <2>1. out = << >>
    BY <1>9 DEF PollFresh, Books
  <2> QED BY <1>1, <1>9, <2>1 DEF PollFresh, KeepsTickets, Pending, shimVars, stateVars, boundVars, histVars
<1>10. CASE Extract
  <2> DEFINE a == Head(batch)
             e == [kind |-> a.kind, tid |-> a.tid, id |-> idForHandle(a.tid)]
  <2>1. /\ a \in RawAlert /\ e \in Entry /\ gLive # 0
        /\ Entries(stash') \cup Entries(out') = Entries(stash) \cup Entries(out) \cup {e}
        /\ a.kind # "removed" => UNCHANGED <<torrents, idOf>>
        /\ a.kind = "removed" => torrents' = FreeTable(torrents, idForHandle(a.tid))
        /\ UNCHANGED <<gLive, issued, adds, sessionsMade>>
    BY <1>10, ExtractStep
  <2>2. e \in Mapped
    BY <2>1 DEF Mapped
  <2> HIDE DEF e
  <2>3. Pending' \subseteq Pending \cup Mapped
    BY <2>1, <2>2 DEF Pending
  <2>4. CASE a.kind # "removed" \/ ~IsLive(torrents, idForHandle(a.tid))
    BY <2>1, <2>3, <2>4 DEF KeepsTickets, FreeTable
  <2>5. CASE a.kind = "removed" /\ IsLive(torrents, idForHandle(a.tid))
    <3>1. idForHandle(a.tid) \in Handles
      BY <2>1, <2>5 DEF idForHandle, Books, RawAlert, IsLive
    <3> QED BY <2>1, <2>3, <2>5, <3>1 DEF FreesSlot
  <2> QED BY <2>4, <2>5
<1>11. CASE ExtractThrows \/ PollEnd
  <2>1. UNCHANGED <<torrents, gLive, issued, adds, sessionsMade, stash>> /\ out' = << >>
    BY <1>11 DEF ExtractThrows, PollEnd, shimVars, stateVars, boundVars, histVars
  <2> QED BY <1>1, <2>1 DEF KeepsTickets, Pending
<1> QED
  BY <1>2, <1>3, <1>4, <1>5, <1>6, <1>7, <1>8, <1>9, <1>10, <1>11 DEF Next

LEMMA EmptyKeeps == ASSUME NEW n \in Nat PROVE GensBounded(EmptyTable, n)
  BY DEF GensBounded, EmptyTable, EmptySlot

LEMMA TicketsInit == Init => Tickets
<1> SUFFICES ASSUME Init PROVE Tickets
  OBVIOUS
<1>1. Entries(<< >>) = {} /\ 0 \in Nat
  BY DEF Entries
<1>2. GensBounded(torrents, adds)
  BY <1>1, EmptyKeeps DEF Init
<1> QED BY <1>1, <1>2, EmptyMap DEF Init, Tickets, Pending

(* An entry with an id carries a live id of its torrent.                   *)
LEMMA MappedTickets ==
  ASSUME TypeOK, Books, Tickets, NEW e \in Mapped, e.id # 0
  PROVE  Ticket(e.id, e.tid) \in issued
<1>1. e.tid \in Tid /\ e.id = idOf[e.tid]
  BY DEF Mapped, Entry, idForHandle
<1> QED BY <1>1 DEF Books, Tickets

LEMMA TicketsStep == TypeOK /\ Books /\ Tickets /\ [Next]_vars => Tickets'
<1> SUFFICES ASSUME TypeOK, Books, Tickets, [Next]_vars PROVE Tickets'
  OBVIOUS
<1>1. adds \in Nat /\ sessionsMade \in Nat /\ GenMax \in Nat /\ adds' \in Nat
  BY BooksStep, SessionAssumption, GenMaxAssumption DEF Books
<1>2. TableSound(torrents, Tid) /\ \A p \in issued : p.id \in Handles /\ p.tid \in Tid /\ p.made \in Nat
  BY SessionAssumption DEF TypeOK, Books
<1>3. CASE MakesSession
  <2>1. \A p \in issued : p.made <= sessionsMade' /\ p.made # sessionsMade'
    BY <1>1, <1>2, <1>3 DEF MakesSession, Tickets
  <2>2. GensBounded(torrents', adds')
    BY <1>1, <1>3, EmptyKeeps DEF MakesSession
  <2> QED BY <1>3, <2>1, <2>2, EmptyMap DEF MakesSession, Tickets
<1>4. CASE FreesSession
  <2>1. GensBounded(torrents', adds')
    BY <1>1, <1>4, EmptyKeeps DEF FreesSession
  <2> QED BY <1>4, <2>1, EmptyMap DEF FreesSession, Tickets
<1>5. CASE KeepsTickets
  <2>1. \A e \in Pending' : e.id # 0 => Ticket(e.id, e.tid) \in issued
    BY <1>5, MappedTickets DEF KeepsTickets, Tickets
  <2> QED BY <1>5, <2>1 DEF KeepsTickets, Tickets, Ticket
<1>6. ASSUME NEW f \in Handles, FreesSlot(f)
      PROVE  Tickets'
  <2>1. \A e \in Pending' : e.id # 0 => Ticket(e.id, e.tid) \in issued
    BY <1>6, MappedTickets DEF FreesSlot, Tickets
  <2>2. \A h \in Handles : IsLive(torrents', h) => IsLive(torrents, h) /\ Get(torrents', h) = Get(torrents, h)
    BY <1>2, <1>6, FreeMap DEF FreesSlot
  <2>3. ASSUME adds <= GenMax
        PROVE  /\ GensBounded(torrents', adds)
               /\ \A p \in issued : p.made = sessionsMade => KeptIn(torrents', adds, p.id, p.tid)
    BY <1>1, <1>2, <1>6, <2>3, FreeKeeps DEF FreesSlot, Tickets
  <2> QED BY <1>6, <2>1, <2>2, <2>3 DEF FreesSlot, Tickets, Ticket
<1>7. ASSUME NEW x \in Tid, AddsTorrent(x), IsFull(torrents)
      PROVE  Tickets'
  <2>1. torrents' = torrents /\ issued' = issued
    BY <1>7 DEF AddsTorrent, AllocTable
  <2>2. ASSUME adds + 1 <= GenMax
        PROVE  /\ GensBounded(torrents, adds + 1)
               /\ \A p \in issued : p.made = sessionsMade => KeptIn(torrents, adds + 1, p.id, p.tid)
    <3>1. \A i \in Index : torrents.slots[i].gen \in Nat
      BY <1>2, TableTypes DEF TableSound
    <3>2. GensBounded(torrents, adds + 1)
      BY <1>1, <2>2, <3>1 DEF Tickets, GensBounded
    <3>3. ASSUME NEW p \in issued, p.made = sessionsMade
          PROVE  KeptIn(torrents, adds + 1, p.id, p.tid)
      <4>1. KeptIn(torrents, adds, p.id, p.tid)
        BY <1>1, <1>7, <2>2, <3>3 DEF Tickets, AddsTorrent
      <4> QED BY <1>1, <4>1 DEF KeptIn
    <3> QED BY <3>2, <3>3
  <2> QED BY <1>7, <2>1, <2>2 DEF AddsTorrent, Tickets, Ticket
<1>8. ASSUME NEW x \in Tid, AddsTorrent(x), ~IsFull(torrents)
      PROVE  Tickets'
  <2> DEFINE n == AllocHandle(torrents)
  <2>1. /\ n \in Handles /\ IsLive(torrents', n) /\ Get(torrents', n) = x
        /\ \A h \in Handles : h # n => (IsLive(torrents', h) <=> IsLive(torrents, h)) /\ Get(torrents', h) = Get(torrents, h)
    BY <1>2, <1>8, AllocMap DEF AddsTorrent
  <2>2. issued' = issued \cup {Ticket(n, x)}
    BY <1>8 DEF AddsTorrent
  <2>3. ASSUME adds + 1 <= GenMax
        PROVE  /\ GensBounded(torrents', adds + 1) /\ KeptIn(torrents', adds + 1, n, x)
               /\ \A p \in issued : p.made = sessionsMade => KeptIn(torrents', adds + 1, p.id, p.tid)
    <3>1. adds <= GenMax /\ gLive # 0
      BY <1>1, <1>8, <2>3 DEF AddsTorrent
    <3>2. /\ GensBounded(torrents, adds)
          /\ \A p \in issued : p.made = sessionsMade => KeptIn(torrents, adds, p.id, p.tid)
      BY <3>1 DEF Tickets
    <3> QED BY <1>1, <1>2, <1>8, <2>3, <3>2, AllocKeeps DEF AddsTorrent
  <2> HIDE DEF n
  <2>4. Ticket(n, x).id = n /\ Ticket(n, x).tid = x /\ Ticket(n, x).made = sessionsMade
    BY DEF Ticket
  <2>5. adds' = adds + 1 /\ Pending' = Pending /\ UNCHANGED <<gLive, sessionsMade>> /\ gLive # 0
    BY <1>8 DEF AddsTorrent
  <2>6. \A p \in issued' : p.made <= sessionsMade'
    BY <1>1, <2>2, <2>4, <2>5 DEF Tickets
  <2>7. adds' <= GenMax => /\ GensBounded(torrents', adds')
                           /\ \A p \in issued' : p.made = sessionsMade' => KeptIn(torrents', adds', p.id, p.tid)
    BY <2>2, <2>3, <2>4, <2>5
  <2>8. \A h \in Handles : IsLive(torrents', h) =>
                            [id |-> h, tid |-> Get(torrents', h), made |-> sessionsMade'] \in issued'
    BY <2>1, <2>2, <2>5 DEF Tickets, Ticket
  <2>9. \A e \in Pending' : e.id # 0 => Ticket(e.id, e.tid) \in issued'
    BY <2>2, <2>5 DEF Tickets
  <2>10. \A e \in Pending' : e.id # 0 => [id |-> e.id, tid |-> e.tid, made |-> sessionsMade'] \in issued'
    BY <2>5, <2>9 DEF Ticket
  <2> QED BY <2>5, <2>6, <2>7, <2>8, <2>10 DEF Tickets, Ticket
<1> QED BY <1>3, <1>4, <1>5, <1>6, <1>7, <1>8, TicketSteps

(* What a ticket is worth: its id reaches its torrent or none.              *)
LEMMA TicketHolds ==
  ASSUME TypeOK, Books, Tickets, adds <= GenMax,
         NEW p \in issued, p.made = sessionsMade
  PROVE  torrent_only(p.id) \in {None, p.tid}
<1> SUFFICES ASSUME torrent_only(p.id) # None PROVE torrent_only(p.id) = p.tid
  OBVIOUS
<1>1. p.id \in Handles
  BY DEF Books
<1>2. IsLive(torrents, p.id) /\ gLive # 0 /\ torrent_only(p.id) = Get(torrents, p.id)
  BY <1>1, ResolveMeaning
<1>3. KeptIn(torrents, adds, p.id, p.tid)
  BY <1>2 DEF Tickets
<1> QED BY <1>2, <1>3 DEF KeptIn, IsLive, Get

LEMMA TicketsAlways == Spec => [](TypeOK /\ Books /\ Tickets)
<1>1. Init => TypeOK /\ Books /\ Tickets
  BY InitBooks, TicketsInit
<1>2. TypeOK /\ Books /\ Tickets /\ [Next]_vars => (TypeOK /\ Books /\ Tickets)'
  BY BooksStep, TicketsStep
<1> QED BY <1>1, <1>2, PTL DEF Spec

(* An id, kept by the script or still waiting in an undelivered event,      *)
(* never reaches another torrent than its own, however slots are reused.    *)
(* After GenMax (32767) adds a generation may come round again, and the id  *)
(* of a slot's first torrent may name a later one.                          *)
THEOREM IdsCorrect == Spec => [](adds <= GenMax => IdsNameTheirTorrent)
<1>1. TypeOK /\ Books /\ Tickets => (adds <= GenMax => IdsNameTheirTorrent)
  <2> SUFFICES ASSUME TypeOK, Books, Tickets, adds <= GenMax PROVE IdsNameTheirTorrent
    OBVIOUS
  <2>1. IdNamesItsTorrent
    BY TicketHolds DEF IdNamesItsTorrent
  <2>2. ASSUME NEW e \in Pending, e.id # 0 PROVE torrent_only(e.id) \in {None, e.tid}
    <3>1. Ticket(e.id, e.tid) \in issued
      BY <2>2 DEF Tickets
    <3>2. /\ Ticket(e.id, e.tid).id = e.id /\ Ticket(e.id, e.tid).tid = e.tid
          /\ Ticket(e.id, e.tid).made = sessionsMade
      BY DEF Ticket
    <3> QED BY <3>1, <3>2, TicketHolds
  <2> QED BY <2>1, <2>2 DEF IdsNameTheirTorrent, PendingNamesItsTorrent, Pending
<1> QED BY <1>1, TicketsAlways, PTL

-----------------------------------------------------------------------------
(* A removed torrent's id goes stale. A removed alert is only ever about a  *)
(* torrent that libtorrent has removed; until such a torrent expires, the   *)
(* reverse map leads to the one slot it may still hold, so extracting the   *)
(* alert frees it. A torrent is not brought back, so it stays that way.     *)
Over  == {x \in Tid : engine[x] \in {"removed", "expired"}}
Named(x) == {h \in Handles : IsLive(torrents, h) /\ Get(torrents, h) = x}
Alerts == Entries(ltQueue) \cup Entries(batch)
Announced == {x \in Tid : \E a \in Alerts : a.kind = "removed" /\ a.tid = x}
Reported  == {x \in Tid : x \in gone \/ \E e \in Pending : e.kind = "removed" /\ e.tid = x}

Stale ==
  /\ IsFiniteSet(issued)
  /\ Announced \subseteq Over
  /\ \A x \in Tid : AddedOnce(x) /\ engine[x] # "expired" => Named(x) \subseteq {idOf[x]}
  /\ Reported \subseteq Over
  /\ \A x \in Reported : AddedOnce(x) /\ engine[x] # "expired" => Named(x) = {}

LEMMA OnlyTicket ==
  ASSUME IsFiniteSet(issued), NEW x, AddedOnce(x),
         NEW p \in issued, NEW q \in issued, p.tid = x, q.tid = x
  PROVE  p = q
<1> DEFINE S == {r \in issued : r.tid = x}
<1>1. IsFiniteSet(S) /\ Cardinality(S) <= 1 /\ p \in S /\ q \in S
  <2>1. S \in SUBSET issued
    OBVIOUS
  <2> QED BY <2>1, FS_Subset DEF AddedOnce
<1>2. Cardinality(S) \in Nat /\ Cardinality(S) # 0
  <2>1. S # {}
    BY <1>1
  <2> QED BY <1>1, <2>1, FS_CardinalityType, FS_EmptySet
<1>3. Cardinality(S) = 1
  BY <1>1, <1>2
<1>4. PICK r : S = {r}
  BY <1>1, <1>3, FS_Singleton
<1> QED BY <1>1, <1>4

LEMMA OnceBefore ==
  ASSUME IsFiniteSet(issued'), issued \subseteq issued', NEW x, AddedOnce(x)'
  PROVE  AddedOnce(x)
<1> DEFINE S == {p \in issued : p.tid = x}
           T == {p \in issued' : p.tid = x}
<1>1. T \in SUBSET issued' /\ S \in SUBSET T /\ Cardinality(T) <= 1
  BY DEF AddedOnce
<1>2. IsFiniteSet(T) /\ Cardinality(S) <= Cardinality(T) /\ IsFiniteSet(S)
  BY <1>1, FS_Subset
<1>3. Cardinality(T) \in Nat /\ Cardinality(S) \in Nat
  BY <1>2, FS_CardinalityType
<1>4. Cardinality(S) <= 1
  BY <1>1, <1>2, <1>3
<1> QED BY <1>4 DEF AddedOnce

(* libtorrent does not bring a torrent back.                                *)
LEMMA OverStays ==
  ASSUME TypeOK, Books, [Next]_vars
  PROVE  /\ \A x \in Tid : engine[x] = "expired" => engine'[x] = "expired"
         /\ Over \subseteq Over'
<1>1. engine \in [Tid -> {"none", "live", "removing", "removed", "expired"}]
  BY DEF TypeOK
<1>2. ASSUME engine' = engine \/ \E y \in Tid, v \in {"none", "live", "removing", "removed", "expired"} :
                /\ engine' = [engine EXCEPT ![y] = v]
                /\ engine[y] \in {"removed", "expired"} => v = engine[y] \/ v = "expired"
      PROVE  /\ \A x \in Tid : engine[x] = "expired" => engine'[x] = "expired"
             /\ Over \subseteq Over'
  BY <1>1, <1>2 DEF Over
<1>3. CASE UNCHANGED vars \/ SessionNew \/ PollStash \/ PollFresh \/ Extract \/ ExtractThrows \/ PollEnd
  <2>1. engine' = engine
    BY <1>3 DEF vars, engineVars, SessionNew, PollStash, PollFresh, Extract, ExtractThrows, PollEnd
  <2> QED BY <1>2, <2>1
<1>4. ASSUME NEW s \in MadeSessions, SessionFree(s)
      PROVE  /\ \A x \in Tid : engine[x] = "expired" => engine'[x] = "expired"
             /\ Over \subseteq Over'
  BY <1>1, <1>4, SessionFreeStep DEF Over
<1>5. ASSUME NEW h \in Hashes, Add(h)
      PROVE  \E y \in Tid : engine' = [engine EXCEPT ![y] = "live"] /\ engine[y] \in {"none", "live"}
  BY <1>5 DEF Add, Added, Known, Unused
<1>6. ASSUME NEW p \in issued, Remove(p.id)
      PROVE  \E y \in Tid, v \in {"none", "live", "removing", "removed", "expired"} :
                /\ engine' = [engine EXCEPT ![y] = v]
                /\ engine[y] \in {"removed", "expired"} => v = engine[y]
  <2> DEFINE y == torrent_only(p.id)
             v == IF engine[y] = "live" THEN "removing" ELSE engine[y]
  <2>1. y \in Tid
    BY <1>6, ResolveMeaning DEF Books, Remove
  <2>2. engine' = [engine EXCEPT ![y] = v]
    BY <1>6 DEF Remove
  <2>3. v \in {"none", "live", "removing", "removed", "expired"} /\ (engine[y] \in {"removed", "expired"} => v = engine[y])
    BY <1>1, <2>1
  <2> QED BY <2>1, <2>2, <2>3
<1>7. ASSUME NEW x \in Tid, PostEvent(x) \/ EngineRemove(x) \/ Expire(x)
      PROVE  engine' = engine \/ \E v \in {"removed", "expired"} :
                /\ engine' = [engine EXCEPT ![x] = v]
                /\ engine[x] \in {"removed", "expired"} => v = "expired"
  BY <1>1, <1>7 DEF PostEvent, EngineRemove, Expire, engineVars
<1> QED BY <1>2, <1>3, <1>4, <1>5, <1>6, <1>7 DEF Next

(* A step announces a removal only as libtorrent carries it out.            *)
LEMMA AnnouncedSteps ==
  ASSUME TypeOK, Books, [Next]_vars
  PROVE  Announced' \subseteq Announced \cup Over'
<1>1. Entries(<< >>) = {} /\ << >> \in Seq(RawAlert)
  BY EmptySeq DEF Entries
<1>2. ltQueue \in Seq(RawAlert) /\ batch \in Seq(RawAlert)
  BY DEF TypeOK
<1>3. CASE UNCHANGED <<ltQueue, batch>> \/ (ltQueue' = << >> /\ batch' = batch) \/ (ltQueue' = << >> /\ batch' = ltQueue)
           \/ (batch' = << >> /\ ltQueue' = ltQueue)
  BY <1>1, <1>3 DEF Announced, Alerts
<1>4. ASSUME NEW a \in RawAlert, ltQueue' = Append(ltQueue, a), batch' = batch,
             a.kind = "removed" => a.tid \in Over'
      PROVE  Announced' \subseteq Announced \cup Over'
  BY <1>2, <1>4, EntriesOf DEF Announced, Alerts
<1>5. CASE UNCHANGED vars \/ SessionNew \/ PollStash \/ PollFresh \/ ExtractThrows \/ PollEnd
  BY <1>3, <1>5, FreshBooks DEF vars, SessionNew, PollStash, PollFresh, ExtractThrows, PollEnd, popVars
<1>6. ASSUME NEW s \in MadeSessions, SessionFree(s)
      PROVE  Announced' \subseteq Announced \cup Over'
  BY <1>3, <1>6, FreshBooks DEF SessionFree, popVars
<1>7. ASSUME NEW h \in Hashes, Add(h)
      PROVE  Announced' \subseteq Announced \cup Over'
  <2>1. PICK x \in Tid : ltQueue' = Append(ltQueue, [kind |-> "added", tid |-> x])
    BY <1>7 DEF Add, Added, Known, Unused
  <2>2. [kind |-> "added", tid |-> x] \in RawAlert /\ batch' = batch
    BY <1>7 DEF RawAlert, Add, popVars
  <2> QED BY <1>4, <2>1, <2>2
<1>8. ASSUME NEW p \in issued, Remove(p.id)
      PROVE  Announced' \subseteq Announced \cup Over'
  BY <1>3, <1>8 DEF Remove, popVars
<1>9. ASSUME NEW x \in Tid, PostEvent(x) \/ EngineRemove(x) \/ Expire(x)
      PROVE  Announced' \subseteq Announced \cup Over'
  <2>1. [kind |-> "event", tid |-> x] \in RawAlert /\ [kind |-> "removed", tid |-> x] \in RawAlert
    BY DEF RawAlert
  <2>2. CASE PostEvent(x)
    BY <1>4, <2>1, <2>2 DEF PostEvent, popVars
  <2>3. CASE EngineRemove(x)
    <3>1. x \in Over'
      BY <2>3 DEF EngineRemove, Over, TypeOK
    <3> QED BY <1>4, <2>1, <2>3, <3>1 DEF EngineRemove, popVars
  <2>4. CASE Expire(x)
    BY <1>3, <2>4 DEF Expire, popVars
  <2> QED BY <1>9, <2>2, <2>3, <2>4
<1>10. CASE Extract
  BY <1>10, ExtractStep DEF Announced, Alerts
<1> QED BY <1>5, <1>6, <1>7, <1>8, <1>9, <1>10 DEF Next

(* A step reports a removal only as it extracts the alert.                  *)
LEMMA ReportedSteps ==
  ASSUME TypeOK, Books, [Next]_vars
  PROVE  \/ Reported' \subseteq Reported
         \/ Extract /\ Head(batch).kind = "removed" /\ Reported' \subseteq Reported \cup {Head(batch).tid}
<1>1. Entries(<< >>) = {}
  BY DEF Entries
<1>2. ASSUME gone' = gone, Pending' \subseteq Pending
      PROVE  Reported' \subseteq Reported
  BY <1>2 DEF Reported
<1>13. ASSUME UNCHANGED <<stash, out, gone>>
      PROVE  Reported' \subseteq Reported
  BY <1>2, <1>13 DEF Pending
<1>3. CASE UNCHANGED vars
  BY <1>13, <1>3 DEF vars, popVars, histVars
<1>4. CASE SessionNew
  BY <1>1, <1>2, <1>4, FreshBooks DEF SessionNew, popVars, histVars, Pending
<1>5. ASSUME NEW s \in MadeSessions, SessionFree(s)
      PROVE  Reported' \subseteq Reported
  BY <1>1, <1>2, <1>5, FreshBooks DEF SessionFree, popVars, histVars, Pending
<1>6. ASSUME NEW h \in Hashes, Add(h)
      PROVE  Reported' \subseteq Reported
  BY <1>13, <1>6 DEF Add, popVars
<1>7. ASSUME NEW p \in issued, Remove(p.id)
      PROVE  Reported' \subseteq Reported
  BY <1>13, <1>7 DEF Remove, popVars, histVars
<1>8. ASSUME NEW x \in Tid, PostEvent(x) \/ EngineRemove(x) \/ Expire(x)
      PROVE  Reported' \subseteq Reported
  BY <1>13, <1>8 DEF PostEvent, EngineRemove, Expire, popVars, histVars
<1>9. CASE PollStash
  <2>1. Entries(stash') \subseteq Entries(stash) /\ out' = out /\ gone' \subseteq gone \cup RemovedIn(stash)
    BY <1>9, PollStashStep DEF PollStash, popVars
  <2> QED BY <2>1 DEF Reported, Pending, RemovedIn
<1>10. CASE PollFresh
  <2>1. out = << >> /\ out' = stash /\ stash' = << >> /\ gone' = gone
    BY <1>10 DEF PollFresh, Books, histVars
  <2> QED BY <1>1, <1>2, <2>1 DEF Pending
<1>11. CASE Extract
  <2> DEFINE a == Head(batch)
             e == [kind |-> a.kind, tid |-> a.tid, id |-> idForHandle(a.tid)]
  <2>1. Pending' = Pending \cup {e} /\ gone' = gone
    BY <1>11, ExtractStep DEF Pending
  <2>2. e.kind = a.kind /\ e.tid = a.tid
    OBVIOUS
  <2> HIDE DEF e, a
  <2>3. Reported' \subseteq Reported \cup {x \in Tid : a.kind = "removed" /\ x = a.tid}
    BY <2>1, <2>2 DEF Reported
  <2> QED BY <1>11, <2>3 DEF a
<1>12. CASE ExtractThrows \/ PollEnd
  <2>1. stash' = stash /\ out' = << >> /\ gone' \subseteq gone \cup RemovedIn(out)
    BY <1>12, PollEndStep DEF ExtractThrows, PollEnd
  <2> QED BY <1>1, <2>1 DEF Reported, Pending, RemovedIn
<1> QED
  BY <1>3, <1>4, <1>5, <1>6, <1>7, <1>8, <1>9, <1>10, <1>11, <1>12 DEF Next

(* Only an add gives a torrent a slot; and it is never one that is over.    *)
LEMMA NamedSteps ==
  ASSUME TypeOK, Books, [Next]_vars, NEW x \in Tid
  PROVE  \/ Named(x)' \subseteq Named(x)
         \/ /\ ~IsFull(torrents) /\ engine[x] \in {"none", "live"}
            /\ Named(x)' = Named(x) \cup {AllocHandle(torrents)} /\ idOf' = [idOf EXCEPT ![x] = AllocHandle(torrents)]
            /\ issued' = issued \cup {Ticket(AllocHandle(torrents), x)}
<1>0. TableSound(torrents, Tid)
  BY DEF Books
<1>1. CASE torrents' = EmptyTable \/ torrents' = torrents
  BY <1>1, EmptyMap DEF Named
<1>2. ASSUME NEW f \in Handles, IsLive(torrents, f), torrents' = FreeTable(torrents, f)
      PROVE  Named(x)' \subseteq Named(x)
  BY <1>0, <1>2, FreeMap DEF Named
<1>3. ASSUME NEW h \in Hashes, Add(h)
      PROVE  \/ Named(x)' \subseteq Named(x)
             \/ /\ ~IsFull(torrents) /\ engine[x] \in {"none", "live"}
                /\ Named(x)' = Named(x) \cup {AllocHandle(torrents)} /\ idOf' = [idOf EXCEPT ![x] = AllocHandle(torrents)]
                /\ issued' = issued \cup {Ticket(AllocHandle(torrents), x)}
  <2> DEFINE n == AllocHandle(torrents)
  <2>1. PICK y \in Added(h) :
          /\ torrents' = AllocTable(torrents, y)
          /\ IF IsFull(torrents) THEN UNCHANGED <<idOf, issued>>
             ELSE idOf' = [idOf EXCEPT ![y] = n] /\ issued' = issued \cup {Ticket(n, y)}
    BY <1>3 DEF Add, Ticket
  <2>2. y \in Tid /\ engine[y] \in {"none", "live"}
    BY DEF Added, Known, Unused
  <2>3. CASE IsFull(torrents)
    BY <1>1, <2>1, <2>3 DEF AllocTable
  <2>4. CASE ~IsFull(torrents)
    <3>1. /\ n \in Handles /\ ~IsLive(torrents, n) /\ IsLive(torrents', n) /\ Get(torrents', n) = y
          /\ \A k \in Handles : k # n => (IsLive(torrents', k) <=> IsLive(torrents, k)) /\ Get(torrents', k) = Get(torrents, k)
      BY <1>0, <2>1, <2>2, <2>4, AllocMap
    <3> HIDE DEF n
    <3>2. CASE x = y
      <4>1. Named(x)' = Named(x) \cup {n}
        BY <3>1, <3>2 DEF Named
      <4> QED BY <2>1, <2>2, <2>4, <3>2, <4>1 DEF n
    <3>3. CASE x # y
      BY <3>1, <3>3 DEF Named
    <3> QED BY <3>2, <3>3
  <2> QED BY <2>3, <2>4
<1>4. CASE MakesSession \/ FreesSession \/ KeepsTickets
  BY <1>1, <1>4 DEF MakesSession, FreesSession, KeepsTickets
<1>5. CASE \E f \in Handles : FreesSlot(f)
  BY <1>2, <1>5 DEF FreesSlot
<1>6. CASE \E h \in Hashes : Add(h)
  BY <1>3, <1>6
<1>7. CASE ~\E h \in Hashes : Add(h)
  <2>1. UNCHANGED vars \/ SessionNew \/ (\E s \in MadeSessions : SessionFree(s)) \/ (\E p \in issued : Remove(p.id))
        \/ (\E z \in Tid : PostEvent(z) \/ EngineRemove(z) \/ Expire(z))
        \/ PollStash \/ PollFresh \/ Extract \/ ExtractThrows \/ PollEnd
    BY <1>7 DEF Next
  <2>2. adds' = adds
    BY <2>1, ExtractStep DEF vars, SessionNew, SessionFree, Remove, PostEvent, EngineRemove, Expire, PollStash,
       PollFresh, ExtractThrows, PollEnd, boundVars
  <2>3. ~\E y \in Tid : AddsTorrent(y)
    BY <2>2, SessionAssumption DEF AddsTorrent, Books
  <2> QED BY <1>4, <1>5, <2>3, TicketSteps
<1> QED BY <1>6, <1>7

LEMMA StaleInit == Init => Stale
<1> SUFFICES ASSUME Init PROVE Stale
  OBVIOUS
<1>1. Entries(<< >>) = {}
  BY DEF Entries
<1>2. Announced = {} /\ Reported = {}
  BY <1>1 DEF Init, Announced, Alerts, Reported, Pending
<1>3. \A x \in Tid : Named(x) = {}
  BY EmptyMap DEF Init, Named
<1> QED BY <1>2, <1>3, FS_EmptySet DEF Init, Stale

(* How the entry of a torrent in the reverse map may change.                *)
LEMMA MapSteps ==
  ASSUME TypeOK, Books, [Next]_vars, NEW x \in Tid
  PROVE  \/ idOf'[x] = idOf[x]
         \/ Named(x)' = {}
         \/ idOf'[x] \in Named(x)'
         \/ \E f \in Named(x) : f \notin Named(x)'
         \/ Extract /\ Head(batch).kind = "removed" /\ Head(batch).tid = x
<1>0. TableSound(torrents, Tid) /\ idOf \in [Tid -> Nat]
  BY DEF TypeOK, Books
<1>1. CASE UNCHANGED vars \/ SessionNew \/ PollStash \/ PollFresh \/ ExtractThrows \/ PollEnd
  <2>1. idOf' = idOf \/ torrents' = EmptyTable
    BY <1>1, FreshBooks DEF vars, SessionNew, PollStash, PollFresh, ExtractThrows, PollEnd, stateVars
  <2> QED BY <2>1, EmptyMap DEF Named
<1>2. ASSUME NEW s \in MadeSessions, SessionFree(s)
      PROVE  idOf' = idOf \/ Named(x)' = {}
  BY <1>2, SessionFreeStep, EmptyMap DEF Named
<1>3. ASSUME NEW h \in Hashes, Add(h)
      PROVE  idOf'[x] = idOf[x] \/ idOf'[x] \in Named(x)'
  <2> DEFINE n == AllocHandle(torrents)
  <2>1. PICK y \in Added(h) : /\ torrents' = AllocTable(torrents, y)
                              /\ IF IsFull(torrents) THEN UNCHANGED <<idOf, issued>>
                                 ELSE idOf' = [idOf EXCEPT ![y] = n]
    BY <1>3 DEF Add
  <2>2. y \in Tid
    BY DEF Added, Known, Unused
  <2>3. CASE ~IsFull(torrents) /\ x = y
    <3>1. n \in Handles /\ IsLive(torrents', n) /\ Get(torrents', n) = y
      BY <1>0, <2>1, <2>2, <2>3, AllocMap
    <3> HIDE DEF n
    <3> QED BY <1>0, <2>1, <2>3, <3>1 DEF Named
  <2>4. CASE IsFull(torrents) \/ x # y
    BY <1>0, <2>1, <2>2, <2>4
  <2> QED BY <2>3, <2>4
<1>4. ASSUME NEW p \in issued, Remove(p.id)
      PROVE  idOf'[x] = idOf[x] \/ \E f \in Named(x) : f \notin Named(x)'
  <2>1. /\ p.id \in Handles /\ IsLive(torrents, p.id) /\ torrent_only(p.id) = Get(torrents, p.id)
        /\ torrent_only(p.id) \in Tid
    BY <1>4, ResolveMeaning DEF Books, Remove
  <2>2. torrents' = FreeTable(torrents, p.id) /\ idOf' = [idOf EXCEPT ![torrent_only(p.id)] = 0]
    BY <1>4 DEF Remove
  <2>3. ~IsLive(torrents', p.id)
    BY <1>0, <2>1, <2>2, FreeMap
  <2>4. CASE torrent_only(p.id) = x
    BY <2>1, <2>3, <2>4 DEF Named
  <2>5. CASE torrent_only(p.id) # x
    BY <1>0, <2>1, <2>2, <2>5
  <2> QED BY <2>4, <2>5
<1>5. ASSUME NEW y \in Tid, PostEvent(y) \/ EngineRemove(y) \/ Expire(y)
      PROVE  idOf' = idOf
  BY <1>5 DEF PostEvent, EngineRemove, Expire, stateVars
<1>6. CASE Extract
  <2>1. \/ idOf' = idOf
        \/ Head(batch).kind = "removed" /\ Head(batch).tid \in Tid /\ idOf' = [idOf EXCEPT ![Head(batch).tid] = 0]
    BY <1>6, ExtractStep DEF RawAlert
  <2> QED BY <1>0, <1>6, <2>1
<1> QED BY <1>1, <1>2, <1>3, <1>4, <1>5, <1>6 DEF Next

(* A torrent added once holds one slot at most.                             *)
OneSlotEach == \A x \in Tid : AddedOnce(x) => \A h, k \in Named(x) : h = k

LEMMA OneSlot == Tickets /\ IsFiniteSet(issued) => OneSlotEach
<1> SUFFICES ASSUME Tickets, IsFiniteSet(issued), NEW x \in Tid, AddedOnce(x),
                    NEW h \in Named(x), NEW k \in Named(x)
             PROVE  h = k
  BY DEF OneSlotEach
<1>1. Ticket(h, x) \in issued /\ Ticket(k, x) \in issued
  BY DEF Named, Tickets
<1>2. Ticket(h, x).tid = x /\ Ticket(k, x).tid = x /\ Ticket(h, x).id = h /\ Ticket(k, x).id = k
  BY DEF Ticket
<1> QED BY <1>1, <1>2, OnlyTicket

(* Extracting its removed alert leaves a torrent without a slot.            *)
LEMMA ExtractFrees ==
  ASSUME TypeOK, Books, Stale, Extract, Head(batch).kind = "removed",
         NEW x \in Tid, x = Head(batch).tid, AddedOnce(x), engine[x] # "expired"
  PROVE  x \in Over /\ Named(x)' = {}
<1>1. x \in Over
  <2>1. x \in Announced
    BY ExtractStep DEF Announced, Alerts
  <2> QED BY <2>1 DEF Stale
<1>2. idForHandle(x) = idOf[x] /\ Named(x) \subseteq {idOf[x]}
  BY <1>1 DEF Over, idForHandle, is_valid, Stale
<1>3. torrents' = FreeTable(torrents, idOf[x]) /\ TableSound(torrents, Tid)
  BY <1>2, ExtractStep DEF Books
<1>4. CASE idOf[x] = 0
  <2>1. Named(x) = {}
    BY <1>2, <1>4, HandleParts DEF Named
  <2>2. torrents' = torrents
    BY <1>3, <1>4 DEF FreeTable, IsLive
  <2> QED BY <1>1, <2>1, <2>2 DEF Named
<1>5. CASE idOf[x] # 0
  <2>1. idOf[x] \in Handles /\ IsLive(torrents, idOf[x])
    BY <1>5 DEF Books
  <2> QED BY <1>1, <1>2, <1>3, <2>1, FreeMap DEF Named
<1> QED BY <1>4, <1>5

LEMMA StaleStep == TypeOK /\ Books /\ Tickets /\ Stale /\ [Next]_vars => Stale'
<1> SUFFICES ASSUME TypeOK, Books, Tickets, Stale, [Next]_vars PROVE Stale'
  OBVIOUS
<1>0. Tickets' /\ TypeOK' /\ Books'
  BY BooksStep, TicketsStep
<1>1. IsFiniteSet(issued') /\ issued \subseteq issued'
  <2>1. issued' = issued \/ \E p : issued' = issued \cup {p}
    BY TicketSteps DEF MakesSession, FreesSession, KeepsTickets, AddsTorrent, FreesSlot
  <2> QED BY <2>1, FS_AddElement DEF Stale
<1>2. Over \subseteq Over' /\ \A x \in Tid : engine[x] = "expired" => engine'[x] = "expired"
  BY OverStays
<1>3. Announced' \subseteq Over'
  BY <1>2, AnnouncedSteps DEF Stale
<1>4. ASSUME NEW x \in Tid, AddedOnce(x)', engine'[x] # "expired"
      PROVE  Named(x)' \subseteq {idOf'[x]}
  <2>1. AddedOnce(x) /\ engine[x] # "expired" /\ Named(x) \subseteq {idOf[x]}
    BY <1>1, <1>2, <1>4, OnceBefore DEF Stale
  <2>2. CASE idOf'[x] \in Named(x)'
    <3>1. (Tickets /\ IsFiniteSet(issued) => OneSlotEach)'
      BY OneSlot, PTL
    <3>2. \A h \in Named(x)' : h = idOf'[x]
      BY <1>0, <1>1, <1>4, <2>2, <3>1 DEF OneSlotEach
    <3> QED BY <3>2
  <2>3. CASE idOf'[x] = idOf[x] /\ Named(x)' \subseteq Named(x)
    BY <2>1, <2>3
  <2>4. CASE ~(Named(x)' \subseteq Named(x))
    <3>1. idOf' = [idOf EXCEPT ![x] = AllocHandle(torrents)] /\ Named(x)' = Named(x) \cup {AllocHandle(torrents)}
      BY <2>4, NamedSteps
    <3>2. idOf'[x] \in Named(x)'
      BY <3>1 DEF TypeOK
    <3> QED BY <2>2, <3>2
  <2>5. ASSUME NEW f \in Named(x), f \notin Named(x)', Named(x)' \subseteq Named(x)
        PROVE  Named(x)' = {}
    BY <2>1, <2>5
  <2>6. CASE Extract /\ Head(batch).kind = "removed" /\ Head(batch).tid = x
    BY <2>1, <2>6, ExtractFrees
  <2> QED BY <2>2, <2>3, <2>4, <2>5, <2>6, MapSteps
<1>5. ASSUME NEW x \in Reported'
      PROVE  x \in Over' /\ (AddedOnce(x)' /\ engine'[x] # "expired" => Named(x)' = {})
  <2>0. x \in Tid
    BY <1>5 DEF Reported
  <2>1. ASSUME AddedOnce(x)', engine'[x] # "expired"
        PROVE  AddedOnce(x) /\ engine[x] # "expired"
    BY <1>1, <1>2, <2>0, <2>1, OnceBefore
  <2>2. CASE x \in Reported
    <3>1. x \in Over /\ x \in Over'
      BY <1>2, <2>2 DEF Stale
    <3>2. Named(x)' \subseteq Named(x)
      BY <2>0, <3>1, NamedSteps DEF Over
    <3> QED BY <2>1, <2>2, <3>1, <3>2 DEF Stale
  <2>3. CASE x \notin Reported
    <3>1. Extract /\ Head(batch).kind = "removed" /\ x = Head(batch).tid
      BY <1>5, <2>3, ReportedSteps
    <3>2. x \in Over
      <4>1. x \in Announced
        BY <2>0, <3>1, ExtractStep DEF Announced, Alerts
      <4> QED BY <4>1 DEF Stale
    <3> QED BY <1>2, <2>0, <2>1, <3>1, <3>2, ExtractFrees
  <2> QED BY <2>2, <2>3
<1> QED BY <1>1, <1>3, <1>4, <1>5 DEF Stale

LEMMA StaleAlways == Spec => [](TypeOK /\ Books /\ Tickets /\ Stale)
<1>1. Init => TypeOK /\ Books /\ Tickets /\ Stale
  BY InitBooks, TicketsInit, StaleInit
<1>2. TypeOK /\ Books /\ Tickets /\ Stale /\ [Next]_vars => (TypeOK /\ Books /\ Tickets /\ Stale)'
  BY BooksStep, TicketsStep, StaleStep
<1> QED BY <1>1, <1>2, PTL DEF Spec

LEMMA StaleMeaning == TypeOK /\ Books /\ Stale => GoneIsStale
<1> SUFFICES ASSUME TypeOK, Books, Stale, NEW x \in gone, AddedOnce(x), NEW p \in issued, torrent_only(p.id) = x
             PROVE  FALSE
  BY DEF GoneIsStale
<1>1. x \in Tid /\ x # None /\ p.id \in Handles
  BY SessionAssumption DEF TypeOK, Tid, Books
<1>2. IsLive(torrents, p.id) /\ Get(torrents, p.id) = x /\ is_valid(x)
  BY <1>1, ResolveMeaning
<1>3. p.id \in Named(x) /\ engine[x] # "expired" /\ x \in Reported
  BY <1>1, <1>2 DEF Named, is_valid, Reported
<1> QED BY <1>3 DEF Stale

(* Once the script has drained the removed event of a torrent that was      *)
(* added once, no id reaches the torrent, in this session or a later one.   *)
THEOREM StaleCorrect == Spec => []GoneIsStale
  BY StaleAlways, StaleMeaning, PTL

-----------------------------------------------------------------------------
(* The count is the number of torrents. The table counts its live handles;  *)
(* while nothing untamed happens, the live handles are those of the live    *)
(* torrents, one each. That needs a slot for every torrent, which they have *)
(* when there are no more torrents than slots.                              *)
Live == {h \in Handles : IsLive(torrents, h)}

Counted ==
  /\ IsFiniteSet(Live) /\ torrents.count = Cardinality(Live)
  /\ gLive = 0 => \A x \in Tid : engine[x] \in {"none", "expired"}
  /\ tame => \A x \in Tid : /\ engine[x] = "live" => \E h : Named(x) = {h}
                            /\ engine[x] # "live" => Named(x) = {}

LEMMA AllocNamed ==
  ASSUME Books, NEW x \in Tid, ~IsFull(torrents), torrents' = AllocTable(torrents, x)
  PROVE  LET n == AllocHandle(torrents) IN
         /\ n \notin Live /\ Live' = Live \cup {n} /\ torrents'.count = torrents.count + 1
         /\ Named(x)' = Named(x) \cup {n}
         /\ \A y \in Tid : y # x => Named(y)' = Named(y)
<1> DEFINE n == AllocHandle(torrents)
<1>1. /\ n \in Handles /\ ~IsLive(torrents, n) /\ IsLive(torrents', n) /\ Get(torrents', n) = x
      /\ \A k \in Handles : k # n => (IsLive(torrents', k) <=> IsLive(torrents, k)) /\ Get(torrents', k) = Get(torrents, k)
      /\ torrents'.count = torrents.count + 1
  BY AllocMap DEF Books
<1> HIDE DEF n
<1>2. n \notin Live /\ Live' = Live \cup {n}
  BY <1>1 DEF Live
<1>3. Named(x)' = Named(x) \cup {n} /\ \A y \in Tid : y # x => Named(y)' = Named(y)
  BY <1>1 DEF Named
<1> QED BY <1>1, <1>2, <1>3 DEF n

LEMMA FreeNamed ==
  ASSUME Books, NEW f \in Live, torrents' = FreeTable(torrents, f)
  PROVE  /\ Live' = Live \ {f} /\ torrents'.count = torrents.count - 1
         /\ \A y \in Tid : Named(y)' = Named(y) \ {f}
<1>1. /\ f \in Handles /\ IsLive(torrents, f) /\ ~IsLive(torrents', f)
      /\ \A k \in Handles : k # f => (IsLive(torrents', k) <=> IsLive(torrents, k)) /\ Get(torrents', k) = Get(torrents, k)
      /\ torrents'.count = torrents.count - 1
  BY FreeMap DEF Books, Live
<1> QED BY <1>1 DEF Live, Named

LEMMA CountedInit == Init => Counted
<1> SUFFICES ASSUME Init PROVE Counted
  OBVIOUS
<1>1. Live = {} /\ \A x \in Tid : Named(x) = {}
  BY EmptyMap DEF Init, Live, Named
<1>2. torrents.count = 0 /\ \A x \in Tid : engine[x] = "none"
  BY DEF Init, EmptyTable
<1> QED BY <1>1, <1>2, FS_EmptySet DEF Counted

(* The table's own counter counts its live handles.                         *)
LEMMA CountStep ==
  ASSUME TypeOK, Books, Counted, [Next]_vars
  PROVE  IsFiniteSet(Live') /\ torrents'.count = Cardinality(Live')
<1>0. IsFiniteSet(Live) /\ torrents.count = Cardinality(Live) /\ Cardinality(Live) \in Nat
  BY FS_CardinalityType DEF Counted
<1>1. CASE torrents' = torrents
  BY <1>0, <1>1 DEF Live
<1>2. CASE torrents' = EmptyTable
  <2>1. Live' = {} /\ torrents'.count = 0
    BY <1>2, EmptyMap DEF Live, EmptyTable
  <2> QED BY <2>1, FS_EmptySet
<1>3. ASSUME NEW x \in Tid, AddsTorrent(x), ~IsFull(torrents)
      PROVE  IsFiniteSet(Live') /\ torrents'.count = Cardinality(Live')
  <2>1. AllocHandle(torrents) \notin Live /\ Live' = Live \cup {AllocHandle(torrents)} /\ torrents'.count = torrents.count + 1
    BY <1>3, AllocNamed DEF AddsTorrent
  <2> QED BY <1>0, <2>1, FS_AddElement
<1>4. ASSUME NEW f \in Handles, FreesSlot(f)
      PROVE  IsFiniteSet(Live') /\ torrents'.count = Cardinality(Live')
  <2>1. f \in Live /\ Live' = Live \ {f} /\ torrents'.count = torrents.count - 1
    BY <1>4, FreeNamed DEF FreesSlot, Live
  <2> QED BY <1>0, <2>1, FS_RemoveElement
<1>5. CASE MakesSession \/ FreesSession \/ KeepsTickets
  BY <1>1, <1>2, <1>5 DEF MakesSession, FreesSession, KeepsTickets
<1>6. ASSUME NEW x \in Tid, AddsTorrent(x), IsFull(torrents)
      PROVE  torrents' = torrents
  BY <1>6 DEF AddsTorrent, AllocTable
<1> QED BY <1>1, <1>3, <1>4, <1>5, <1>6, TicketSteps

(* There is a slot for one more torrent: a full table would hold as many    *)
(* different torrents as it has slots.                                      *)
LEMMA RoomForOne ==
  ASSUME TypeOK, Books, Tickets, Counted, tame, MaxTorrents <= Capacity,
         NEW x \in Tid, engine[x] # "live"
  PROVE  ~IsFull(torrents)
<1> SUFFICES ASSUME IsFull(torrents) PROVE FALSE
  OBVIOUS
<1> DEFINE at(i) == encode(torrents.slots[i].gen, i)
           f == [i \in Index |-> Get(torrents, at(i))]
<1>1. TableSound(torrents, Tid) /\ torrents \in Table(Tid)
  BY DEF Books, TableSound
<1>2. ASSUME NEW i \in Index
      PROVE  at(i) \in Handles /\ decode_idx(at(i)) = i /\ IsLive(torrents, at(i))
  <2>1. torrents.size = Capacity /\ i < Capacity /\ torrents.free = << >> /\ Len(torrents.free) = 0
    BY CapacityAssumption, EmptySeq DEF Index, IsFull
  <2>2. torrents.slots[i].live
    BY <1>1, <2>1 DEF TableSound
  <2>3. torrents.slots[i].gen \in 1..GenMax
    BY <1>1, <2>2, TableTypes, GenMaxAssumption DEF TableSound, Gen
  <2> QED BY <2>1, <2>2, <2>3, Decode DEF IsLive
<1>3. ASSUME NEW i \in Index
      PROVE  f[i] \in Tid \ {x} /\ \E h : Named(f[i]) = {h}
  <2>1. Ticket(at(i), f[i]) \in issued
    BY <1>2 DEF Tickets
  <2>2. f[i] \in Tid
    BY <2>1 DEF Ticket, TypeOK
  <2>3. at(i) \in Named(f[i])
    BY <1>2 DEF Named
  <2> QED BY <2>2, <2>3 DEF Counted
<1>4. IsFiniteSet(Index) /\ Cardinality(Index) = Capacity
  <2>1. 0 \in Int /\ Capacity - 1 \in Int /\ ~(0 > Capacity - 1) /\ Capacity - 1 - 0 + 1 = Capacity
    BY CapacityAssumption
  <2> QED BY <2>1, FS_Interval DEF Index
<1>5. IsFiniteSet(Tid \ {x}) /\ Cardinality(Tid \ {x}) < Cardinality(Index)
  <2>1. IsFiniteSet(Tid) /\ Cardinality(Tid) = MaxTorrents
    BY FS_Interval, SessionAssumption DEF Tid
  <2>2. IsFiniteSet(Tid \ {x}) /\ Cardinality(Tid \ {x}) = MaxTorrents - 1
    BY <2>1, FS_RemoveElement
  <2> QED BY <1>4, <2>2, SessionAssumption, CapacityAssumption
<1>6. f \in [Index -> Tid \ {x}]
  BY <1>3
<1>7. PICK i, j \in Index : i # j /\ f[i] = f[j]
  <2> HIDE DEF f
  <2> QED BY <1>4, <1>5, <1>6, FS_PigeonHole
<1>8. at(i) \in Named(f[i]) /\ at(j) \in Named(f[i])
  BY <1>2, <1>7 DEF Named
<1>9. at(i) = at(j)
  BY <1>3, <1>8
<1> QED BY <1>2, <1>7, <1>9

(* While no session lives, no torrent does.                                 *)
LEMMA IdleStep ==
  ASSUME TypeOK, Books, Counted, [Next]_vars, gLive' = 0
  PROVE  \A x \in Tid : engine'[x] \in {"none", "expired"}
<1>1. CASE UNCHANGED <<gLive, engine>>
  BY <1>1 DEF Counted
<1>2. CASE UNCHANGED vars \/ PollStash \/ PollFresh \/ Extract \/ ExtractThrows \/ PollEnd
  BY <1>1, <1>2, ExtractStep DEF vars, shimVars, engineVars, PollStash, PollFresh, ExtractThrows, PollEnd
<1>3. ASSUME NEW s \in MadeSessions, SessionFree(s)
      PROVE  \A x \in Tid : engine'[x] \in {"none", "expired"}
  BY <1>1, <1>3, SessionFreeStep
<1>4. ~SessionNew
  BY SessionNewStep
<1>5. ~\E h \in Hashes : Add(h)
  BY LatchMeaning DEF Add, shimVars
<1>6. ~\E p \in issued : Remove(p.id)
  BY ResolveMeaning DEF Books, Remove, shimVars
<1>7. ASSUME NEW x \in Tid, PostEvent(x) \/ EngineRemove(x) \/ Expire(x)
      PROVE  \A y \in Tid : engine'[y] \in {"none", "expired"}
  <2>1. gLive = 0
    BY <1>7 DEF PostEvent, EngineRemove, Expire, shimVars
  <2> QED BY <1>7, <2>1 DEF Counted, PostEvent, EngineRemove, Expire
<1> QED BY <1>2, <1>3, <1>4, <1>5, <1>6, <1>7 DEF Next

(* Slots and torrents stay paired: an add and a remove change both at once. *)
LEMMA PairStep ==
  ASSUME TypeOK, Books, Tickets, Stale, Counted, MaxTorrents <= Capacity, [Next]_vars,
         tame', NEW x \in Tid
  PROVE  /\ engine'[x] = "live" => \E h : Named(x)' = {h}
         /\ engine'[x] # "live" => Named(x)' = {}
<1>0. engine \in [Tid -> {"none", "live", "removing", "removed", "expired"}]
  BY DEF TypeOK
<1>1. CASE tame /\ torrents' = torrents /\ (engine'[x] = "live" <=> engine[x] = "live")
  BY <1>1 DEF Counted, Named
<1>2. CASE torrents' = EmptyTable /\ engine'[x] # "live"
  BY <1>2, EmptyMap DEF Named
<1>3. CASE UNCHANGED vars \/ PollStash \/ PollFresh \/ ExtractThrows \/ PollEnd
  <2>1. tame /\ torrents' = torrents /\ engine' = engine
    BY <1>3 DEF vars, stateVars, engineVars, histVars, PollStash, PollFresh, ExtractThrows, PollEnd
  <2> QED BY <1>1, <2>1
<1>4. CASE SessionNew
  <2>1. engine' = engine /\ gLive = 0 /\ torrents' = EmptyTable
    BY <1>4, SessionNewStep DEF SessionNew, engineVars
  <2> QED BY <1>2, <2>1 DEF Counted
<1>5. ASSUME NEW s \in MadeSessions, SessionFree(s)
      PROVE  /\ engine'[x] = "live" => \E h : Named(x)' = {h}
             /\ engine'[x] # "live" => Named(x)' = {}
  <2>1. tame
    BY <1>5 DEF SessionFree, histVars
  <2> QED BY <1>1, <1>2, <1>5, <2>1, SessionFreeStep
<1>6. ASSUME NEW h \in Hashes, Add(h)
      PROVE  /\ engine'[x] = "live" => \E k : Named(x)' = {k}
             /\ engine'[x] # "live" => Named(x)' = {}
  <2>1. tame /\ Known(h) = {}
    BY <1>6 DEF Add
  <2>2. PICK y \in Added(h) : engine' = [engine EXCEPT ![y] = "live"] /\ torrents' = AllocTable(torrents, y)
    BY <1>6 DEF Add
  <2>3. y \in Tid /\ engine[y] = "none"
    BY <2>1 DEF Added, Unused
  <2>4. ~IsFull(torrents)
    BY <2>1, <2>3, RoomForOne
  <2>5. /\ Named(y)' = Named(y) \cup {AllocHandle(torrents)} /\ Named(y) = {}
        /\ x # y => Named(x)' = Named(x)
    BY <2>1, <2>2, <2>3, <2>4, AllocNamed DEF Counted
  <2> QED BY <1>0, <2>1, <2>2, <2>3, <2>5 DEF Counted
<1>7. ASSUME NEW p \in issued, Remove(p.id)
      PROVE  /\ engine'[x] = "live" => \E h : Named(x)' = {h}
             /\ engine'[x] # "live" => Named(x)' = {}
  <2> DEFINE y == torrent_only(p.id)
  <2>1. p.id \in Handles /\ IsLive(torrents, p.id) /\ y = Get(torrents, p.id) /\ y \in Tid
    BY <1>7, ResolveMeaning DEF Books, Remove
  <2>2. /\ tame /\ torrents' = FreeTable(torrents, p.id)
        /\ engine' = [engine EXCEPT ![y] = IF @ = "live" THEN "removing" ELSE @]
    BY <1>7 DEF Remove, histVars
  <2> HIDE DEF y
  <2>3. p.id \in Named(y) /\ p.id \in Live
    BY <2>1 DEF Named, Live
  <2>4. Named(y) = {p.id} /\ engine[y] = "live"
    BY <2>1, <2>2, <2>3 DEF Counted
  <2>5. Named(x)' = Named(x) \ {p.id}
    BY <2>2, <2>3, FreeNamed
  <2>6. CASE x = y
    BY <1>0, <2>1, <2>2, <2>4, <2>5, <2>6
  <2>7. CASE x # y
    <3>1. p.id \notin Named(x)
      BY <2>1, <2>7 DEF Named
    <3>2. engine'[x] = engine[x] /\ Named(x)' = Named(x)
      BY <1>0, <2>1, <2>2, <2>5, <2>7, <3>1
    <3> QED BY <2>2, <3>2 DEF Counted
  <2> QED BY <2>6, <2>7
<1>8. ASSUME NEW y \in Tid, PostEvent(y) \/ EngineRemove(y) \/ Expire(y)
      PROVE  tame /\ torrents' = torrents /\ (engine'[x] = "live" <=> engine[x] = "live")
  BY <1>0, <1>8 DEF PostEvent, EngineRemove, Expire, stateVars, engineVars, histVars
<1>9. CASE Extract
  <2> DEFINE y == Head(batch).tid
  <2>1. /\ tame /\ engine' = engine /\ Head(batch) \in RawAlert /\ Head(batch) \in Entries(batch)
        /\ Head(batch).kind # "removed" => torrents' = torrents
        /\ Head(batch).kind = "removed" => torrents' = FreeTable(torrents, idForHandle(y))
    BY <1>9, ExtractStep
  <2>2. y \in Tid
    BY <2>1 DEF RawAlert
  <2>3. ASSUME Head(batch).kind = "removed" PROVE torrents' = torrents
    <3>1. y \in Announced
      BY <2>1, <2>2, <2>3 DEF Announced, Alerts
    <3>2. engine[y] # "live"
      BY <3>1 DEF Stale, Over
    <3>3. Named(y) = {}
      BY <2>1, <2>2, <3>2 DEF Counted
    <3>4. idOf[y] = 0
      BY <2>2, <3>3 DEF Books, Named
    <3>5. ~IsLive(torrents, idForHandle(y))
      BY <3>4 DEF idForHandle, IsLive
    <3> QED BY <2>1, <2>3, <3>5 DEF FreeTable
  <2> QED BY <1>1, <2>1, <2>3
<1> QED BY <1>1, <1>3, <1>4, <1>5, <1>6, <1>7, <1>8, <1>9 DEF Next

LEMMA CountAlways ==
  ASSUME MaxTorrents <= Capacity
  PROVE  Spec => [](TypeOK /\ Books /\ Tickets /\ Stale /\ Counted)
<1>1. Init => TypeOK /\ Books /\ Tickets /\ Stale /\ Counted
  BY InitBooks, TicketsInit, StaleInit, CountedInit
<1>2. TypeOK /\ Books /\ Tickets /\ Stale /\ Counted /\ [Next]_vars
      => (TypeOK /\ Books /\ Tickets /\ Stale /\ Counted)'
  <2> SUFFICES ASSUME TypeOK, Books, Tickets, Stale, Counted, [Next]_vars PROVE (TypeOK /\ Books /\ Tickets /\ Stale /\ Counted)'
    OBVIOUS
  <2>1. Counted'
    BY CountStep, IdleStep, PairStep DEF Counted
  <2> QED BY <2>1, BooksStep, TicketsStep, StaleStep
<1> QED BY <1>1, <1>2, PTL DEF Spec

LEMMA CountMeaning == Books /\ Tickets /\ TypeOK /\ Counted => CountTracksTorrents
<1> SUFFICES ASSUME TypeOK, Books, Tickets, Counted, tame
             PROVE  live_count(torrents) = Cardinality({x \in Tid : engine[x] = "live"})
  BY DEF CountTracksTorrents
<1> DEFINE T == {x \in Tid : engine[x] = "live"}
           f == [h \in Live |-> Get(torrents, h)]
<1>1. ASSUME NEW h \in Live PROVE Get(torrents, h) \in T /\ h \in Named(Get(torrents, h))
  <2>1. Ticket(h, Get(torrents, h)) \in issued
    BY DEF Tickets, Live
  <2>2. Get(torrents, h) \in Tid
    BY <2>1 DEF Ticket, TypeOK
  <2>3. h \in Named(Get(torrents, h))
    BY DEF Named, Live
  <2> QED BY <2>2, <2>3 DEF Counted
<1>2. ASSUME NEW x \in T PROVE \E h : Named(x) = {h} /\ h \in Live /\ Get(torrents, h) = x
  BY DEF Counted, Named, Live
<1>3. f \in Bijection(Live, T)
  <2>1. f \in [Live -> T]
    BY <1>1
  <2>2. \A h, k \in Live : f[h] = f[k] => h = k
    BY <1>1, <1>2
  <2>3. \A x \in T : \E h \in Live : f[h] = x
    BY <1>2
  <2> HIDE DEF f, T
  <2>4. f \in Injection(Live, T)
    BY <2>1, <2>2 DEF Injection, IsInjective
  <2>5. f \in Surjection(Live, T)
    BY <2>1, <2>3 DEF Surjection
  <2> QED BY <2>4, <2>5 DEF Bijection
<1>4. Cardinality(T) = Cardinality(Live)
  <2> HIDE DEF f, T
  <2> QED BY <1>3, FS_Bijection DEF ExistsBijection, Counted
<1> QED BY <1>4 DEF live_count, Counted

(* btx_torrent_count is the number of torrents in the session, while only   *)
(* the caller removed any and none was added twice; and the ids of removed  *)
(* torrents are stale. There must be a slot for every torrent: one that an  *)
(* add leaves without is in the session and not in the table.               *)
THEOREM CountCorrect ==
  ASSUME MaxTorrents <= Capacity
  PROVE  Spec => []Reclaimed
<1>1. TypeOK /\ Books /\ Tickets /\ Stale /\ Counted => Reclaimed
  BY StaleMeaning, CountMeaning DEF Reclaimed
<1> QED BY <1>1, CountAlways, PTL

=============================================================================
