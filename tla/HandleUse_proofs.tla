-------------------------- MODULE HandleUse_proofs --------------------------
(***************************************************************************)
(* Theorems about the handle table, for every capacity, generation limit   *)
(* and set of objects:                                                     *)
(*   TypeCorrect      the table keeps its type through any calls           *)
(*   FreeListCorrect  the free stack is exactly the dead slots, once each  *)
(*   NeverReissued    below GenMax frees of a slot, the table implements   *)
(*                    the registry of never-reused handles                 *)
(***************************************************************************)
EXTENDS HandleUse, SequenceTheorems, TLAPS

-----------------------------------------------------------------------------
(* The bit layout: a generation and an index go into a handle and come     *)
(* back out of it unchanged.                                               *)
LEMMA EncodeDecode ==
  ASSUME NEW g \in Int, 1 <= g, g <= 32767, NEW i \in Int, 0 <= i, i < 65536
  PROVE  /\ encode(g, i) \in Int
         /\ encode(g, i) > 0
         /\ decode_gen(encode(g, i)) = g
         /\ decode_idx(encode(g, i)) = i
<1>1. (g * 65536 + i) % 65536 = i
  OBVIOUS
<1>2. (g * 65536 + i) \div 65536 = g
  OBVIOUS
<1>3. g % 32768 = g
  OBVIOUS
<1>4. g * 65536 + i \in Int /\ g * 65536 + i > 0
  OBVIOUS
<1> QED
  BY <1>1, <1>2, <1>3, <1>4 DEF encode, decode_gen, decode_idx, Span

LEMMA DecodeType ==
  ASSUME NEW h \in Int
  PROVE  /\ decode_idx(h) \in Int /\ 0 <= decode_idx(h) /\ decode_idx(h) < 65536
         /\ decode_gen(h) \in Int /\ 0 <= decode_gen(h) /\ decode_gen(h) < 32768
  BY DEF decode_idx, decode_gen, Span

(* Popping the free stack keeps every entry below the top.                 *)
LEMMA PopStack ==
  ASSUME NEW S, NEW s \in Seq(S), s # << >>
  PROVE  /\ Pop(s) \in Seq(S)
         /\ Len(Pop(s)) = Len(s) - 1
         /\ \A k \in 1..(Len(s) - 1) : Pop(s)[k] = s[k]
         /\ Len(s) \in Nat \ {0}
         /\ s[Len(s)] \in S
<1>1. Len(s) \in Nat \ {0}
  BY EmptySeq
<1>2. \A k \in 1..Len(s) : s[k] \in S
  BY ElementOfSeq
<1>3. \A k \in 1..(Len(s) - 1) : s[k] \in S
  BY <1>1, <1>2
<1>4. /\ Pop(s) \in Seq(S)
      /\ Len(Pop(s)) = IF 1 <= Len(s) - 1 THEN Len(s) - 1 - 1 + 1 ELSE 0
      /\ \A k \in 1..(Len(s) - 1 - 1 + 1) : Pop(s)[k] = s[1 + k - 1]
  BY <1>1, <1>3, SubSeqProperties DEF Pop
<1>5. s[Len(s)] \in S
  BY <1>1, <1>2
<1>6. Len(Pop(s)) = Len(s) - 1
  <2>1. \A n \in Nat \ {0} : (IF 1 <= n - 1 THEN n - 1 - 1 + 1 ELSE 0) = n - 1
    OBVIOUS
  <2> QED BY <1>1, <1>4, <2>1
<1>7. \A k \in 1..(Len(s) - 1) : Pop(s)[k] = s[k]
  <2> TAKE k \in 1..(Len(s) - 1)
  <2>1. Len(s) - 1 - 1 + 1 = Len(s) - 1 /\ 1 + k - 1 = k
    BY <1>1
  <2> QED BY <1>4, <2>1
<1> QED
  BY <1>1, <1>4, <1>5, <1>6, <1>7

(* A table that is not full has a slot to give, dead and in range.         *)
LEMMA AllocIndexInRange ==
  ASSUME TypeOK, ~IsFull(tab)
  PROVE  AllocIndex(tab) \in Index
<1>1. CASE tab.free # << >>
  BY <1>1, PopStack DEF TypeOK, Table, AllocIndex
<1>2. CASE tab.free = << >>
  BY <1>2, CapacityAssumption DEF TypeOK, Table, AllocIndex, IsFull, Index, Span
<1> QED
  BY <1>1, <1>2

LEMMA AllocGenInRange ==
  ASSUME TypeOK, ~IsFull(tab)
  PROVE  AllocGen(tab) \in 1..GenMax
  BY AllocIndexInRange, GenMaxAssumption DEF TypeOK, Table, Slot, AllocGen, Gen

LEMMA LiveIndexInRange ==
  ASSUME TypeOK, NEW h \in issued, IsLive(tab, h)
  PROVE  decode_idx(h) \in Index /\ decode_idx(h) < tab.size
  BY DecodeType, CapacityAssumption DEF TypeOK, Table, IsLive, Index, Span

-----------------------------------------------------------------------------
(* Every state reached by alloc and free calls is well-typed: generations  *)
(* stay within 15 bits and the free stack within the table.                *)
LEMMA TypeInductive == TypeOK /\ [Next]_vars => TypeOK'
<1> SUFFICES ASSUME TypeOK, [Next]_vars PROVE TypeOK'
  OBVIOUS
<1>1. ASSUME NEW o \in Objects, Alloc(o) PROVE TypeOK'
  <2>1. CASE IsFull(tab)
    BY <1>1, <2>1 DEF Alloc, AllocTable, AllocHandle, TypeOK
  <2>2. CASE ~IsFull(tab)
    <3> DEFINE i == AllocIndex(tab)
    <3>1. i \in Index /\ AllocGen(tab) \in 1..GenMax
      BY <2>2, AllocIndexInRange, AllocGenInRange
    <3>2. AllocHandle(tab) \in Int
      BY <2>2, <3>1, CapacityAssumption, GenMaxAssumption DEF AllocHandle, encode, Span, Index
    <3> DEFINE slot == [obj |-> o, gen |-> AllocGen(tab), live |-> TRUE]
    <3>3. slot \in Slot
      BY <3>1, GenMaxAssumption DEF Slot, Gen
    <3>4. [tab.slots EXCEPT ![i] = slot] \in [Index -> Slot]
      BY <3>1, <3>3 DEF TypeOK, Table
    <3>5. (IF tab.free # << >> THEN tab.size ELSE tab.size + 1) \in 0..Capacity
      BY <2>2, CapacityAssumption DEF TypeOK, Table, IsFull, Span
    <3>6. (IF tab.free # << >> THEN Pop(tab.free) ELSE tab.free) \in Seq(Index)
      BY PopStack DEF TypeOK, Table
    <3>7. tab' = [slots |-> [tab.slots EXCEPT ![i] = slot],
                  size  |-> IF tab.free # << >> THEN tab.size ELSE tab.size + 1,
                  free  |-> IF tab.free # << >> THEN Pop(tab.free) ELSE tab.free,
                  count |-> tab.count + 1]
      BY <1>1, <2>2 DEF Alloc, AllocTable
    <3>8. tab' \in Table
      BY <3>4, <3>5, <3>6, <3>7 DEF TypeOK, Table
    <3> QED
      BY <1>1, <3>2, <3>8 DEF Alloc, TypeOK
  <2> QED BY <2>1, <2>2
<1>2. ASSUME NEW h \in issued, Free(h) PROVE TypeOK'
  <2>1. CASE ~IsLive(tab, h)
    BY <1>2, <2>1 DEF Free, FreeTable, TypeOK
  <2>2. CASE IsLive(tab, h)
    <3> DEFINE i == decode_idx(h)
    <3>1. i \in Index
      BY <2>2, LiveIndexInRange
    <3>2. NextGen(tab.slots[i].gen) \in Gen
      BY <3>1, GenMaxAssumption DEF TypeOK, Table, Slot, NextGen, Gen
    <3> DEFINE slot == [obj |-> None, gen |-> NextGen(tab.slots[i].gen), live |-> FALSE]
    <3>3. [tab.slots EXCEPT ![i] = slot] \in [Index -> Slot]
      BY <3>1, <3>2 DEF TypeOK, Table, Slot
    <3>4. Append(tab.free, i) \in Seq(Index)
      BY <3>1 DEF TypeOK, Table
    <3>5. tab' = [slots |-> [tab.slots EXCEPT ![i] = slot], size |-> tab.size,
                  free |-> Append(tab.free, i), count |-> tab.count - 1]
      BY <1>2, <2>2 DEF Free, FreeTable
    <3>6. tab' \in Table
      BY <3>3, <3>4, <3>5 DEF TypeOK, Table
    <3>7. frees' \in [Index -> Nat]
      BY <1>2, <2>2, <3>1 DEF Free, TypeOK
    <3> QED
      BY <1>2, <3>6, <3>7 DEF Free, TypeOK
  <2> QED BY <2>1, <2>2
<1>3. CASE UNCHANGED vars
  BY <1>3 DEF vars, TypeOK
<1> QED
  BY <1>1, <1>2, <1>3 DEF Next

-----------------------------------------------------------------------------
(* How one alloc and one free change the table, stated once.               *)
LEMMA AllocStep ==
  ASSUME TypeOK, NEW o \in Objects, Alloc(o), ~IsFull(tab)
  PROVE  LET i == AllocIndex(tab) IN
         /\ i \in Index
         /\ tab'.slots = [tab.slots EXCEPT ![i] = [obj |-> o, gen |-> AllocGen(tab), live |-> TRUE]]
         /\ tab.free # << >> => i = tab.free[Len(tab.free)] /\ tab'.free = Pop(tab.free) /\ tab'.size = tab.size
         /\ tab.free = << >> => i = tab.size /\ tab'.free = << >> /\ tab'.size = tab.size + 1
         /\ issued' = issued \cup {encode(AllocGen(tab), i)}
         /\ frees' = frees
<1> DEFINE i == AllocIndex(tab)
<1>1. i \in Index /\ AllocGen(tab) \in 1..GenMax
  BY AllocIndexInRange, AllocGenInRange
<1>2. i \in Int /\ 0 <= i /\ i < 65536 /\ AllocGen(tab) \in Int
      /\ 1 <= AllocGen(tab) /\ AllocGen(tab) <= 32767
  BY <1>1, CapacityAssumption, GenMaxAssumption DEF Index, Span
<1>3. AllocHandle(tab) = encode(AllocGen(tab), i) /\ AllocHandle(tab) # 0
  BY <1>2, EncodeDecode DEF AllocHandle
<1> QED
  BY <1>1, <1>3 DEF Alloc, AllocTable, AllocIndex

LEMMA FreeStep ==
  ASSUME TypeOK, NEW h \in issued, Free(h), IsLive(tab, h)
  PROVE  LET i == decode_idx(h) IN
         /\ i \in Index /\ i < tab.size /\ tab.slots[i].live
         /\ tab'.slots = [tab.slots EXCEPT ![i] =
                            [obj |-> None, gen |-> NextGen(tab.slots[i].gen), live |-> FALSE]]
         /\ tab'.free = Append(tab.free, i) /\ tab'.size = tab.size
         /\ issued' = issued /\ frees[i] < MaxFrees
         /\ frees' = [frees EXCEPT ![i] = @ + 1]
BY LiveIndexInRange DEF Free, FreeTable, IsLive

(* The calls that leave everything alone.                                  *)
LEMMA NoStep ==
  ASSUME TypeOK, [Next]_vars
  PROVE  \/ UNCHANGED vars
         \/ \E o \in Objects : Alloc(o) /\ ~IsFull(tab)
         \/ \E h \in issued : Free(h) /\ IsLive(tab, h)
<1>1. ASSUME NEW o \in Objects, Alloc(o), IsFull(tab) PROVE UNCHANGED vars
  BY <1>1 DEF Alloc, AllocTable, AllocHandle, vars
<1>2. ASSUME NEW h \in issued, Free(h), ~IsLive(tab, h) PROVE UNCHANGED vars
  BY <1>2 DEF Free, FreeTable, vars
<1> QED
  BY <1>1, <1>2 DEF Next

-----------------------------------------------------------------------------
(* The free stack, entry by entry: FreeListExact in the form the step      *)
(* proofs use.                                                             *)
StackDistinct == \A j, k \in 1..Len(tab.free) : tab.free[j] = tab.free[k] => j = k
StackDead     == \A k \in 1..Len(tab.free) :
                   tab.free[k] \in Index /\ tab.free[k] < tab.size /\ ~tab.slots[tab.free[k]].live
StackComplete == \A i \in Index : i < tab.size /\ ~tab.slots[i].live =>
                   \E k \in 1..Len(tab.free) : tab.free[k] = i

LEMMA StackForm ==
  FreeListExact <=> StackDistinct /\ StackDead /\ StackComplete
BY DEF FreeListExact, FreeIndices, StackDistinct, StackDead, StackComplete

(* The empty table is well-typed and its free stack exact.                 *)
LEMMA InitTypeAndStack == Init => TypeOK /\ FreeListExact
<1>1. Init => TypeOK
  <2> SUFFICES ASSUME Init PROVE TypeOK
    OBVIOUS
  <2>1. 0 \in Gen /\ 0 \in 0..Capacity
    BY CapacityAssumption, GenMaxAssumption DEF Gen, Span
  <2>2. EmptySlot \in Slot
    <3>1. None \in Objects \cup {None} /\ FALSE \in BOOLEAN
      OBVIOUS
    <3> QED BY <2>1, <3>1 DEF EmptySlot, Slot
  <2>3. [i \in Index |-> EmptySlot] \in [Index -> Slot]
    BY <2>2
  <2>4. << >> \in Seq(Index)
    BY EmptySeq
  <2>5. EmptyTable \in Table
    BY <2>1, <2>3, <2>4 DEF EmptyTable, Table
  <2>6. frees \in [Index -> Nat]
    BY DEF Init
  <2> QED
    BY <2>5, <2>6 DEF Init, TypeOK
<1>2. Init => FreeListExact
  <2> SUFFICES ASSUME Init PROVE StackDistinct /\ StackDead /\ StackComplete
    BY StackForm
  <2>1. tab.free = << >> /\ tab.size = 0
    BY DEF Init, EmptyTable
  <2>2. Len(tab.free) = 0
    BY <2>1, EmptySeq
  <2>3. \A i \in Index : ~(i < tab.size)
    BY <2>1, CapacityAssumption DEF Index
  <2> QED
    BY <2>2, <2>3 DEF StackDistinct, StackDead, StackComplete
<1> QED BY <1>1, <1>2

(* Type correctness of the table under any use.                            *)
THEOREM TypeCorrect == Spec => []TypeOK
<1>1. Init => TypeOK
  BY InitTypeAndStack
<1> QED
  BY <1>1, TypeInductive, PTL DEF Spec

LEMMA FreeListInductive ==
  TypeOK /\ FreeListExact /\ [Next]_vars => FreeListExact'
<1> SUFFICES ASSUME TypeOK, StackDistinct, StackDead, StackComplete, [Next]_vars
             PROVE  StackDistinct' /\ StackDead' /\ StackComplete'
  BY StackForm, PTL
<1>0. Len(tab.free) \in Nat /\ tab.size \in Int /\ TypeOK'
  BY LenProperties, TypeInductive DEF TypeOK, Table
<1>1. ASSUME NEW o \in Objects, Alloc(o), ~IsFull(tab)
      PROVE  StackDistinct' /\ StackDead' /\ StackComplete'
  <2> DEFINE i == AllocIndex(tab)
  <2> USE <1>0
  <2>0. /\ i \in Index
        /\ tab'.slots = [tab.slots EXCEPT ![i] = [obj |-> o, gen |-> AllocGen(tab), live |-> TRUE]]
    BY <1>1, AllocStep
  <2>s. /\ tab'.slots[i].live
        /\ \A j \in Index : j # i => tab'.slots[j] = tab.slots[j]
    BY <2>0 DEF TypeOK, Table
  <2>1. CASE tab.free # << >>
    <3>1. i = tab.free[Len(tab.free)] /\ tab'.free = Pop(tab.free) /\ tab'.size = tab.size
      BY <1>1, <2>1, AllocStep
    <3>2. /\ Len(tab'.free) = Len(tab.free) - 1
          /\ \A k \in 1..(Len(tab.free) - 1) : tab'.free[k] = tab.free[k]
      BY <2>1, <3>1, PopStack DEF TypeOK, Table
    <3>3. \A k \in 1..(Len(tab.free) - 1) : tab.free[k] # i
      BY <3>1, <2>1, PopStack DEF StackDistinct
    <3>4. StackDistinct'
      BY <3>2 DEF StackDistinct
    <3>5. StackDead'
      BY <3>1, <3>2, <3>3, <2>s DEF StackDead
    <3>6. StackComplete'
      <4> SUFFICES ASSUME NEW j \in Index, j < tab'.size, ~tab'.slots[j].live
                   PROVE  \E k \in 1..Len(tab'.free) : tab'.free[k] = j
        BY DEF StackComplete
      <4>1. j # i /\ ~tab.slots[j].live /\ j < tab.size
        BY <2>s, <3>1
      <4>2. PICK k \in 1..Len(tab.free) : tab.free[k] = j
        BY <4>1 DEF StackComplete
      <4>3. k \in 1..(Len(tab.free) - 1)
        BY <4>1, <4>2, <3>1
      <4> QED BY <4>2, <4>3, <3>2
    <3> QED BY <3>4, <3>5, <3>6
  <2>2. CASE tab.free = << >>
    <3>1. i = tab.size /\ tab'.free = << >> /\ tab'.size = tab.size + 1
      BY <1>1, <2>2, AllocStep
    <3>2. Len(tab'.free) = 0 /\ Len(tab.free) = 0
      BY <2>2, <3>1, EmptySeq
    <3>3. \A j \in Index : j < tab'.size => tab'.slots[j].live
      BY <3>1, <3>2, <2>s DEF StackComplete, Index
    <3> QED
      BY <3>2, <3>3 DEF StackDistinct, StackDead, StackComplete
  <2> QED BY <2>1, <2>2
<1>2. ASSUME NEW h \in issued, Free(h), IsLive(tab, h)
      PROVE  StackDistinct' /\ StackDead' /\ StackComplete'
  <2> DEFINE i == decode_idx(h)
  <2> USE <1>0
  <2>1. /\ i \in Index /\ i < tab.size /\ tab.slots[i].live
        /\ tab'.free = Append(tab.free, i) /\ tab'.size = tab.size
        /\ tab'.slots = [tab.slots EXCEPT ![i] =
                            [obj |-> None, gen |-> NextGen(tab.slots[i].gen), live |-> FALSE]]
    BY <1>2, FreeStep
  <2>2. /\ ~tab'.slots[i].live
        /\ \A j \in Index : j # i => tab'.slots[j] = tab.slots[j]
    BY <2>1 DEF TypeOK, Table
  <2>3. /\ Len(tab'.free) = Len(tab.free) + 1
        /\ tab'.free[Len(tab.free) + 1] = i
        /\ \A k \in 1..Len(tab.free) : tab'.free[k] = tab.free[k]
    BY <2>1 DEF TypeOK, Table
  <2>4. \A k \in 1..Len(tab.free) : tab.free[k] # i
    BY <2>1 DEF StackDead
  <2>5. StackDistinct'
    <3> SUFFICES ASSUME NEW j \in 1..Len(tab'.free), NEW k \in 1..Len(tab'.free),
                        tab'.free[j] = tab'.free[k]
                 PROVE  j = k
      BY DEF StackDistinct
    <3>1. CASE j \in 1..Len(tab.free) /\ k \in 1..Len(tab.free)
      BY <3>1, <2>3 DEF StackDistinct
    <3>2. CASE ~(j \in 1..Len(tab.free) /\ k \in 1..Len(tab.free))
      <4>1. j = Len(tab.free) + 1 \/ k = Len(tab.free) + 1
        BY <3>2, <2>3
      <4> QED BY <4>1, <2>3, <2>4
    <3> QED BY <3>1, <3>2
  <2>6. StackDead'
    BY <2>1, <2>2, <2>3, <2>4 DEF StackDead
  <2>7. StackComplete'
    <3> SUFFICES ASSUME NEW j \in Index, j < tab'.size, ~tab'.slots[j].live
                 PROVE  \E k \in 1..Len(tab'.free) : tab'.free[k] = j
      BY DEF StackComplete
    <3>1. CASE j = i
      BY <3>1, <2>3
    <3>2. CASE j # i
      <4>1. PICK k \in 1..Len(tab.free) : tab.free[k] = j
        BY <3>2, <2>1, <2>2 DEF StackComplete
      <4> QED BY <4>1, <2>3
    <3> QED BY <3>1, <3>2
  <2> QED BY <2>5, <2>6, <2>7
<1>3. CASE UNCHANGED vars
  BY <1>3 DEF vars, StackDistinct, StackDead, StackComplete
<1> QED
  BY <1>1, <1>2, <1>3, NoStep

(* The free stack is exactly the dead slots, each once, in every state.    *)
THEOREM FreeListCorrect == Spec => []FreeListExact
<1>1. Init => FreeListExact
  BY InitTypeAndStack
<1> QED
  BY <1>1, TypeCorrect, FreeListInductive, PTL DEF Spec

(* Both together: the table is well formed and its free stack exact.       *)
THEOREM TableCorrect == Spec => []TableExact
  BY TypeCorrect, FreeListCorrect, PTL DEF TableExact

-----------------------------------------------------------------------------
(* Handles as the pair (generation, index) they decode to.                 *)
LEMMA HandleForm ==
  ASSUME NEW h
  PROVE  h \in Handles <=> /\ h \in Int
                          /\ 1 <= decode_gen(h) /\ decode_gen(h) <= GenMax
                          /\ decode_idx(h) \in Index
                          /\ h = encode(decode_gen(h), decode_idx(h))
<1>1. ASSUME NEW g \in 1..GenMax, NEW i \in Index, h = encode(g, i)
      PROVE  h \in Int /\ h > 0 /\ decode_gen(h) = g /\ decode_idx(h) = i
  <2>1. g \in Int /\ 1 <= g /\ g <= 32767 /\ i \in Int /\ 0 <= i /\ i < 65536
    BY <1>1, CapacityAssumption, GenMaxAssumption DEF Index, Span
  <2> QED BY <1>1, <2>1, EncodeDecode
<1>2. ASSUME h \in Handles
      PROVE  /\ h \in Int
             /\ 1 <= decode_gen(h) /\ decode_gen(h) <= GenMax
             /\ decode_idx(h) \in Index
             /\ h = encode(decode_gen(h), decode_idx(h))
  <2>1. PICK g \in 1..GenMax, i \in Index : h = encode(g, i)
    BY <1>2 DEF Handles
  <2>2. 1 <= g /\ g <= GenMax
    BY GenMaxAssumption
  <2> QED BY <2>1, <2>2, <1>1
<1>3. ASSUME h \in Int, 1 <= decode_gen(h), decode_gen(h) <= GenMax,
             decode_idx(h) \in Index, h = encode(decode_gen(h), decode_idx(h))
      PROVE  h \in Handles
  <2>1. decode_gen(h) \in 1..GenMax
    BY <1>3, DecodeType, GenMaxAssumption
  <2> QED BY <1>3, <2>1 DEF Handles
<1> QED BY <1>2, <1>3

LEMMA EncodedHandle ==
  ASSUME NEW g \in 1..GenMax, NEW i \in Index
  PROVE  /\ encode(g, i) \in Handles /\ encode(g, i) > 0
         /\ decode_gen(encode(g, i)) = g /\ decode_idx(encode(g, i)) = i
<1>1. g \in Int /\ 1 <= g /\ g <= 32767 /\ i \in Int /\ 0 <= i /\ i < 65536
  BY CapacityAssumption, GenMaxAssumption DEF Index, Span
<1> QED BY <1>1, EncodeDecode DEF Handles

(* The inductive invariant behind the registry refinement.                 *)
IInv == TypeOK /\ FreeListExact /\ GenTracksFrees /\ IssuedExact

LEMMA LiveGen ==
  ASSUME IInv, MaxFrees < GenMax, NEW i \in Index, i < tab.size
  PROVE  tab.slots[i].gen \in 1..GenMax /\ tab.slots[i].gen = frees[i] + 1
BY MaxFreesAssumption, GenMaxAssumption DEF IInv, TypeOK, GenTracksFrees

(* A slot about to be handed out is dead, and carries a generation no      *)
(* handle was issued for.                                                  *)
LEMMA FreshSlot ==
  ASSUME IInv, MaxFrees < GenMax, ~IsFull(tab)
  PROVE  LET i == AllocIndex(tab) IN
         /\ i \in Index /\ AllocGen(tab) \in 1..GenMax
         /\ AllocGen(tab) = frees[i] + 1
         /\ i < tab.size => ~tab.slots[i].live
         /\ encode(AllocGen(tab), i) \notin issued
<1> DEFINE i == AllocIndex(tab)
<1>1. i \in Index /\ AllocGen(tab) \in 1..GenMax
  BY AllocIndexInRange, AllocGenInRange DEF IInv
<1>2. CASE tab.free # << >>
  <2>1. i < tab.size /\ ~tab.slots[i].live
    BY <1>2, StackForm, PopStack DEF IInv, TypeOK, Table, StackDead, AllocIndex
  <2>2. AllocGen(tab) = tab.slots[i].gen /\ AllocGen(tab) = frees[i] + 1
    BY <1>1, <2>1, LiveGen DEF AllocGen
  <2> QED BY <1>1, <2>1, <2>2, EncodedHandle DEF IInv, IssuedExact
<1>3. CASE tab.free = << >>
  <2>1. i = tab.size /\ tab.size \in Int
    BY <1>3 DEF AllocIndex, IInv, TypeOK, Table
  <2>2. AllocGen(tab) = 1 /\ frees[i] = 0
    BY <1>1, <2>1 DEF IInv, GenTracksFrees, AllocGen, EmptySlot
  <2> QED BY <1>1, <2>1, <2>2, EncodedHandle DEF IInv, IssuedExact
<1> QED BY <1>2, <1>3

LEMMA AllocSize ==
  ASSUME IInv, NEW o \in Objects, Alloc(o), ~IsFull(tab)
  PROVE  \/ tab'.size = tab.size /\ AllocIndex(tab) < tab.size
         \/ tab'.size = tab.size + 1 /\ AllocIndex(tab) = tab.size
<1>0. TypeOK
  BY DEF IInv
<1>1. CASE tab.free # << >>
  <2>1. AllocIndex(tab) = tab.free[Len(tab.free)] /\ tab'.size = tab.size
    BY <1>0, <1>1, AllocStep
  <2>2. Len(tab.free) \in 1..Len(tab.free)
    BY <1>0, <1>1, EmptySeq DEF TypeOK, Table
  <2>3. tab.free[Len(tab.free)] < tab.size
    BY <2>2, StackForm DEF IInv, StackDead
  <2> QED BY <2>1, <2>3
<1>2. CASE tab.free = << >>
  BY <1>0, <1>2, AllocStep
<1> QED BY <1>1, <1>2

LEMMA GenTracksInductive ==
  ASSUME MaxFrees < GenMax
  PROVE  IInv /\ [Next]_vars => GenTracksFrees'
<1> SUFFICES ASSUME IInv, [Next]_vars PROVE GenTracksFrees'
  OBVIOUS
<1>0. TypeOK /\ TypeOK' /\ GenTracksFrees
  BY TypeInductive DEF IInv
<1>1. ASSUME NEW o \in Objects, Alloc(o), ~IsFull(tab) PROVE GenTracksFrees'
  <2> DEFINE i == AllocIndex(tab)
  <2>1. /\ i \in Index /\ frees' = frees
        /\ tab'.slots = [tab.slots EXCEPT ![i] = [obj |-> o, gen |-> AllocGen(tab), live |-> TRUE]]
        /\ \/ tab'.size = tab.size /\ i < tab.size
           \/ tab'.size = tab.size + 1 /\ i = tab.size
    BY <1>0, <1>1, AllocStep, AllocSize
  <2>2. /\ tab'.slots[i].gen = frees[i] + 1
        /\ \A j \in Index : j # i => tab'.slots[j] = tab.slots[j]
    BY <1>0, <1>1, <2>1, FreshSlot DEF TypeOK, Table
  <2> SUFFICES ASSUME NEW j \in Index
               PROVE  /\ frees'[j] <= MaxFrees
                      /\ j < tab'.size => tab'.slots[j].gen = frees'[j] + 1
                      /\ j >= tab'.size => tab'.slots[j] = EmptySlot /\ frees'[j] = 0
    BY DEF GenTracksFrees
  <2>3. j \in Int /\ i \in Int /\ tab.size \in Int
    BY <1>0, <2>1 DEF Index, TypeOK, Table
  <2>4. CASE j = i
    BY <2>1, <2>2, <2>3, <2>4, <1>0 DEF GenTracksFrees
  <2>5. CASE j # i
    BY <2>1, <2>2, <2>3, <2>5, <1>0 DEF GenTracksFrees
  <2> QED BY <2>4, <2>5
<1>2. ASSUME NEW h \in issued, Free(h), IsLive(tab, h) PROVE GenTracksFrees'
  <2> DEFINE i == decode_idx(h)
  <2>1. /\ i \in Index /\ i < tab.size /\ tab'.size = tab.size /\ frees[i] < MaxFrees
        /\ tab'.slots = [tab.slots EXCEPT ![i] =
                            [obj |-> None, gen |-> NextGen(tab.slots[i].gen), live |-> FALSE]]
        /\ frees' = [frees EXCEPT ![i] = @ + 1]
    BY <1>0, <1>2, FreeStep
  <2>2. frees[i] \in Nat /\ frees'[i] = frees[i] + 1 /\ tab.slots[i].gen = frees[i] + 1
    BY <1>0, <2>1 DEF TypeOK, GenTracksFrees
  <2>3. NextGen(tab.slots[i].gen) = frees'[i] + 1
    BY <2>1, <2>2, MaxFreesAssumption, GenMaxAssumption DEF NextGen
  <2>4. /\ tab'.slots[i].gen = frees'[i] + 1
        /\ \A j \in Index : j # i => tab'.slots[j] = tab.slots[j] /\ frees'[j] = frees[j]
    BY <1>0, <2>1, <2>3 DEF TypeOK, Table
  <2> SUFFICES ASSUME NEW j \in Index
               PROVE  /\ frees'[j] <= MaxFrees
                      /\ j < tab'.size => tab'.slots[j].gen = frees'[j] + 1
                      /\ j >= tab'.size => tab'.slots[j] = EmptySlot /\ frees'[j] = 0
    BY DEF GenTracksFrees
  <2>5. j \in Int /\ tab.size \in Int
    BY <1>0 DEF Index, TypeOK, Table
  <2>6. CASE j = i
    BY <2>1, <2>2, <2>4, <2>5, <2>6, MaxFreesAssumption
  <2>7. CASE j # i
    BY <2>1, <2>4, <2>7, <1>0 DEF GenTracksFrees
  <2> QED BY <2>6, <2>7
<1>3. CASE UNCHANGED vars
  BY <1>0, <1>3 DEF vars, GenTracksFrees
<1> QED
  BY <1>0, <1>1, <1>2, <1>3, NoStep

(* IssuedExact, read for one handle.                                       *)
WasIssued(t, h) == LET i == decode_idx(h) IN
                   /\ i < t.size
                   /\ decode_gen(h) <= t.slots[i].gen
                   /\ decode_gen(h) = t.slots[i].gen => t.slots[i].live

LEMMA IssuedInductive ==
  ASSUME MaxFrees < GenMax
  PROVE  IInv /\ [Next]_vars => IssuedExact'
<1> SUFFICES ASSUME IInv, [Next]_vars PROVE IssuedExact'
  OBVIOUS
<1>0. TypeOK /\ TypeOK' /\ GenTracksFrees /\ GenTracksFrees'
  BY TypeInductive, GenTracksInductive DEF IInv
<1>a. issued = {h \in Handles : WasIssued(tab, h)}
  BY DEF IInv, IssuedExact, WasIssued
<1>b. SUFFICES issued' = {h \in Handles : WasIssued(tab', h)}
  BY DEF IssuedExact, WasIssued
<1>1. ASSUME NEW o \in Objects, Alloc(o), ~IsFull(tab)
      PROVE  issued' = {h \in Handles : WasIssued(tab', h)}
  <2> DEFINE i == AllocIndex(tab)
             g == AllocGen(tab)
             new == encode(g, i)
  <2>1. /\ i \in Index /\ g \in 1..GenMax
        /\ i < tab.size => ~tab.slots[i].live
    BY <1>1, FreshSlot
  <2>2. new \in Handles /\ decode_gen(new) = g /\ decode_idx(new) = i
    BY <2>1, EncodedHandle
  <2>3. /\ tab'.slots = [tab.slots EXCEPT ![i] = [obj |-> o, gen |-> g, live |-> TRUE]]
        /\ issued' = issued \cup {new}
    BY <1>0, <1>1, AllocStep
  <2>4. /\ tab'.slots[i].gen = g /\ tab'.slots[i].live
        /\ \A j \in Index : j # i => tab'.slots[j] = tab.slots[j]
    BY <1>0, <2>1, <2>3 DEF TypeOK, Table
  <2>5. \/ tab'.size = tab.size /\ i < tab.size
        \/ tab'.size = tab.size + 1 /\ i = tab.size
    BY <1>1, AllocSize
  <2>6. i \in Int /\ tab.size \in Int /\ i < tab'.size
    BY <1>0, <2>1, <2>5 DEF Index, TypeOK, Table
  <2>7. i < tab.size => tab.slots[i].gen = g
    <3>1. ASSUME i < tab.size PROVE tab.slots[i].gen # 0
      BY <2>1, <3>1, LiveGen
    <3> QED BY <3>1 DEF AllocGen
  <2>8. ASSUME NEW h \in Handles
        PROVE  WasIssued(tab', h) <=> WasIssued(tab, h) \/ h = new
    <3> DEFINE j == decode_idx(h)
    <3>1. /\ j \in Index /\ j \in Int /\ decode_gen(h) \in Int
          /\ 1 <= decode_gen(h) /\ decode_gen(h) <= GenMax
          /\ h = encode(decode_gen(h), j)
      BY HandleForm, DecodeType
    <3>2. CASE j # i
      <4>1. tab'.slots[j] = tab.slots[j] /\ (j < tab'.size <=> j < tab.size) /\ h # new
        BY <3>1, <3>2, <2>2, <2>4, <2>5, <2>6
      <4> QED BY <4>1 DEF WasIssued
    <3>3. CASE j = i
      <4>1. WasIssued(tab', h) <=> decode_gen(h) <= g
        BY <3>3, <2>4, <2>6 DEF WasIssued
      <4>2. h = new <=> decode_gen(h) = g
        BY <3>1, <3>3, <2>2
      <4>3. CASE i < tab.size
        <5>1. WasIssued(tab, h) <=> decode_gen(h) <= g /\ decode_gen(h) # g
          BY <3>3, <4>3, <2>1, <2>7 DEF WasIssued
        <5> QED BY <4>1, <4>2, <5>1, <3>1, <2>1
      <4>4. CASE ~(i < tab.size)
        <5>a. tab.slots[i] = EmptySlot
          BY <1>0, <2>1, <2>6, <4>4 DEF GenTracksFrees
        <5>1. g = 1
          BY <5>a DEF AllocGen, EmptySlot
        <5>2. ~WasIssued(tab, h)
          BY <3>3, <4>4 DEF WasIssued
        <5>3. decode_gen(h) <= g <=> decode_gen(h) = g
          <6> HIDE DEF g
          <6> QED BY <5>1, <3>1
        <5> QED BY <4>1, <4>2, <5>2, <5>3
      <4> QED BY <4>3, <4>4
    <3> QED BY <3>2, <3>3
  <2> QED BY <1>a, <2>2, <2>3, <2>8
<1>2. ASSUME NEW h0 \in issued, Free(h0), IsLive(tab, h0)
      PROVE  issued' = {h \in Handles : WasIssued(tab', h)}
  <2> DEFINE i == decode_idx(h0)
             g == tab.slots[i].gen
  <2>1. /\ i \in Index /\ i < tab.size /\ tab.slots[i].live /\ tab'.size = tab.size
        /\ tab'.slots = [tab.slots EXCEPT ![i] = [obj |-> None, gen |-> NextGen(g), live |-> FALSE]]
        /\ issued' = issued /\ frees[i] < MaxFrees
    BY <1>0, <1>2, FreeStep
  <2>2. g \in 1..GenMax /\ g = frees[i] + 1 /\ frees[i] \in Nat
    BY <1>0, <2>1, LiveGen DEF TypeOK
  <2>3. NextGen(g) = g + 1
    BY <2>1, <2>2, MaxFreesAssumption, GenMaxAssumption DEF NextGen
  <2>4. /\ tab'.slots[i].gen = g + 1 /\ ~tab'.slots[i].live
        /\ \A j \in Index : j # i => tab'.slots[j] = tab.slots[j]
    BY <1>0, <2>1, <2>3 DEF TypeOK, Table
  <2>5. ASSUME NEW h \in Handles
        PROVE  WasIssued(tab', h) <=> WasIssued(tab, h)
    <3>1. decode_idx(h) \in Index /\ decode_gen(h) \in Int
      BY HandleForm, DecodeType
    <3>2. CASE decode_idx(h) # i
      BY <3>1, <3>2, <2>1, <2>4 DEF WasIssued
    <3>3. CASE decode_idx(h) = i
      <4>1. WasIssued(tab', h) <=> decode_gen(h) <= g + 1 /\ decode_gen(h) # g + 1
        BY <3>3, <2>1, <2>4 DEF WasIssued
      <4>2. WasIssued(tab, h) <=> decode_gen(h) <= g
        BY <3>3, <2>1 DEF WasIssued
      <4> QED BY <4>1, <4>2, <3>1, <2>2
    <3> QED BY <3>2, <3>3
  <2> QED BY <1>a, <2>1, <2>5
<1>3. CASE UNCHANGED vars
  BY <1>3, <1>a DEF vars, WasIssued
<1> QED
  BY <1>0, <1>1, <1>2, <1>3, NoStep

LEMMA InvCorrect ==
  ASSUME MaxFrees < GenMax
  PROVE  Spec => []IInv
<1>1. Init => IInv
  <2> SUFFICES ASSUME Init PROVE GenTracksFrees /\ IssuedExact
    BY InitTypeAndStack DEF IInv
  <2>1. tab.size = 0 /\ tab.slots = [i \in Index |-> EmptySlot] /\ issued = {}
        /\ frees = [i \in Index |-> 0]
    BY DEF Init, EmptyTable
  <2>2. \A i \in Index : i \in Int /\ 0 <= i
    BY CapacityAssumption DEF Index
  <2>3. GenTracksFrees
    BY <2>1, <2>2, MaxFreesAssumption DEF GenTracksFrees
  <2>4. \A h \in Handles : ~(decode_idx(h) < tab.size)
    BY <2>1, <2>2, HandleForm
  <2> QED BY <2>1, <2>3, <2>4 DEF IssuedExact
<1>2. IInv /\ [Next]_vars => IInv'
  BY TypeInductive, FreeListInductive, GenTracksInductive, IssuedInductive DEF IInv
<1> QED
  BY <1>1, <1>2, PTL DEF Spec

-----------------------------------------------------------------------------
(* The live handles, as the domain of the registry's bound.                *)
LEMMA LiveHandles ==
  ASSUME IInv, MaxFrees < GenMax
  PROVE  CollectLive(tab) = {h \in Handles : IsLive(tab, h)}
<1>1. ASSUME NEW i \in LiveIndices(tab)
      PROVE  /\ encode(tab.slots[i].gen, i) \in Handles
             /\ IsLive(tab, encode(tab.slots[i].gen, i))
  <2>1. i \in Index /\ i < tab.size /\ tab.slots[i].live
    BY <1>1 DEF LiveIndices
  <2>2. tab.slots[i].gen \in 1..GenMax
    BY <2>1, LiveGen
  <2> QED BY <2>1, <2>2, EncodedHandle DEF IsLive
<1>2. ASSUME NEW h \in Handles, IsLive(tab, h)
      PROVE  h \in CollectLive(tab)
  <2> DEFINE i == decode_idx(h)
  <2>1. i \in Index /\ h = encode(decode_gen(h), i)
    BY HandleForm
  <2>2. i < tab.size /\ tab.slots[i].live /\ tab.slots[i].gen = decode_gen(h)
    BY <1>2 DEF IsLive
  <2> QED BY <2>1, <2>2 DEF CollectLive, LiveIndices
<1> QED BY <1>1, <1>2 DEF CollectLive

(* Below GenMax frees of each slot, the table is a registry that never     *)
(* gives a handle out twice: alloc issues a handle nobody holds, free      *)
(* retires it for good, and every other call is a stutter.                 *)
THEOREM NeverReissued ==
  ASSUME MaxFrees < GenMax
  PROVE  Spec => ImplementsRegistry
<1>1. Init => Registry!Init
  <2> SUFFICES ASSUME Init PROVE Registry!Init
    OBVIOUS
  <2>1. tab.size = 0 /\ issued = {}
    BY DEF Init, EmptyTable
  <2>2. LiveIndices(tab) = {}
    BY <2>1, CapacityAssumption DEF LiveIndices, Index
  <2>3. CollectLive(tab) = {}
    BY <2>2 DEF CollectLive
  <2> QED BY <2>1, <2>3 DEF Registry!Init, bound
<1>a. IInv => CollectLive(tab) = {h \in Handles : IsLive(tab, h)}
  BY LiveHandles
<1>b. (IInv => CollectLive(tab) = {h \in Handles : IsLive(tab, h)})'
  BY <1>a, PTL
<1>2. IInv /\ IInv' /\ [Next]_vars => [Registry!Next]_(Registry!vars)
  <2> SUFFICES ASSUME IInv, IInv', [Next]_vars PROVE [Registry!Next]_(Registry!vars)
    OBVIOUS
  <2>0. /\ TypeOK
        /\ CollectLive(tab) = {h \in Handles : IsLive(tab, h)}
    BY <1>a DEF IInv
  <2>p. CollectLive(tab') = {h \in Handles : IsLive(tab', h)}
    BY <1>b
  <2>1. ASSUME NEW o \in Objects, Alloc(o), ~IsFull(tab)
        PROVE  Registry!Next
    <3> DEFINE i == AllocIndex(tab)
               g == AllocGen(tab)
               new == encode(g, i)
    <3>1. /\ i \in Index /\ g \in 1..GenMax /\ new \notin issued
          /\ i < tab.size => ~tab.slots[i].live
      BY <2>1, FreshSlot
    <3>2. new \in Handles /\ decode_gen(new) = g /\ decode_idx(new) = i /\ new > 0
      BY <3>1, EncodedHandle
    <3>3. /\ tab'.slots = [tab.slots EXCEPT ![i] = [obj |-> o, gen |-> g, live |-> TRUE]]
          /\ issued' = issued \cup {new}
      BY <2>0, <2>1, AllocStep
    <3>4. /\ tab'.slots[i] = [obj |-> o, gen |-> g, live |-> TRUE]
          /\ \A j \in Index : j # i => tab'.slots[j] = tab.slots[j]
      BY <2>0, <3>1, <3>3 DEF TypeOK, Table
    <3>5. \/ tab'.size = tab.size /\ i < tab.size
          \/ tab'.size = tab.size + 1 /\ i = tab.size
      BY <2>1, AllocSize
    <3>6. i \in Int /\ tab.size \in Int
      BY <2>0, <3>1 DEF Index, TypeOK, Table
    <3>7. IsLive(tab', new) /\ Get(tab', new) = o
      BY <3>2, <3>4, <3>5, <3>6 DEF IsLive, Get
    <3>8. ASSUME NEW h \in Handles, h # new
          PROVE  (IsLive(tab', h) <=> IsLive(tab, h)) /\ Get(tab', h) = Get(tab, h)
      <4>1. decode_idx(h) \in Index /\ h = encode(decode_gen(h), decode_idx(h))
            /\ decode_idx(h) \in Int
        BY HandleForm, DecodeType
      <4>2. CASE decode_idx(h) = i
        <5>1. decode_gen(h) # g
          BY <3>8, <4>1, <4>2
        <5>2. ~IsLive(tab', h)
          BY <4>2, <5>1, <3>4 DEF IsLive
        <5>3. ~IsLive(tab, h)
          BY <4>2, <3>1 DEF IsLive
        <5> QED BY <5>2, <5>3 DEF Get
      <4>3. CASE decode_idx(h) # i
        <5>1. tab'.slots[decode_idx(h)] = tab.slots[decode_idx(h)]
          BY <3>4, <4>1, <4>3
        <5>2. decode_idx(h) < tab'.size <=> decode_idx(h) < tab.size
          BY <3>5, <3>6, <4>1, <4>3
        <5> QED BY <5>1, <5>2 DEF IsLive, Get
      <4> QED BY <4>2, <4>3
    <3>9. CollectLive(tab') = CollectLive(tab) \cup {new}
      BY <2>0, <2>p, <3>2, <3>7, <3>8
    <3>10. bound' = [h \in CollectLive(tab') |-> Get(tab', h)]
      BY DEF bound
    <3>11. bound' = [h \in (DOMAIN bound) \cup {new} |-> IF h = new THEN o ELSE bound[h]]
      <4>1. DOMAIN bound = CollectLive(tab)
        BY DEF bound
      <4>2. \A h \in CollectLive(tab) : h # new => Get(tab', h) = bound[h]
        BY <2>0, <3>8 DEF bound
      <4>3. \A h \in CollectLive(tab) \cup {new} :
              Get(tab', h) = IF h = new THEN o ELSE bound[h]
        BY <3>7, <4>2
      <4> QED BY <3>9, <3>10, <4>1, <4>3
    <3> QED BY <3>1, <3>2, <3>3, <3>11 DEF Registry!Next, Registry!Issue
  <2>2. ASSUME NEW h0 \in issued, Free(h0), IsLive(tab, h0)
        PROVE  Registry!Next
    <3> DEFINE i == decode_idx(h0)
               g == tab.slots[i].gen
    <3>1. /\ i \in Index /\ i < tab.size /\ tab.slots[i].live /\ tab'.size = tab.size
          /\ tab'.slots = [tab.slots EXCEPT ![i] = [obj |-> None, gen |-> NextGen(g), live |-> FALSE]]
          /\ issued' = issued
      BY <2>0, <2>2, FreeStep
    <3>2. /\ tab'.slots[i].live = FALSE
          /\ \A j \in Index : j # i => tab'.slots[j] = tab.slots[j]
      BY <2>0, <3>1 DEF TypeOK, Table
    <3>3. h0 \in Handles /\ h0 = encode(decode_gen(h0), i) /\ decode_gen(h0) = g
      <4>1. h0 \in Handles
        BY <2>2 DEF IInv, IssuedExact
      <4> QED BY <4>1, <2>2, HandleForm DEF IsLive
    <3>4. ~IsLive(tab', h0)
      BY <3>2 DEF IsLive
    <3>5. ASSUME NEW h \in Handles, h # h0
          PROVE  (IsLive(tab', h) <=> IsLive(tab, h)) /\ Get(tab', h) = Get(tab, h)
      <4>1. decode_idx(h) \in Index /\ h = encode(decode_gen(h), decode_idx(h))
        BY HandleForm
      <4>2. CASE decode_idx(h) = i
        <5>1. decode_gen(h) # g
          BY <3>3, <3>5, <4>1, <4>2
        <5>2. ~IsLive(tab', h) /\ ~IsLive(tab, h)
          BY <4>2, <5>1, <3>2 DEF IsLive
        <5> QED BY <5>2 DEF Get
      <4>3. CASE decode_idx(h) # i
        BY <3>1, <3>2, <4>1, <4>3 DEF IsLive, Get
      <4> QED BY <4>2, <4>3
    <3>6. CollectLive(tab') = CollectLive(tab) \ {h0} /\ h0 \in CollectLive(tab)
      BY <2>0, <2>p, <2>2, <3>3, <3>4, <3>5
    <3>7. bound' = [h \in CollectLive(tab') |-> Get(tab', h)]
      BY DEF bound
    <3>8. bound' = [h \in (DOMAIN bound) \ {h0} |-> bound[h]] /\ h0 \in DOMAIN bound
      <4>1. DOMAIN bound = CollectLive(tab)
        BY DEF bound
      <4>2. \A h \in CollectLive(tab) \ {h0} : Get(tab', h) = bound[h]
        BY <2>0, <3>5 DEF bound
      <4> QED BY <3>6, <3>7, <4>1, <4>2
    <3> QED BY <3>1, <3>8 DEF Registry!Next, Registry!Retire
  <2>3. CASE UNCHANGED vars
    BY <2>3 DEF vars, Registry!vars, bound, CollectLive, LiveIndices, Get, IsLive
  <2> QED
    BY <2>0, <2>1, <2>2, <2>3, NoStep
<1> QED
  BY <1>1, <1>2, InvCorrect, PTL DEF Spec, ImplementsRegistry, Registry!Spec

=============================================================================
