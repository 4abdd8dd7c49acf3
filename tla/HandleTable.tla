---------------------------- MODULE HandleTable ----------------------------
(***************************************************************************)
(* The generation-tagged handle table of src/src/btx_handle_table.h, as a  *)
(* value with operators, so that the machines that own a table (HandleUse, *)
(* TorrentSession) all use this one definition.                            *)
(*                                                                         *)
(* A table is a record:                                                    *)
(*   slots : what slots_ holds, over every index the table may ever reach; *)
(*           an index not yet pushed holds a default Slot (gen 0, dead)    *)
(*   size  : slots_.size()                                                 *)
(*   free  : free_, used as a stack, last element on top                   *)
(*   count : liveCount_                                                    *)
(*                                                                         *)
(* An operator marked "slip" is a wrong variant of the one that follows    *)
(* it. No definition uses it; it is there to be swapped in, to see that a  *)
(* property fails when the code has that bug.                              *)
(***************************************************************************)
EXTENDS Integers, Sequences

CONSTANTS Capacity,  \* how many slots the table may grow to (SLOT_MASK + 1 in the code)
          GenMax,    \* the largest generation (GEN_MAX, 32767 in the code)
          None       \* the default-constructed T{}

\* Bit layout of a handle: the generation above 16 bits of slot index.
Span == 65536

ASSUME CapacityAssumption == Capacity \in Nat /\ 1 <= Capacity /\ Capacity <= Span
ASSUME GenMaxAssumption   == GenMax \in Nat /\ 1 <= GenMax /\ GenMax <= 32767

Index == 0..(Capacity - 1)
Gen   == 0..GenMax

EmptySlot  == [obj |-> None, gen |-> 0, live |-> FALSE]
EmptyTable == [slots |-> [i \in Index |-> EmptySlot], size |-> 0, free |-> << >>, count |-> 0]

encode(gen, idx) == gen * Span + idx
decode_gen(h)    == (h \div Span) % 32768
decode_idx(h)    == h % Span

(***************************************************************************)
(* slot_of: whether handle h names a live slot of the table.               *)
(***************************************************************************)

IsLive(t, h) ==
  /\ h > 0
  /\ decode_idx(h) < t.size
  /\ t.slots[decode_idx(h)].live
  /\ t.slots[decode_idx(h)].gen = decode_gen(h)

\* get: the object of a live handle, None for any other integer.
Get(t, h) == IF IsLive(t, h) THEN t.slots[decode_idx(h)].obj ELSE None

(***************************************************************************)
(* alloc: pop the free stack, or grow; 0 when there is no slot left.       *)
(***************************************************************************)
IsFull(t) == t.free = << >> /\ t.size = Capacity

AllocIndex(t) == IF t.free # << >> THEN t.free[Len(t.free)] ELSE t.size

AllocGen(t) == LET g == t.slots[AllocIndex(t)].gen IN IF g = 0 THEN 1 ELSE g

AllocHandle(t) == IF IsFull(t) THEN 0 ELSE encode(AllocGen(t), AllocIndex(t))

Pop_front(s) == Tail(s)                        \* slip: reads the back, drops the front
Pop(s)       == SubSeq(s, 1, Len(s) - 1)

AllocTable(t, obj) ==
  IF IsFull(t) THEN t
  ELSE [slots |-> [t.slots EXCEPT ![AllocIndex(t)] =
                     [obj |-> obj, gen |-> AllocGen(t), live |-> TRUE]],
        size  |-> IF t.free # << >> THEN t.size ELSE t.size + 1,
        free  |-> IF t.free # << >> THEN Pop(t.free) ELSE t.free,
        count |-> t.count + 1]

(***************************************************************************)
(* free: drop the object, bump the generation (wrapping GEN_MAX to 1) and  *)
(* stack the slot for reuse. A handle that is not live changes nothing.    *)
(***************************************************************************)
NextGen_noBump(g) == g                         \* slip: the freed handle stays valid
NextGen_twice(g) == IF g >= GenMax THEN 1 ELSE g + 2   \* slip: steps over the limit
NextGen_noWrap(g) == g + 1                     \* slip: runs past the 15 bits
NextGen(g) == IF g >= GenMax THEN 1 ELSE g + 1

FreeTable(t, h) ==
  IF ~IsLive(t, h) THEN t
  ELSE LET i == decode_idx(h) IN
       [slots |-> [t.slots EXCEPT ![i] =
                     [obj |-> None, gen |-> NextGen(t.slots[i].gen), live |-> FALSE]],
        size  |-> t.size,
        free  |-> Append(t.free, i),
        count |-> t.count - 1]

(***************************************************************************)
(* collect_live: the live handles (the code lists them in slot order), and *)
(* live_count, which the code answers from the counter, not by counting.   *)
(***************************************************************************)
LiveIndices(t) == {i \in Index : i < t.size /\ t.slots[i].live}

CollectLive(t) == {encode(t.slots[i].gen, i) : i \in LiveIndices(t)}

live_count(t) == t.count

=============================================================================
