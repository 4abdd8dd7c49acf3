----------------------------- MODULE HandleUse -----------------------------
(***************************************************************************)
(* A caller using one HandleTable: any sequence of alloc and free calls,   *)
(* with handles kept and reused after they were freed.                     *)
(*                                                                         *)
(* issued and frees are history: the handles given out so far, and how     *)
(* often each slot was freed. Only MaxFrees, the bound on the latter,      *)
(* limits what the caller does.                                            *)
(***************************************************************************)
EXTENDS HandleTable, FiniteSets

CONSTANTS Objects,   \* the values the caller stores
          MaxFrees   \* bound: how often one slot is freed in a behaviour

ASSUME MaxFreesAssumption == MaxFrees \in Nat
ASSUME ObjectsAssumption  == None \notin Objects

VARIABLES tab, issued, frees

vars == <<tab, issued, frees>>

Init ==
  /\ tab = EmptyTable
  /\ issued = {}
  /\ frees = [i \in Index |-> 0]

\* alloc: a fresh handle, or 0 and an unchanged table when there is no slot left.
Alloc(o) ==
  /\ tab' = AllocTable(tab, o)
  /\ issued' = issued \cup ({AllocHandle(tab)} \ {0})
  /\ UNCHANGED frees

\* free: of any handle ever issued, stale ones (a no-op) included.
Free(h) ==
  /\ IsLive(tab, h) => frees[decode_idx(h)] < MaxFrees
  /\ tab' = FreeTable(tab, h)
  /\ frees' = IF IsLive(tab, h) THEN [frees EXCEPT ![decode_idx(h)] = @ + 1] ELSE frees
  /\ UNCHANGED issued

Next ==
  \/ \E o \in Objects : Alloc(o)
  \/ \E h \in issued : Free(h)

Spec == Init /\ [][Next]_vars

-----------------------------------------------------------------------------
Slot  == [obj : Objects \cup {None}, gen : Gen, live : BOOLEAN]
Table == [slots : [Index -> Slot], size : 0..Capacity, free : Seq(Index), count : Int]

\* Every variable has its type; a handle's generation fits its 15 bits (GEN_MAX).
TypeOK ==
  /\ tab \in Table
  /\ issued \subseteq Int
  /\ frees \in [Index -> Nat]

(***************************************************************************)
(* The free stack holds exactly the slots that were used and are dead, and *)
(* each of them once: were an index stacked twice, or a live one stacked,  *)
(* two later allocations would share one slot.                             *)
(***************************************************************************)
FreeIndices == {tab.free[k] : k \in 1..Len(tab.free)}

FreeListExact ==
  /\ \A j, k \in 1..Len(tab.free) : tab.free[j] = tab.free[k] => j = k
  /\ FreeIndices = {i \in Index : i < tab.size /\ ~tab.slots[i].live}

\* What every later call relies on: well-formed slots and an exact free stack.
TableExact == TypeOK /\ FreeListExact

(***************************************************************************)
(* The table implements the registry of never-reused handles: alloc and    *)
(* free map to Issue and Retire, stale and refused calls to stutters, with *)
(* the live handles and what get() returns for them as the mapping.        *)
(***************************************************************************)
Handles == {encode(g, i) : g \in 1..GenMax, i \in Index}

bound == [h \in CollectLive(tab) |-> Get(tab, h)]

Registry == INSTANCE HandleRegistry

ImplementsRegistry == Registry!Spec

-----------------------------------------------------------------------------
(***************************************************************************)
(* What the proof of ImplementsRegistry rests on, true while no slot has   *)
(* been freed GenMax times: a slot's generation counts its frees, and the  *)
(* handles issued for it are those of its generations so far.              *)
(***************************************************************************)
GenTracksFrees ==
  \A i \in Index :
    /\ frees[i] <= MaxFrees
    /\ i < tab.size => tab.slots[i].gen = frees[i] + 1
    /\ i >= tab.size => tab.slots[i] = EmptySlot /\ frees[i] = 0

IssuedExact ==
  issued = {h \in Handles :
              LET i == decode_idx(h) IN
              /\ i < tab.size
              /\ decode_gen(h) <= tab.slots[i].gen
              /\ decode_gen(h) = tab.slots[i].gen => tab.slots[i].live}

=============================================================================
