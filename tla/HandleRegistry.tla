-------------------------- MODULE HandleRegistry --------------------------
(***************************************************************************)
(* What the header comment of src/src/btx_handle_table.h (lines 4-9)       *)
(* promises its callers, free of slots and generations: each allocation    *)
(* gets a handle nobody was ever given before, a handle names its object   *)
(* until it is freed, and a freed or unknown handle names nothing.         *)
(***************************************************************************)
CONSTANTS Objects,  \* what a handle may name
          Handles   \* the positive integers handles are drawn from

VARIABLES bound,   \* the live handles and the object each one names
          issued   \* every handle ever given out

vars == <<bound, issued>>

Init ==
  /\ bound = [h \in {} |-> {}]
  /\ issued = {}

\* Bind a handle that was never issued before.
Issue(o, h) ==
  /\ h \notin issued
  /\ issued' = issued \cup {h}
  /\ bound' = [g \in (DOMAIN bound) \cup {h} |-> IF g = h THEN o ELSE bound[g]]

\* Unbind a live handle for good.
Retire(h) ==
  /\ h \in DOMAIN bound
  /\ bound' = [g \in (DOMAIN bound) \ {h} |-> bound[g]]
  /\ UNCHANGED issued

Next ==
  \/ \E o \in Objects, h \in Handles : Issue(o, h)
  \/ \E h \in DOMAIN bound : Retire(h)

Spec == Init /\ [][Next]_vars

=============================================================================
