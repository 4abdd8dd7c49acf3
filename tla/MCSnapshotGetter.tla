-------------------------- MODULE MCSnapshotGetter -------------------------
(***************************************************************************)
(* Records for SnapshotGetter over bytes of four values, so that a u16     *)
(* ends at 15. The list of one short record needs exactly the first        *)
(* capacity; wide fills its u16 body to the last byte but one, broad is    *)
(* one byte longer than a u16 can say, and the value of vast is cut.       *)
(***************************************************************************)
EXTENDS SnapshotGetter

Text == 2

short == <<[id |-> 1, type |-> Text, val |-> <<3>>]>>
wide  == <<[id |-> 1, type |-> RawType, val |-> <<>>],
           [id |-> 3, type |-> Text, val |-> <<2>>],
           [id |-> 2, type |-> RawType, val |-> <<>>]>>
broad == <<[id |-> 2, type |-> RawType, val |-> [i \in 1..10 |-> 1]]>>
vast  == <<[id |-> 2, type |-> Text, val |-> [i \in 1..17 |-> 2]]>>

MCPeerLists == {<<>>, <<short>>, <<short, short>>, <<short, wide>>, <<broad, short>>}
MCStatuses  == {short, wide, vast}
=============================================================================
