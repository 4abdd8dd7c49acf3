--------------------------- MODULE MCOnionTransfer ---------------------------
(* An instance of OnionTransfer: a file of two frames and a locked one, for  *)
(* one caller and two faults; a file of one frame and an empty one, for two  *)
(* callers. A cell of a length has three values.                             *)
EXTENDS OnionTransfer

MCStreams == {1, 2}

MCShares ==
  { [content |-> <<1, 2, 3>>, locked |-> FALSE, web |-> TRUE, callers |-> 1, faults |-> 2],
    [content |-> <<9, 2>>, locked |-> TRUE, web |-> TRUE, callers |-> 1, faults |-> 2],
    [content |-> <<1>>, locked |-> FALSE, web |-> TRUE, callers |-> 2, faults |-> 0],
    [content |-> <<>>, locked |-> FALSE, web |-> FALSE, callers |-> 2, faults |-> 0] }

MCEdits == { <<1>>, <<1, 2, 3, 4>>, NoFile }

MCRequests ==
  { <<"G", "/download", "end">>, <<"H", "/download", "end">>, <<"G", "/", "end">>,
    <<"G", "/download">>, <<"G", "/download", "end", "x">>, <<"G", "x", "x", "x">>,
    <<"B", "x">>, <<"B">>, <<"?">> }

MCForeignWires ==
  { <<7, 0, 3, 0, 2, 1, 2, 0, 1, 3, 0, 0>>,      \* sound, with its terminator
    <<7, 1, 2, 0, 2, 9, 1>>,                     \* locked, without one
    <<7, 1, 1, 0, 1, 1>>,                        \* locked, but not with this key
    <<6, 0, 1, 0, 1, 1>>,                        \* not the magic
    <<7, 0, 5>>,                                 \* too much
    <<7, 0, 3, 0, 2, 1, 2, 0, 0>>,               \* an early terminator
    <<7, 0, 3, 1, 1, 1, 2>>,                     \* a frame too long
    <<7, 0, 1, 0, 2, 1, 2>>,                     \* one frame, more than promised
    <<7, 0, 1, 0, 1, 1, 0, 1, 2>>,               \* another frame after the count
    <<7, 0, 0>> }                                \* an empty file

=============================================================================
