---------------------------- MODULE MCRp1Transport ----------------------------
(***************************************************************************)
(* The instances of Rp1Transport that TLC checks: the rp1 ids a remote     *)
(* handshake carries. A .cfg cannot write -1 (no rp1 in the dictionary).   *)
(***************************************************************************)
EXTENDS Rp1Transport

MCRemoteIds     == {-1, 1}
MCRemoteIdsZero == {-1, 0, 1}
=============================================================================
