-------------------------- MODULE MCTorrentSession --------------------------
(* The info-hashes are interchangeable: only their equality is looked at.  *)
EXTENDS TorrentSession, TLC

HashSymmetry == Permutations(Hashes)
=============================================================================
