---------------------------- MODULE MCGameStore ----------------------------
(* Instances of GameStore for TLC.  Squares, users and guilds are          *)
(* interchangeable in every definition, so they may be permuted.           *)
EXTENDS GameStore, TLC

Symmetry ==
  Permutations(Guild) \cup Permutations(User) \cup Permutations(Square)
=============================================================================
