------------------------------- MODULE MCArena -------------------------------
(* Three arenas, blocks of two units, requests of one and of three units.  *)
EXTENDS Arena, TLC

CONSTANTS a1, a2, a3

MCArenas   == {a1, a2, a3}
MCAsks     == {0, 33}
MCSymmetry == Permutations(MCArenas)
=============================================================================
