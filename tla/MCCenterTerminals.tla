------------------------- MODULE MCCenterTerminals -------------------------
(***************************************************************************)
(* CenterTerminals with three connections that compete for one gateway.    *)
(* Connections are alike.                                                  *)
(***************************************************************************)
EXTENDS CenterTerminals, TLC

Symmetry == Permutations(Conns)
=============================================================================
