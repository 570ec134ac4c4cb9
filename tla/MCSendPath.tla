---------------------------- MODULE MCSendPath ----------------------------
(***************************************************************************)
(* SendPath with one pool small enough to run dry: a handler that forwards *)
(* needs three chunks at once, an offline notice two.                      *)
(***************************************************************************)
EXTENDS SendPath, TLC

\* Chunks are interchangeable: no action tells one from another.
ChunkSymmetry == Permutations(Chunks)

=============================================================================
