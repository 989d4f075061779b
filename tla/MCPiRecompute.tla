--------------------------- MODULE MCPiRecompute ---------------------------
(* Small instances of PiRecompute for TLC. *)
EXTENDS PiRecompute, TLC

Symmetric == Permutations(Workers)
=============================================================================
