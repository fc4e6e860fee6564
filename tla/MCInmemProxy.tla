--------------------------- MODULE MCInmemProxy ---------------------------
(* Small instances of the proxy and the validator-set. *)
EXTENDS InmemProxy, TLC

CONSTANTS p1, p2, p3

Symmetry == Permutations(Founders) \cup Permutations(Peer \ Founders)
=============================================================================
