--------------------------- MODULE MCConfigFiles ---------------------------
(* Small instances of a keystore and a configuration directory. *)
EXTENDS ConfigFiles, TLC

CONSTANTS m1, m2, k1, k2, n1, s1, s2, noFile, bad, noMoniker

Symmetry == Permutations(Moniker) \cup Permutations(Key) \cup Permutations(Shell)
=============================================================================
