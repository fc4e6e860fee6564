------------------------------- MODULE MCPOA -------------------------------
(* Small instances of the POA contract. *)
EXTENDS POA, TLC

CONSTANTS a1, a2, a3, a4, zero, m1, none

\* Genesis members are interchangeable, and so are the other accounts: Init
\* starts from every order of the genesis array.
Symmetry == Permutations(Genesis) \cup Permutations(Account \ Genesis)
=============================================================================
