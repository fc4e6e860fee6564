------------------------------- MODULE MCNode -------------------------------
(* Small instances of a node. *)
EXTENDS Node, TLC

CONSTANTS a1, a2, a3, zero, m1, none

\* Genesis members are interchangeable, and so are the other accounts.
Symmetry == Permutations(Genesis) \cup Permutations(Account \ Genesis)

\* What the node keeps: no step reads the receipt of the last transaction or the
\* history of unanswered peers.
NodeState == <<storage, peerSets, pc, itxs, response>>
=============================================================================
