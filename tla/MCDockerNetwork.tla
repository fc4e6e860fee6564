-------------------------- MODULE MCDockerNetwork --------------------------
(* Small instances of networks on one Docker daemon. *)
EXTENDS DockerNetwork, TLC

CONSTANTS n1, v1, v2, v3, noFile, bad, none

\* An edit adds or removes v2.
MCNodes == [t \in Version |-> IF t = 1 THEN <<v1, v3>> ELSE <<v1, v3, v2>>]
=============================================================================
