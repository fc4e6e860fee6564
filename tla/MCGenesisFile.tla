--------------------------- MODULE MCGenesisFile ---------------------------
(* Small networks. *)
EXTENDS GenesisFile

CONSTANTS Sizes, none

Line(name, bytes, validator, nonNode) ==
    [moniker |-> [name |-> name, bytes |-> bytes], validator |-> validator, nonNode |-> nonNode]

\* Networks without a names file; names files whose first line has a moniker of a
\* length at which GetStorage changes its behaviour, or does not validate or run;
\* and options that cut the lines and the peers short.
MCNetworks ==
    [names : {<<>>}, numNodes : Sizes, numValidators : {0}]
      \cup {[names |-> <<>>, numNodes |-> 3, numValidators |-> 2]}
      \cup [names : {<<Line(1, bytes, "", FALSE), Line(2, 5, "", FALSE)>> : bytes \in {32, 33, 65}},
             numNodes : {0}, numValidators : {0}]
      \cup [names : {<<Line(1, 5, v, v = "true"), Line(2, 5, "", FALSE), Line(3, 5, "true", FALSE)>>
                         : v \in {"true", "false"}},
             numNodes : {0, 2}, numValidators : {1}]
=============================================================================
