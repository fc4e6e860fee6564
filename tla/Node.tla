-------------------------------- MODULE Node --------------------------------
(***************************************************************************)
(* A node: the POA contract in the EVM state, the proxy that applies blocks *)
(* to it and reads the whitelist from it, and Babble's validator-sets.      *)
(*                                                                          *)
(* The contract changes only through the transactions of the block being    *)
(* committed.  Other transactions and the getters the HTTP API calls leave  *)
(* the contract and the proxy as they are.                                  *)
(***************************************************************************)
EXTENDS POA

CONSTANTS Delay, MaxSkip, MaxItxs, Faults

VARIABLES peerSets, pc, itxs, response, unanswered

\* state.CheckAuthorised calls the contract's checkAuthorised.
checkAuthorised(a) == isWhitelisted(a)

P == INSTANCE InmemProxy
     WITH Peer <- Account, Founders <- Genesis,
          members <- {a \in Account : checkAuthorised(a)}

proxyState == <<peerSets, pc, itxs, response, unanswered>>
nodeVars   == <<vars, proxyState>>

\* Mutant: the service executes transactions outside the commit of a block.
Transaction_Anytime == Next /\ UNCHANGED proxyState

\* A transaction of the block calls the contract.
Transaction == pc = "apply" /\ Next /\ UNCHANGED proxyState

NodeInit == Init /\ P!Init

NodeNext ==
    \/ Transaction
    \/ UNCHANGED vars /\ P!ProxyNext

NodeSpec == NodeInit /\ [][NodeNext]_nodeVars

-----------------------------------------------------------------------------
(* Properties.                                                             *)

\* With the contract in the place of its set of members, the node is the proxy
\* of InmemProxy: however the elections run inside and across blocks, one
\* transaction moves one peer at most, and the whitelist the receipts of a block
\* are computed from stands still until Babble asks for the next block.
ImplementsProxy == P!Spec
=============================================================================
