----------------------------- MODULE InmemProxy -----------------------------
(***************************************************************************)
(* The Babble application proxy (src/babble/inmem_proxy.go): what a node     *)
(* does with a block, and how the answer changes the validator-set.         *)
(*                                                                          *)
(* CommitBlock runs in Babble's commit loop, one block at a time.  It is    *)
(* split here where it calls out: the coinbase lookup, the transactions one *)
(* by one, and the commit with the receipts it returns.  Babble is external *)
(* and modelled as the proxy uses it: it hands over blocks of increasing    *)
(* round, answers GetValidatorSet, and turns the accepted receipts of a     *)
(* block into the validator-set that holds Delay rounds later.              *)
(*                                                                          *)
(* Abstracted: the contract is the set of whitelisted peers, changed by one *)
(* peer at most per transaction (module Node puts the POA contract there);  *)
(* fees and state hashes; a peer's public key and its address are one.      *)
(* Keys always parse (with one that does not the code would go on to use a  *)
(* nil key, lines 135-140): a join request is signed with the key it        *)
(* carries, and Babble is taken to verify it before it is in a block.       *)
(***************************************************************************)
EXTENDS Integers, Sequences, FiniteSets

CONSTANTS
    Peer,
    Founders,      \* the genesis peers: whitelisted and validating
    Delay,         \* rounds before a receipt takes effect
    MaxSkip,       \* bound: rounds from one block to the next
    MaxItxs,       \* bound: internal transactions of a block
    Faults         \* whether calls to the EVM state and to Babble may fail

ASSUME ProxyAssumption ==
    /\ Founders \subseteq Peer
    /\ Delay \in Nat \ {0} /\ MaxSkip \in Nat \ {0} /\ MaxItxs \in Nat
    /\ Faults \in BOOLEAN

VARIABLES
    members,       \* peers for which CheckAuthorised answers true
    peerSets,      \* peerSets[i]: validators i - 1 rounds after the last block's
    pc,            \* where CommitBlock is
    itxs,          \* the block's internal transactions
    response,      \* the receipts of the CommitResponse Babble has to process
    unanswered     \* history: the peers the last block got no answer about

proxyVars == <<peerSets, pc, itxs, response, unanswered>>
pvars     == <<members, proxyVars>>

PEER_ADD    == "PEER_ADD"
PEER_REMOVE == "PEER_REMOVE"

InternalTransaction == [type : {PEER_ADD, PEER_REMOVE}, peer : Peer]

\* A block's internal transactions, in order.
Itxs == UNION {[1 .. n -> InternalTransaction] : n \in 0 .. MaxItxs}

NoResponse == [itxReceipts |-> <<>>, evictions |-> {}]

\* GetValidatorSet(block.RoundReceived()), and the last set Babble knows of.
Validators == peerSets[1]
LatestSet  == peerSets[Delay + 1]

\* Of the peers that are asked about, those for which the call fails.
FaultyCalls(asked) == IF Faults THEN SUBSET asked ELSE {{}}

\* The peers asked about in the two loops of CommitBlock.
Joining == {itxs[i].peer : i \in {j \in DOMAIN itxs : itxs[j].type = PEER_ADD}}

-----------------------------------------------------------------------------
(* Receipts.                                                               *)

\* Mutant: a join is accepted when CheckAuthorised fails.
accepted_FailOpen(itx, errors) ==
    itx.type = PEER_REMOVE \/ itx.peer \in errors \/ itx.peer \in members

\* A join is accepted when CheckAuthorised says so, refused when it says no or
\* fails; a removal is always accepted.
accepted(itx, errors) ==
    itx.type = PEER_REMOVE \/ (itx.peer \notin errors /\ itx.peer \in members)

Receipts(errors) ==
    [i \in DOMAIN itxs |->
        [type |-> itxs[i].type, peer |-> itxs[i].peer, accepted |-> accepted(itxs[i], errors)]]

\* Mutant: a join falls through to the case of removals.
processInternalTransactions_FallsThrough(errors) ==
    Receipts(errors) \o [i \in DOMAIN itxs |->
        [type |-> itxs[i].type, peer |-> itxs[i].peer, accepted |-> TRUE]]

\* Every internal transaction is answered once, in order.
processInternalTransactions(errors) == Receipts(errors)

\* Mutants: only the peers of the block's own internal transactions are looked
\* up; the answer is inverted.
processEvictions_BlockPeers(errors) == {itxs[i].peer : i \in DOMAIN itxs} \ (members \cup errors)
processEvictions_Authorised(errors) == (Validators \cap members) \ errors

\* The validators of the block's round that are not authorised are removed; one
\* for which CheckAuthorised fails is left for a later block.
processEvictions(errors) == (Validators \ members) \ errors

-----------------------------------------------------------------------------
(* Babble.                                                                 *)

\* The validator-sets seen from k rounds later.
After(k) ==
    [i \in 1 .. Delay + 1 |-> peerSets[IF i + k <= Delay + 1 THEN i + k ELSE Delay + 1]]

\* The last accepted receipt about p decides; evictions come last.
Amended(set, r) ==
    LET about(p) == {i \in DOMAIN r.itxReceipts :
                        r.itxReceipts[i].accepted /\ r.itxReceipts[i].peer = p}
    IN  {p \in Peer : \/ about(p) = {} /\ p \in set
                      \/ \E i \in about(p) : /\ r.itxReceipts[i].type = PEER_ADD
                                             /\ \A j \in about(p) : j <= i} \ r.evictions

\* No later round has validators: Babble makes no more blocks.
Halted == pc = "idle" /\ \A k \in 1 .. MaxSkip : After(k)[1] = {}

-----------------------------------------------------------------------------
(* CommitBlock.                                                            *)

\* A block of a later round arrives and its coinbase is drawn from the
\* validators of that round; there is no round without validators.
BeginBlock(k, block) ==
    /\ pc = "idle"
    /\ After(k)[1] # {}
    /\ peerSets' = After(k)
    /\ itxs' = block
    /\ pc' = "apply"
    /\ UNCHANGED <<members, response, unanswered>>

\* getCoinbase fails: CommitBlock returns before it applies anything.
CoinbaseFails(k) ==
    /\ Faults
    /\ pc = "idle"
    /\ After(k)[1] # {}
    /\ peerSets' = After(k)
    /\ unanswered' = Peer
    /\ UNCHANGED <<members, itxs, pc, response>>

\* One transaction; its failure is logged and the loop goes on.
ApplyTransaction(p) ==
    /\ pc = "apply"
    /\ members' \in {members \cup {p}, members \ {p}}
    /\ UNCHANGED proxyVars

\* state.Commit fails: no receipts, and the block's internal transactions are
\* lost; the transactions stay applied.
CommitFails ==
    /\ Faults
    /\ pc = "apply"
    /\ pc' = "idle"
    /\ itxs' = <<>>
    /\ unanswered' = Peer
    /\ UNCHANGED <<members, peerSets, response>>

\* state.Commit succeeds and both kinds of receipts are returned.
CommitBlock(joinErrors, scanErrors) ==
    /\ pc = "apply"
    /\ response' = [itxReceipts |-> processInternalTransactions(joinErrors),
                    evictions   |-> processEvictions(scanErrors)]
    /\ itxs' = <<>>
    /\ unanswered' = scanErrors
    /\ pc' = "respond"
    /\ UNCHANGED <<members, peerSets>>

\* Babble processes the receipts of the response.
ProcessReceipts ==
    /\ pc = "respond"
    /\ peerSets' = [peerSets EXCEPT ![Delay + 1] = Amended(LatestSet, response)]
    /\ response' = NoResponse
    /\ pc' = "idle"
    /\ UNCHANGED <<members, itxs, unanswered>>

-----------------------------------------------------------------------------
Init ==
    /\ members  = Founders
    /\ peerSets = [i \in 1 .. Delay + 1 |-> Founders]
    /\ pc = "idle" /\ itxs = <<>> /\ response = NoResponse
    /\ unanswered = {}

\* Everything but the transactions.
ProxyNext ==
    \/ \E k \in 1 .. MaxSkip : \/ \E block \in Itxs : BeginBlock(k, block)
                               \/ CoinbaseFails(k)
    \/ CommitFails
    \/ \E joinErrors \in FaultyCalls(Joining), scanErrors \in FaultyCalls(Validators) :
          CommitBlock(joinErrors, scanErrors)
    \/ ProcessReceipts

Next == ProxyNext \/ \E p \in Peer : ApplyTransaction(p)

\* Blocks keep coming while there are validators, every CommitBlock ends, and
\* calls that fail do not fail in every block.
Fairness ==
    /\ WF_pvars(\E k \in 1 .. MaxSkip, block \in Itxs : BeginBlock(k, block))
    /\ WF_pvars(\E joinErrors \in FaultyCalls(Joining), scanErrors \in FaultyCalls(Validators) :
                   CommitBlock(joinErrors, scanErrors))
    /\ SF_pvars(\E joinErrors \in FaultyCalls(Joining) : CommitBlock(joinErrors, {}))
    /\ WF_pvars(ProcessReceipts)

Spec     == Init /\ [][Next]_pvars
FairSpec == Spec /\ Fairness

-----------------------------------------------------------------------------
(* Properties.                                                             *)

Receipt == [type : {PEER_ADD, PEER_REMOVE}, peer : Peer, accepted : BOOLEAN]

\* Type correctness of the proxy and of Babble's validator-sets: among others,
\* an internal transaction is answered by one receipt.
TypeOK ==
    /\ members \subseteq Peer
    /\ peerSets \in [1 .. Delay + 1 -> SUBSET Peer]
    /\ pc \in {"idle", "apply", "respond"}
    /\ itxs \in Itxs
    /\ response \in [itxReceipts : UNION {[1 .. n -> Receipt] : n \in 0 .. MaxItxs},
                     evictions : SUBSET Peer]
    /\ unanswered \subseteq Peer

\* A peer enters the validator-set only while it is on the whitelist, even if
\* it left it and came back and whatever calls failed.
JoinersAuthorised == [][LatestSet' \ LatestSet \subseteq members]_pvars

\* A validator is dropped only by its own request or because it is not on the
\* whitelist when its block is committed.
OnlyUnauthorisedEvicted ==
    [][pc = "respond" =>
          \A p \in (LatestSet \ LatestSet') \cap members :
              \E i \in DOMAIN response.itxReceipts :
                  /\ response.itxReceipts[i].type = PEER_REMOVE
                  /\ response.itxReceipts[i].peer = p]_pvars

\* Between blocks, a validator of the last block's round that has lost its place
\* on the whitelist has its removal on its way, even when it joined and was
\* evicted while earlier receipts were still taking effect.  The exception is a
\* peer whose query failed in that block, or a block that failed as a whole.
EvictionScheduled ==
    pc = "idle" => (Validators \cap LatestSet) \subseteq (members \cup unanswered)

\* docs/poa_overview.rst: a validator removed from the whitelist is removed from
\* the validator-set.  It takes later blocks: one in whose round a peer that
\* was still joining when it was evicted validates, or one whose scan succeeds.
\* The exception is a chain that has run out of validators and makes no blocks.
EvictedLeave ==
    \A p \in Peer : <>[](p \notin members) => <>[](p \notin Validators \/ Halted)
=============================================================================
