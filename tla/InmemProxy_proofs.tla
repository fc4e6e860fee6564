------------------------- MODULE InmemProxy_proofs -------------------------
(***************************************************************************)
(* Proofs about the proxy, for any peers, founders, delay and bounds, and   *)
(* with or without failing calls.                                           *)
(*                                                                          *)
(* The properties are about the step in which Babble processes receipts, so *)
(* the induction carries what the receipts say from the commit in which     *)
(* they were computed to that step: the whitelist stands still in between.  *)
(***************************************************************************)
EXTENDS InmemProxy, WellFoundedInduction, TLAPS

\* The receipts waiting for Babble are right about the whitelist as it is.
ResponseRight ==
    pc = "respond" =>
        /\ \A i \in DOMAIN response.itxReceipts :
              response.itxReceipts[i].accepted /\ response.itxReceipts[i].type = PEER_ADD
                => response.itxReceipts[i].peer \in members
        /\ response.evictions = (Validators \ members) \ unanswered

ProxyInv == TypeOK /\ ResponseRight /\ EvictionScheduled

\* The delay is positive, so that the validators of the last block's round and
\* the latest set are entries of peerSets.
LEMMA SetsInDomain == 1 \in 1 .. Delay + 1 /\ Delay + 1 \in 1 .. Delay + 1
BY ProxyAssumption

\* Later rounds are read from the same validator-sets, up to the latest one.
LEMMA AfterType ==
    ASSUME TypeOK, NEW k \in 1 .. MaxSkip
    PROVE  /\ After(k) \in [1 .. Delay + 1 -> SUBSET Peer]
           /\ After(k)[Delay + 1] = LatestSet
<1>1. k \in Nat /\ k > 0 /\ Delay \in Nat
  BY ProxyAssumption
<1>2. ASSUME NEW i \in 1 .. Delay + 1
      PROVE  (IF i + k <= Delay + 1 THEN i + k ELSE Delay + 1) \in 1 .. Delay + 1
  BY <1>1
<1>3. ~(Delay + 1 + k <= Delay + 1)
  BY <1>1
<1> QED
  BY <1>2, <1>3, SetsInDomain DEF After, TypeOK, LatestSet

\* The founders are the validators, and all of them are on the whitelist.
LEMMA ProxyInit == Init => ProxyInv
<1> SUFFICES ASSUME Init PROVE ProxyInv
  OBVIOUS
<1>1. <<>> \in [1 .. 0 -> InternalTransaction] /\ <<>> \in [1 .. 0 -> Receipt]
  OBVIOUS
<1>2. 0 \in 0 .. MaxItxs
  BY ProxyAssumption
<1>3. TypeOK
  BY <1>1, <1>2, ProxyAssumption DEF Init, TypeOK, Itxs, NoResponse
<1>4. ResponseRight /\ EvictionScheduled
  BY SetsInDomain DEF Init, ResponseRight, EvictionScheduled, Validators, LatestSet
<1> QED
  BY <1>3, <1>4 DEF ProxyInv

\* One receipt per internal transaction.
LEMMA ReceiptsType ==
    ASSUME TypeOK, NEW errors
    PROVE  Receipts(errors) \in UNION {[1 .. n -> Receipt] : n \in 0 .. MaxItxs}
<1>1. PICK n \in 0 .. MaxItxs : itxs \in [1 .. n -> InternalTransaction]
  BY DEF TypeOK, Itxs
<1>2. \A i \in 1 .. n : accepted(itxs[i], errors) \in BOOLEAN
  BY DEF accepted
<1>3. Receipts(errors) \in [1 .. n -> Receipt]
  BY <1>1, <1>2 DEF Receipts, Receipt, InternalTransaction
<1> QED
  BY <1>3

\* Every step keeps the invariant.
LEMMA ProxyStep == ProxyInv /\ [Next]_pvars => ProxyInv'
<1> SUFFICES ASSUME ProxyInv, [Next]_pvars PROVE ProxyInv'
  OBVIOUS
<1> USE DEF ProxyInv
<1>1. ASSUME NEW k \in 1 .. MaxSkip, NEW block \in Itxs, BeginBlock(k, block) PROVE ProxyInv'
  <2>1. TypeOK'
    BY <1>1, AfterType DEF TypeOK, BeginBlock
  <2> QED
    BY <2>1, <1>1 DEF BeginBlock, ResponseRight, EvictionScheduled
<1>2. ASSUME NEW k \in 1 .. MaxSkip, CoinbaseFails(k) PROVE ProxyInv'
  <2>1. TypeOK'
    BY <1>2, AfterType DEF TypeOK, CoinbaseFails
  <2> QED
    BY <2>1, <1>2, SetsInDomain
       DEF CoinbaseFails, ResponseRight, EvictionScheduled, TypeOK, Validators
<1>3. CASE CommitFails
  <2>1. <<>> \in [1 .. 0 -> InternalTransaction] /\ 0 \in 0 .. MaxItxs
    BY ProxyAssumption
  <2>2. TypeOK'
    BY <1>3, <2>1 DEF TypeOK, CommitFails, Itxs
  <2> QED
    BY <2>2, <1>3, SetsInDomain
       DEF CommitFails, ResponseRight, EvictionScheduled, TypeOK, Validators
<1>4. ASSUME NEW joinErrors \in FaultyCalls(Joining), NEW scanErrors \in FaultyCalls(Validators),
             CommitBlock(joinErrors, scanErrors)
      PROVE  ProxyInv'
  <2>1. <<>> \in [1 .. 0 -> InternalTransaction] /\ 0 \in 0 .. MaxItxs
    BY ProxyAssumption
  <2>2. processEvictions(scanErrors) \subseteq Peer
    BY SetsInDomain DEF TypeOK, processEvictions, Validators
  <2>4. \A i \in DOMAIN itxs : accepted(itxs[i], joinErrors) /\ itxs[i].type = PEER_ADD
                                 => itxs[i].peer \in members
    BY DEF accepted, PEER_ADD, PEER_REMOVE
  <2>5. processEvictions(scanErrors) = (Validators \ members) \ scanErrors /\ scanErrors \subseteq Peer
    BY SetsInDomain DEF processEvictions, FaultyCalls, TypeOK, Validators
  <2>3. TypeOK'
    BY <1>4, <2>1, <2>2, <2>5, ReceiptsType
       DEF TypeOK, CommitBlock, Itxs, processInternalTransactions
  <2>6. ResponseRight'
    BY <1>4, <2>4, <2>5
       DEF ResponseRight, CommitBlock, processInternalTransactions, Receipts, Validators
  <2> QED
    BY <2>3, <2>6, <1>4 DEF CommitBlock, EvictionScheduled
<1>5. CASE ProcessReceipts
  <2>1. Amended(LatestSet, response) \subseteq Peer \ response.evictions
    BY DEF Amended
  <2>2. NoResponse \in [itxReceipts : UNION {[1 .. n -> Receipt] : n \in 0 .. MaxItxs},
                        evictions : SUBSET Peer]
    <3>1. <<>> \in [1 .. 0 -> Receipt] /\ 0 \in 0 .. MaxItxs
      BY ProxyAssumption
    <3> QED
      BY <3>1 DEF NoResponse
  <2>3. TypeOK'
    BY <1>5, <2>1, <2>2 DEF TypeOK, ProcessReceipts
  <2>4. LatestSet' = Amended(LatestSet, response)
    BY <1>5, SetsInDomain DEF TypeOK, ProcessReceipts, Validators, LatestSet
  <2>5. Validators' = Validators
    BY <1>5, SetsInDomain, ProxyAssumption DEF TypeOK, ProcessReceipts, Validators
  <2>6. EvictionScheduled'
    BY <1>5, <2>1, <2>4, <2>5, SetsInDomain
       DEF EvictionScheduled, ResponseRight, ProcessReceipts, TypeOK, Validators
  <2> QED
    BY <2>3, <2>6, <1>5 DEF ProcessReceipts, ResponseRight
<1>6. ASSUME NEW p \in Peer, ApplyTransaction(p) PROVE ProxyInv'
  <2>1. TypeOK'
    BY <1>6 DEF TypeOK, ApplyTransaction, proxyVars
  <2> QED
    BY <2>1, <1>6 DEF ApplyTransaction, proxyVars, ResponseRight, EvictionScheduled
<1>7. CASE UNCHANGED pvars
  BY <1>7 DEF pvars, proxyVars, TypeOK, ResponseRight, EvictionScheduled, Validators, LatestSet
<1> QED
  BY <1>1, <1>2, <1>3, <1>4, <1>5, <1>6, <1>7 DEF Next, ProxyNext

\* The invariant holds in every state.
THEOREM ProxyInvariant == Spec => []ProxyInv
<1> QED
  BY ProxyInit, ProxyStep, PTL DEF Spec

\* Type correctness of the proxy (inmem_proxy.go): one receipt per internal
\* transaction, and validator-sets are sets of peers.
THEOREM ProxyTypeCorrect == Spec => []TypeOK
<1>1. ProxyInv => TypeOK
  BY DEF ProxyInv
<1> QED
  BY <1>1, ProxyInvariant, PTL

\* processEvictions leaves no validator of the last block that is not on the
\* whitelist without a removal on its way, unless its query or the block failed.
THEOREM EvictionsAlwaysScheduled == Spec => []EvictionScheduled
<1>1. ProxyInv => EvictionScheduled
  BY DEF ProxyInv
<1> QED
  BY <1>1, ProxyInvariant, PTL

\* Whatever calls fail and however blocks overlap with elections, only peers on
\* the whitelist enter the validator-set (processInternalTransactions).
THEOREM JoinersAlwaysAuthorised == Spec => JoinersAuthorised
<1>1. ProxyInv /\ [Next]_pvars => [LatestSet' \ LatestSet \subseteq members]_pvars
  <2> SUFFICES ASSUME ProxyInv, Next PROVE LatestSet' \ LatestSet \subseteq members
    OBVIOUS
  <2> USE DEF ProxyInv
  <2>1. ASSUME NEW k \in 1 .. MaxSkip, peerSets' = After(k) PROVE LatestSet' = LatestSet
    BY <2>1, AfterType DEF LatestSet
  <2>2. ASSUME peerSets' = peerSets PROVE LatestSet' = LatestSet
    BY <2>2 DEF LatestSet
  <2>3. CASE ProcessReceipts
    <3>1. LatestSet' = Amended(LatestSet, response)
      BY <2>3, SetsInDomain DEF TypeOK, ProcessReceipts, LatestSet
    <3> QED
      BY <2>3, <3>1 DEF Amended, ResponseRight, ProcessReceipts
  <2> QED
    BY <2>1, <2>2, <2>3
       DEF Next, ProxyNext, BeginBlock, CoinbaseFails, CommitFails, CommitBlock,
           ApplyTransaction, proxyVars
<1> QED
  BY <1>1, ProxyInvariant, PTL DEF Spec, JoinersAuthorised

\* A set of positions of a sequence that is not empty has a last one.
LEMMA LastPosition ==
    ASSUME NEW n \in Nat, NEW S \in SUBSET (1 .. n), S # {}
    PROVE  \E i \in S : \A j \in S : j <= i
<1>1. \A j \in S : j \in Int /\ n - j \in Nat
  OBVIOUS
<1> DEFINE T == {n - i : i \in S}
<1>2. T \in SUBSET Nat /\ T # {}
  BY <1>1
<1>3. IsWellFoundedOn(OpToRel(<, Nat), Nat)
  BY NatLessThanWellFounded
<1>4. PICK x \in T : \A y \in T : ~(<<y, x>> \in OpToRel(<, Nat))
  BY <1>2, <1>3, WFMin
<1>5. \A y \in T : ~(y < x)
  BY <1>2, <1>4 DEF OpToRel
<1>6. PICK i \in S : x = n - i
  OBVIOUS
<1>7. ASSUME NEW j \in S PROVE j <= i
  <2>1. n - j \in T
    OBVIOUS
  <2>2. ~(n - j < n - i)
    BY <1>5, <1>6, <2>1
  <2> HIDE DEF T
  <2> QED BY <1>1, <2>2
<1> QED BY <1>7

\* A validator on the whitelist leaves the validator-set only by its own request,
\* whatever else the block asks of Babble: of the receipts about a peer the last
\* accepted one decides.
THEOREM OnlyUnauthorisedAreEvicted == Spec => OnlyUnauthorisedEvicted
<1>1. ASSUME ProxyInv, [Next]_pvars
      PROVE  [pc = "respond" =>
                \A p \in (LatestSet \ LatestSet') \cap members :
                    \E i \in DOMAIN response.itxReceipts :
                        /\ response.itxReceipts[i].type = PEER_REMOVE
                        /\ response.itxReceipts[i].peer = p]_pvars
  <2> SUFFICES ASSUME Next, pc = "respond", NEW p \in (LatestSet \ LatestSet') \cap members
               PROVE  \E i \in DOMAIN response.itxReceipts :
                          /\ response.itxReceipts[i].type = PEER_REMOVE
                          /\ response.itxReceipts[i].peer = p
    BY <1>1
  <2> DEFINE r == response.itxReceipts
             about == {i \in DOMAIN r : r[i].accepted /\ r[i].peer = p}
  <2>1. ProcessReceipts /\ TypeOK /\ ResponseRight
    BY <1>1 DEF ProxyInv, Next, ProxyNext, BeginBlock, CoinbaseFails, CommitFails, CommitBlock,
       ApplyTransaction
  <2>2. LatestSet' = Amended(LatestSet, response)
    BY <2>1, SetsInDomain DEF TypeOK, ProcessReceipts, LatestSet
  <2>3. p \notin response.evictions /\ p \in Peer
    BY <2>1 DEF ResponseRight, TypeOK
  <2>4. PICK n \in 0 .. MaxItxs : r \in [1 .. n -> Receipt]
    BY <2>1 DEF TypeOK
  <2>5. about # {} /\ ~\E i \in about : r[i].type = PEER_ADD /\ \A j \in about : j <= i
    BY <2>2, <2>3 DEF Amended
  <2>6. PICK i \in about : \A j \in about : j <= i
    <3>1. n \in Nat /\ about \in SUBSET (1 .. n)
      BY <2>4
    <3> HIDE DEF about
    <3> QED BY <3>1, <2>5, LastPosition
  <2>7. r[i].type \in {PEER_ADD, PEER_REMOVE} /\ i \in DOMAIN r /\ r[i].peer = p
    BY <2>4, <2>6 DEF Receipt
  <2> QED BY <2>5, <2>6, <2>7
<1> QED BY <1>1, ProxyInvariant, PTL DEF Spec, OnlyUnauthorisedEvicted
=============================================================================
