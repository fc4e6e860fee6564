---------------------------- MODULE Node_proofs ----------------------------
(***************************************************************************)
(* The composition: a node with the POA contract in it behaves as the proxy *)
(* of InmemProxy does with a set of members, for any accounts and bounds.   *)
(* What is proved of the proxy then holds of the node.                      *)
(*                                                                          *)
(* The argument needs the type of the whitelist, which is taken from the    *)
(* proofs about the contract: every step of a node is a step of the         *)
(* contract or leaves it alone.                                             *)
(***************************************************************************)
EXTENDS Node, POA_proofs

\* The peers the proxy finds on the whitelist.
Authorised == {a \in Account : checkAuthorised(a)}

\* A node does nothing to its contract but call it.
LEMMA NodeRunsContract == NodeSpec => Spec
<1>1. NodeInit => Init
  BY DEF NodeInit
<1>2. [NodeNext]_nodeVars => [Next]_vars
  BY DEF NodeNext, nodeVars, Transaction
<1> QED
  BY <1>1, <1>2, PTL DEF NodeSpec, Spec

\* Writing one entry of the whitelist moves one account at most.
LEMMA OneEntryOneMember ==
    ASSUME WhiteListType, NEW a \in Address, NEW x, NEW sender \in Account,
           whiteList' = [whiteList EXCEPT ![a] = x]
    PROVE  \E p \in Account : Authorised' \in {Authorised \cup {p}, Authorised \ {p}}
<1>1. \A b \in Account \ {a} : b \in Authorised' <=> b \in Authorised
  BY DEF Authorised, checkAuthorised, isWhitelisted, WhiteListType, Account
<1>2. CASE a \in Account
  <2>1. Authorised' = Authorised \cup {a} \/ Authorised' = Authorised \ {a}
    BY <1>1, <1>2 DEF Authorised
  <2> QED
    BY <1>2, <2>1
<1>3. CASE a \notin Account
  <2>1. Authorised' = Authorised
    BY <1>1, <1>3 DEF Authorised
  <2>2. Authorised = Authorised \cup {sender} \/ Authorised = Authorised \ {sender}
    OBVIOUS
  <2> QED
    BY <2>1, <2>2
<1> QED
  BY <1>2, <1>3

\* A whitelist that is not written moves none.
LEMMA NoEntryNoMember ==
    ASSUME NEW sender \in Account, whiteList' = whiteList
    PROVE  \E p \in Account : Authorised' \in {Authorised \cup {p}, Authorised \ {p}}
<1>1. Authorised' = Authorised
  BY DEF Authorised, checkAuthorised, isWhitelisted
<1>2. Authorised = Authorised \cup {sender} \/ Authorised = Authorised \ {sender}
  OBVIOUS
<1> QED
  BY <1>1, <1>2

\* No transaction writes more than one entry of the whitelist.
LEMMA TransactionMovesOne ==
    ASSUME WhiteListType, Next
    PROVE  \E p \in Account : Authorised' \in {Authorised \cup {p}, Authorised \ {p}}
<1> DEFINE Moves == \E p \in Account : Authorised' \in {Authorised \cup {p}, Authorised \ {p}}
<1>0. PICK sender \in Account :
        \/ init(sender)
        \/ \E a \in Address : \E m \in Moniker : submitNominee(sender, a, m)
        \/ \E a \in Address : submitEviction(sender, a)
        \/ \E a \in Address : \E yes \in BOOLEAN : castNomineeVote(sender, a, yes)
        \/ \E a \in Address : \E yes \in BOOLEAN : castEvictionVote(sender, a, yes)
  BY DEF Next
<1>1. ASSUME whiteList' = whiteList PROVE Moves
  BY <1>1, NoEntryNoMember
<1>2. ASSUME init(sender) PROVE Moves
  BY <1>1, <1>2 DEF init, Reverts, storage, whiteListVars
<1>3. ASSUME NEW a \in Address, NEW m \in Moniker, submitNominee(sender, a, m) PROVE Moves
  BY <1>1, <1>3 DEF submitNominee, storage, whiteListVars
<1>4. ASSUME NEW a \in Address, submitEviction(sender, a) PROVE Moves
  BY <1>1, <1>4 DEF submitEviction, Reverts, storage, whiteListVars
<1>5. ASSUME NEW a \in Address, NEW yes \in BOOLEAN, castNomineeVote(sender, a, yes) PROVE Moves
  <2>1. whiteList' = whiteList \/ whiteList' = [whiteList EXCEPT ![a] = a]
    BY <1>5 DEF castNomineeVote, Reverts, checkForNomineeVoteDecision, acceptNominee,
                storage, whiteListVars
  <2> QED
    BY <1>1, <2>1, OneEntryOneMember
<1>6. ASSUME NEW a \in Address, NEW yes \in BOOLEAN, castEvictionVote(sender, a, yes) PROVE Moves
  <2>1. whiteList' = whiteList \/ whiteList' = [whiteList EXCEPT ![a] = Zero]
    BY <1>6 DEF castEvictionVote, Reverts, checkForEvictionVoteDecision, acceptEviction,
                deWhiteList, storage, whiteListVars
  <2> QED
    BY <1>1, <2>1, OneEntryOneMember
<1> QED
  BY <1>0, <1>2, <1>3, <1>4, <1>5, <1>6

\* Every step of a node is a step of the proxy, or one it does not see.
LEMMA NodeStep ==
    ASSUME WhiteListType, [NodeNext]_nodeVars
    PROVE  [P!Next]_(P!pvars)
<1>1. CASE Transaction
  <2>1. PICK p \in Account : Authorised' \in {Authorised \cup {p}, Authorised \ {p}}
    BY <1>1, TransactionMovesOne DEF Transaction
  <2>2. P!ApplyTransaction(p)
    BY <1>1, <2>1 DEF P!ApplyTransaction, Transaction, Authorised, proxyState, P!proxyVars
  <2> QED
    BY <2>2 DEF P!Next
<1>2. CASE UNCHANGED vars /\ P!ProxyNext
  BY <1>2 DEF P!Next
<1>3. CASE UNCHANGED nodeVars
  <2>1. UNCHANGED <<whiteList, peerSets, pc, itxs, response, unanswered>>
    BY <1>3 DEF nodeVars, vars, whiteListVars, proxyState
  <2> QED
    BY <2>1 DEF P!pvars, P!proxyVars, checkAuthorised, isWhitelisted
<1> QED
  BY <1>1, <1>2, <1>3 DEF NodeNext

\* A node with the contract in it implements the proxy with a set of members:
\* elections inside and across blocks move one peer at a time, and only while
\* CommitBlock applies transactions.
THEOREM NodeImplementsProxy == NodeSpec => ImplementsProxy
<1>1. NodeInit => P!Init
  BY DEF NodeInit
<1>2. WhiteListInv => WhiteListType
  BY DEF WhiteListInv, TypeOK
<1>3. WhiteListType /\ [NodeNext]_nodeVars => [P!Next]_(P!pvars)
  BY NodeStep
<1> QED
  BY <1>1, <1>2, <1>3, NodeRunsContract, WhiteListInvariant, PTL
     DEF NodeSpec, ImplementsProxy, P!Spec
=============================================================================
