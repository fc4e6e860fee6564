-------------------------------- MODULE POA --------------------------------
(***************************************************************************)
(* The Proof-of-Authority contract POA_Genesis (poa/poa.sol), the whitelist *)
(* that decides who may validate.                                           *)
(*                                                                          *)
(* Every variable but receipt is a storage slot of the contract, in slot    *)
(* order.  A transaction runs to completion before the next one, so every   *)
(* public function is one action, with the private functions it calls as    *)
(* operators on the storage they change.  receipt is what the transaction   *)
(* leaves outside storage: its status, return values and event log.         *)
(*                                                                          *)
(* Abstracted: WhitelistPerson.flags and NomineeVote.accept, which nothing  *)
(* reads, and NomineeElection.proposer, which only getters return (the      *)
(* proposal's event names the proposer too).  The vote mapping is the set   *)
(* of voters with a non-zero entry, since an entry's voter field is its own *)
(* key or zero.                                                             *)
(***************************************************************************)
EXTENDS Integers, Sequences, FiniteSets, Functions

CONSTANTS
    Address,          \* addresses, of accounts and of the zero address
    Zero,             \* address(0)
    Genesis,          \* the accounts the genesis file whitelists
    Moniker,          \* monikers a nominee may be given (bytes32)
    NoMoniker,        \* the zero bytes32, which a nominee may be given too
    MaxUint,          \* largest uint, to which 0 - 1 wraps (2^256 - 1)
    MaxNominees,      \* bound: length of nomineeArray
    MaxEvictions      \* bound: length of evictionArray

ASSUME AddressAssumption == Zero \in Address /\ IsFiniteSet(Address)
ASSUME GenesisAssumption == Genesis \subseteq Address \ {Zero}
ASSUME UintAssumption == MaxUint \in Nat /\ Cardinality(Address) <= MaxUint
ASSUME BoundAssumption == MaxNominees \in Nat /\ MaxEvictions \in Nat

\* msg.sender is never address(0)
Account == Address \ {Zero}

VARIABLES
    whiteList,        \* address => WhitelistPerson.person
    whiteListCount,
    whiteListArray,
    nomineeList,      \* address => NomineeElection
    nomineeArray,
    monikerList,
    evictionList,     \* address => NomineeElection
    evictionArray,
    receipt

whiteListVars == <<whiteList, whiteListCount, whiteListArray>>
nomineeVars   == <<nomineeList, nomineeArray>>
evictionVars  == <<evictionList, evictionArray>>
storage       == <<whiteListVars, nomineeVars, monikerList, evictionVars>>
vars          == <<whiteListVars, nomineeVars, monikerList, evictionVars, receipt>>

-----------------------------------------------------------------------------
(* Receipts and events.                                                    *)

Returns(sender, decided, voteresult, logs) ==
    receipt' = [sender |-> sender, ok |-> TRUE, decided |-> decided,
                voteresult |-> voteresult, logs |-> logs]

\* require() fails: the transaction is undone and leaves no events.
Reverts(sender) ==
    /\ receipt' = [sender |-> sender, ok |-> FALSE, decided |-> FALSE,
                   voteresult |-> FALSE, logs |-> <<>>]
    /\ UNCHANGED storage

POA_Error(a, message) == [event |-> "POA_Error", address |-> a, message |-> message]
NomineeProposed(a, sender) ==
    [event |-> "NomineeProposed", nominee |-> a, proposer |-> sender]
EvictionProposed(a, sender) ==
    [event |-> "EvictionProposed", nominee |-> a, proposer |-> sender]
MonikerAnnounce(a, m) == [event |-> "MonikerAnnounce", address |-> a, moniker |-> m]
NomineeVoteCast(a, voter, yes, no, accepted) ==
    [event |-> "NomineeVoteCast", nominee |-> a, voter |-> voter,
     yesVotes |-> yes, noVotes |-> no, accepted |-> accepted]
EvictionVoteCast(a, voter, yes, no, accepted) ==
    [event |-> "EvictionVoteCast", nominee |-> a, voter |-> voter,
     yesVotes |-> yes, noVotes |-> no, accepted |-> accepted]
NomineeDecision(a, yes, no, accepted) ==
    [event |-> "NomineeDecision", nominee |-> a,
     yesVotes |-> yes, noVotes |-> no, accepted |-> accepted]
EvictionDecision(a, yes, no, accepted) ==
    [event |-> "EvictionDecision", nominee |-> a,
     yesVotes |-> yes, noVotes |-> no, accepted |-> accepted]

-----------------------------------------------------------------------------
(* Lists and elections.                                                    *)

isWhitelisted(a) == whiteList[a] # Zero
isNominee(a)     == nomineeList[a].nominee # Zero
isEvictee(a)     == evictionList[a].nominee # Zero

\* Mutants: submitNominee's condition without one of its halves.
mayBeNominated_Member(a)  == ~isNominee(a)
mayBeNominated_Nominee(a) == ~isWhitelisted(a)

\* submitNominee opens an election.
mayBeNominated(a) == ~isWhitelisted(a) /\ ~isNominee(a)

\* Mutant: voters may vote again.
hasVoted_Never(e, sender) == FALSE

\* A vote of sender is in the election's vote mapping.
hasVoted(e, sender) == sender \in e.vote

\* A storage record with every field but the vote mapping set: neither an
\* assignment nor a delete touches a mapping inside a struct.
Election(nominee, votes) ==
    [nominee |-> nominee, yesVotes |-> 0, noVotes |-> 0,
     vote |-> votes, yesArray |-> <<>>, noArray |-> <<>>]

\* The election e once voter has voted.
RecordVote(e, voter, accepted) ==
    IF accepted
    THEN [e EXCEPT !.vote = @ \cup {voter}, !.yesVotes = @ + 1,
                   !.yesArray = Append(@, voter)]
    ELSE [e EXCEPT !.vote = @ \cup {voter}, !.noVotes = @ + 1,
                   !.noArray = Append(@, voter)]

\* Mutant: the no votes stay in the mapping.
VotesCleared_YesOnly(e) == e.vote \ Range(e.yesArray)

\* The votes left in the mapping by removeNomineeVote and removeEvicteeVote.
VotesCleared(e) == e.vote \ (Range(e.yesArray) \cup Range(e.noArray))

\* Mutants: the last element is dropped, the removed one stays; the element is
\* zeroed in place.
SwapRemove_DropsLast(array, a) ==
    IF a \in Range(array) THEN SubSeq(array, 1, Len(array) - 1) ELSE array
SwapRemove_LeavesHole(array, a) ==
    [i \in DOMAIN array |-> IF array[i] = a THEN Zero ELSE array[i]]

\* First match replaced by the last element, and the last element dropped.
SwapRemove(array, a) ==
    LET hits == {i \in DOMAIN array : array[i] = a}
        hit  == CHOOSE i \in hits : \A j \in hits : i <= j
    IN  IF hits = {} THEN array
        ELSE [i \in 1 .. Len(array) - 1 |->
                IF i = hit THEN array[Len(array)] ELSE array[i]]

\* uint subtraction of one, which wraps.
Decrement(n) == IF n = 0 THEN MaxUint ELSE n - 1

-----------------------------------------------------------------------------
(* The private functions that close an election.                           *)

\* Mutant: the nominee stays in the array clients enumerate.
removeNominee_MappingOnly(a, e) ==
    /\ nomineeList' = [nomineeList EXCEPT ![a] = Election(Zero, VotesCleared(e))]
    /\ UNCHANGED nomineeArray

removeNominee(a, e) ==
    /\ nomineeList'  = [nomineeList EXCEPT ![a] = Election(Zero, VotesCleared(e))]
    /\ nomineeArray' = SwapRemove(nomineeArray, a)

removeEviction(a, e) ==
    /\ evictionList'  = [evictionList EXCEPT ![a] = Election(Zero, VotesCleared(e))]
    /\ evictionArray' = SwapRemove(evictionArray, a)

\* Adds a to the whitelist unless it is there, and closes its nomination.
acceptNominee(a, e) ==
    /\ IF isWhitelisted(a)
       THEN UNCHANGED whiteListVars
       ELSE /\ whiteList'      = [whiteList EXCEPT ![a] = a]
            /\ whiteListArray' = Append(whiteListArray, a)
            /\ whiteListCount' = whiteListCount + 1
    /\ removeNominee(a, e)

deWhiteList(a) ==
    IF isWhitelisted(a)
    THEN /\ whiteList'      = [whiteList EXCEPT ![a] = Zero]
         /\ whiteListCount' = Decrement(whiteListCount)
         /\ whiteListArray' = SwapRemove(whiteListArray, a)
    ELSE UNCHANGED whiteListVars

\* The error acceptNominee logs when it finds the nominee on the whitelist.
acceptNomineeLogs(a) ==
    IF isWhitelisted(a) THEN <<POA_Error(a, "Already Whitelisted")>> ELSE <<>>

\* Mutants: the election stays open; the member stays on the whitelist.
acceptEviction_StaysOpen(a, e) == deWhiteList(a) /\ UNCHANGED evictionVars
acceptEviction_StaysMember(a, e) == removeEviction(a, e) /\ UNCHANGED whiteListVars

acceptEviction(a, e) == deWhiteList(a) /\ removeEviction(a, e)

-----------------------------------------------------------------------------
(* Decisions.  e is the election as the vote has left it; cast is the       *)
(* event of that vote.                                                      *)

\* What a counted vote returns once the whitelist is as it will be: decided,
\* and whether the address is (nominee) or is not (evictee) on it.
checkForNomineeVoteDecision(sender, a, e, cast) ==
    \/ /\ e.noVotes > 0
       /\ removeNominee(a, e)
       /\ UNCHANGED whiteListVars
       /\ Returns(sender, TRUE, whiteList'[a] # Zero,
                  <<cast, NomineeDecision(a, e.yesVotes, e.noVotes, FALSE)>>)
    \/ /\ e.noVotes = 0
       /\ e.yesVotes >= whiteListCount
       /\ acceptNominee(a, e)
       /\ Returns(sender, TRUE, whiteList'[a] # Zero,
                  <<cast>> \o acceptNomineeLogs(a)
                    \o <<NomineeDecision(a, e.yesVotes, e.noVotes, TRUE)>>)
    \/ /\ e.noVotes = 0
       /\ e.yesVotes < whiteListCount
       /\ nomineeList' = [nomineeList EXCEPT ![a] = e]
       /\ UNCHANGED <<whiteListVars, nomineeArray>>
       /\ Returns(sender, FALSE, FALSE, <<cast>>)

checkForEvictionVoteDecision(sender, a, e, cast) ==
    \/ /\ e.noVotes > 0
       /\ removeEviction(a, e)
       /\ UNCHANGED whiteListVars
       /\ Returns(sender, TRUE, whiteList'[a] = Zero,
                  <<cast, EvictionDecision(a, e.yesVotes, e.noVotes, FALSE)>>)
    \/ /\ e.noVotes = 0
       /\ e.yesVotes >= Decrement(whiteListCount)
       /\ acceptEviction(a, e)
       /\ Returns(sender, TRUE, whiteList'[a] = Zero,
                  <<cast, EvictionDecision(a, e.yesVotes, e.noVotes, TRUE)>>)
    \/ /\ e.noVotes = 0
       /\ e.yesVotes < Decrement(whiteListCount)
       /\ evictionList' = [evictionList EXCEPT ![a] = e]
       /\ UNCHANGED <<whiteListVars, evictionArray>>
       /\ Returns(sender, FALSE, FALSE, <<cast>>)

-----------------------------------------------------------------------------
(* The transactions.                                                       *)

\* init(): empty, kept for older clients.
init(sender) ==
    \/ ~isWhitelisted(sender) /\ Reverts(sender)
    \/ /\ isWhitelisted(sender)
       /\ Returns(sender, FALSE, FALSE, <<>>)
       /\ UNCHANGED storage

\* Anybody may nominate, although docs/poa_overview.rst has a member do it: the
\* authorisation modifier is commented out.
submitNominee(sender, a, m) ==
    \/ /\ mayBeNominated(a)
       /\ Len(nomineeArray) < MaxNominees
       /\ nomineeList'  = [nomineeList EXCEPT ![a] = Election(a, @.vote)]
       /\ nomineeArray' = Append(nomineeArray, a)
       /\ monikerList'  = [monikerList EXCEPT ![a] = m]
       /\ Returns(sender, FALSE, FALSE,
                  <<NomineeProposed(a, sender), MonikerAnnounce(a, m)>>)
       /\ UNCHANGED <<whiteListVars, evictionVars>>
    \/ /\ ~mayBeNominated(a) /\ isWhitelisted(a)
       /\ Returns(sender, FALSE, FALSE, <<POA_Error(a, "On Whitelist")>>)
       /\ UNCHANGED storage
    \/ /\ ~mayBeNominated(a) /\ ~isWhitelisted(a)
       /\ Returns(sender, FALSE, FALSE, <<POA_Error(a, "On Nominee list")>>)
       /\ UNCHANGED storage

submitEviction(sender, a) ==
    \/ ~isWhitelisted(sender) /\ Reverts(sender)
    \/ /\ isWhitelisted(sender)
       /\ isWhitelisted(a) /\ ~isEvictee(a)
       /\ Len(evictionArray) < MaxEvictions
       /\ evictionList'  = [evictionList EXCEPT ![a] = Election(a, @.vote)]
       /\ evictionArray' = Append(evictionArray, a)
       /\ Returns(sender, FALSE, FALSE, <<EvictionProposed(a, sender)>>)
       /\ UNCHANGED <<whiteListVars, nomineeVars, monikerList>>
    \/ /\ isWhitelisted(sender) /\ ~isWhitelisted(a)
       /\ Returns(sender, FALSE, FALSE, <<POA_Error(a, "Not on Whitelist")>>)
       /\ UNCHANGED storage
    \/ /\ isWhitelisted(sender) /\ isWhitelisted(a) /\ isEvictee(a)
       /\ Returns(sender, FALSE, FALSE, <<POA_Error(a, "On Evictee list")>>)
       /\ UNCHANGED storage

castNomineeVote(sender, a, accepted) ==
    \/ ~isWhitelisted(sender) /\ Reverts(sender)
    \/ /\ isWhitelisted(sender) /\ isNominee(a)
       /\ ~hasVoted(nomineeList[a], sender)
       /\ LET e    == RecordVote(nomineeList[a], sender, accepted)
              cast == NomineeVoteCast(a, sender, e.yesVotes, e.noVotes, accepted)
          IN  checkForNomineeVoteDecision(sender, a, e, cast)
       /\ UNCHANGED <<monikerList, evictionVars>>
    \/ /\ isWhitelisted(sender) /\ isNominee(a)      \* no redos
       /\ hasVoted(nomineeList[a], sender)
       /\ Returns(sender, FALSE, FALSE, <<>>)
       /\ UNCHANGED storage
    \/ /\ isWhitelisted(sender) /\ ~isNominee(a)
       /\ Returns(sender, TRUE, isWhitelisted(a), <<POA_Error(a, "Not nominee")>>)
       /\ UNCHANGED storage

\* The event's no count is read from nomineeList, not from evictionList.
castEvictionVote(sender, a, accepted) ==
    \/ ~isWhitelisted(sender) /\ Reverts(sender)
    \/ /\ isWhitelisted(sender) /\ isEvictee(a)
       /\ ~hasVoted(evictionList[a], sender)
       /\ LET e    == RecordVote(evictionList[a], sender, accepted)
              cast == EvictionVoteCast(a, sender, e.yesVotes,
                                       nomineeList[a].noVotes, accepted)
          IN  checkForEvictionVoteDecision(sender, a, e, cast)
       /\ UNCHANGED <<monikerList, nomineeVars>>
    \/ /\ isWhitelisted(sender) /\ isEvictee(a)
       /\ hasVoted(evictionList[a], sender)
       /\ Returns(sender, FALSE, FALSE, <<>>)
       /\ UNCHANGED storage
    \/ /\ isWhitelisted(sender) /\ ~isEvictee(a)
       /\ Returns(sender, TRUE, ~isWhitelisted(a), <<POA_Error(a, "Not nominee")>>)
       /\ UNCHANGED storage

-----------------------------------------------------------------------------
(* The contract at genesis: the peers are written straight into storage,    *)
(* in the order of the peer list.                                           *)

GenesisOrders ==
    {s \in [1 .. Cardinality(Genesis) -> Genesis] : Range(s) = Genesis}

Init ==
    /\ whiteList      = [a \in Address |-> IF a \in Genesis THEN a ELSE Zero]
    /\ whiteListCount = Cardinality(Genesis)
    /\ whiteListArray \in GenesisOrders
    /\ nomineeList    = [a \in Address |-> Election(Zero, {})]
    /\ nomineeArray   = <<>>
    /\ \E m \in [Genesis -> Moniker \ {NoMoniker}] :
          monikerList = [a \in Address |-> IF a \in Genesis THEN m[a] ELSE NoMoniker]
    /\ evictionList   = [a \in Address |-> Election(Zero, {})]
    /\ evictionArray  = <<>>
    /\ receipt = [sender |-> Zero, ok |-> TRUE, decided |-> FALSE,
                  voteresult |-> FALSE, logs |-> <<>>]

Next ==
    \E sender \in Account :
        \/ init(sender)
        \/ \E a \in Address : \E m \in Moniker : submitNominee(sender, a, m)
        \/ \E a \in Address : submitEviction(sender, a)
        \/ \E a \in Address : \E accepted \in BOOLEAN : castNomineeVote(sender, a, accepted)
        \/ \E a \in Address : \E accepted \in BOOLEAN : castEvictionVote(sender, a, accepted)

Spec == Init /\ [][Next]_vars

-----------------------------------------------------------------------------
(* Properties.                                                             *)

Members  == {a \in Address : isWhitelisted(a)}
Nominees == {a \in Address : isNominee(a)}
Evictees == {a \in Address : isEvictee(a)}

ElectionType ==
    [nominee : Address, yesVotes : Nat, noVotes : Nat,
     vote : SUBSET Account, yesArray : Seq(Account), noArray : Seq(Account)]

WhiteListType ==
    /\ whiteList \in [Address -> Address]
    /\ whiteListCount \in 0 .. MaxUint
    /\ whiteListArray \in Seq(Account)
NomineeType ==
    /\ nomineeList \in [Address -> ElectionType]
    /\ nomineeArray \in Seq(Address)
EvictionType ==
    /\ evictionList \in [Address -> ElectionType]
    /\ evictionArray \in Seq(Account)
MonikerType == monikerList \in [Address -> Moniker \cup {NoMoniker}]

\* Type correctness of the contract's storage.
TypeOK == WhiteListType /\ NomineeType /\ EvictionType /\ MonikerType

\* The three representations of the whitelist agree: the counter that decides
\* elections, the array clients enumerate and the mapping that authorises
\* senders, through every admission and every swap-with-last removal.  It also
\* says that the counter never wraps and that address(0) is never a member.
WhiteListConsistent ==
    /\ whiteListCount = Cardinality(Members)
    /\ whiteListCount = Len(whiteListArray)
    /\ Range(whiteListArray) = Members
    /\ IsInjective(whiteListArray)
    /\ \A a \in Address : whiteList[a] \in {a, Zero}

\* Nobody is voted in who is in, nobody is voted out who is out: nominees are
\* never on the whitelist and evictees always are, whatever is decided while
\* their election is open.
ElectionsLegal ==
    /\ \A a \in Address : nomineeList[a].nominee \in {a, Zero}
    /\ \A a \in Address : evictionList[a].nominee \in {a, Zero}
    /\ Nominees \cap Members = {}
    /\ Evictees \subseteq Members

\* The arrays clients enumerate list each open election exactly once; only
\* nominations of address(0) add other entries.
ArraysListElections ==
    /\ Range(nomineeArray) \ {Zero} = Nominees
    /\ \A i, j \in DOMAIN nomineeArray :
          nomineeArray[i] = nomineeArray[j] => i = j \/ nomineeArray[i] = Zero
    /\ Range(evictionArray) = Evictees
    /\ IsInjective(evictionArray)

\* The vote mapping, which no delete clears, holds exactly the voters of the
\* open election: a closed election leaves no vote that would keep its voter
\* from voting the next time the address is nominated or proposed.
BallotExact(e) ==
    /\ e.vote = Range(e.yesArray) \cup Range(e.noArray)
    /\ e.nominee = Zero => e.vote = {}
NoStaleVotes ==
    \A a \in Address : BallotExact(nomineeList[a]) /\ BallotExact(evictionList[a])

\* An open election counts every voter once and holds no no vote, since the
\* first one closes it.
BallotCounted(e) ==
    /\ e.yesVotes = Len(e.yesArray) /\ e.yesVotes = Cardinality(e.vote)
    /\ e.noVotes = 0 /\ e.noArray = <<>>
VotesCounted ==
    \A a \in Address : BallotCounted(nomineeList[a]) /\ BallotCounted(evictionList[a])

\* The branch of acceptNominee for a nominee already on the whitelist, which
\* guards whiteListCount against corruption, is never taken.
NeverAlreadyWhitelisted ==
    [][\A i \in DOMAIN receipt'.logs :
          receipt'.logs[i].event = "POA_Error" =>
              receipt'.logs[i].message # "Already Whitelisted"]_vars

Decided(logs, event) ==
    {logs[i].nominee : i \in {j \in DOMAIN logs : logs[j].event = event /\ logs[j].accepted}}

\* A client that follows the decision events knows the whitelist: every
\* transaction changes it exactly as the events it logs say.
EventsTellWhitelist ==
    [][Members' = (Members \cup Decided(receipt'.logs, "NomineeDecision"))
                     \ Decided(receipt'.logs, "EvictionDecision")]_vars

\* The counts in a vote's event.  The yes votes are the members who have said yes
\* to date, each once; the no votes of a nomination are 1 exactly in the vote that
\* ends it.  (What an eviction's event says of the no votes is EvictionNoVotesToDate.)
VoteEventsCount ==
    [][\A i \in DOMAIN receipt'.logs :
          LET log == receipt'.logs[i]
              Yes(e) == Cardinality({v \in Account : v \in e.vote \/ (log.accepted /\ v = log.voter)})
          IN  /\ log.event = "NomineeVoteCast" =>
                    /\ log.yesVotes = Yes(nomineeList[log.nominee])
                    /\ log.noVotes = IF log.accepted THEN 0 ELSE 1
              /\ log.event = "EvictionVoteCast" =>
                    log.yesVotes = Yes(evictionList[log.nominee])]_vars

\* What a counted vote returns is what it logs: it has decided exactly when there
\* is a decision event, and its result, which is read from the whitelist after the
\* decision (poa.sol:298, 348), is what that event says.
VotesAnswered ==
    [][LET logs == receipt'.logs
           Logged(events) == {i \in DOMAIN logs : logs[i].event \in events}
           decisions == Logged({"NomineeDecision", "EvictionDecision"})
       IN  Logged({"NomineeVoteCast", "EvictionVoteCast"}) # {} =>
              /\ receipt'.decided <=> decisions # {}
              /\ receipt'.voteresult <=> \E i \in decisions : logs[i].accepted]_vars

\* The moniker members see next to an address they vote on, or that is on the
\* whitelist, is not changed by anyone submitting the address again.
MonikerSettled ==
    [][\A a \in Members \cup Nominees : monikerList'[a] = monikerList[a]]_vars

Gov == INSTANCE Governance
       WITH Person <- Account, Founders <- Genesis, members <- Members,
            nominees <- Nominees, votesIn <- [a \in Account |-> nomineeList[a].vote],
            evictees <- Evictees, votesOut <- [a \in Account |-> evictionList[a].vote]

\* The counters, arrays and mappings together implement the membership rules of
\* Governance: every transaction is one of its steps or changes nothing there.
ImplementsGovernance == Gov!Spec

-----------------------------------------------------------------------------
(* What the documentation and the comments say and the code does not do.    *)

\* poa.sol:59: the no votes of an EvictionVoteCast event are those cast for the
\* nominee to date.  Its first no vote ends an election, so there is one in the
\* event of a no vote and none in that of a yes.
EvictionNoVotesToDate ==
    [][\A i \in DOMAIN receipt'.logs :
          LET log == receipt'.logs[i]
          IN  log.event = "EvictionVoteCast" =>
                 log.noVotes = IF log.accepted THEN 0 ELSE 1]_vars

\* docs/poa_overview.rst: everyone on the whitelist casts a yes vote before an
\* address is added.
AdmissionUnanimous ==
    [][\A a \in Members' \ Members :
          Members \subseteq Range(nomineeList[a].yesArray) \cup {receipt'.sender}]_vars
=============================================================================
