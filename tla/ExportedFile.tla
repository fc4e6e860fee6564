---------------------------- MODULE ExportedFile ----------------------------
(***************************************************************************)
(* "giverny parse" on the genesis file a running node exports: EVM-Lite     *)
(* writes every slot of the contract's storage that is not zero, and parse  *)
(* explains what it finds, starting from the addresses in the three arrays. *)
(* The file is taken from any state the contract can reach.                 *)
(***************************************************************************)
EXTENDS POA, PoaStorage

CONSTANTS
    ShortAddress,    \* the addresses whose first byte is zero
    MaxAccepts       \* bound: size of accepts

ASSUME ShortAssumption == ShortAddress \subseteq Account /\ UnknownAddress = Zero
ASSUME AcceptsAssumption == MaxAccepts \in Nat

\* NomineeVote.accept of the votes for which it is set.  It shares its slot with
\* the voter, and closing an election clears only the voter.
VARIABLE accepts

exportVars == <<vars, accepts>>

\* The accept fields once a transaction has logged its events: a vote sets the
\* field or clears it.
Accepts(logs) ==
    LET cast(n, event, accepted) ==
            {<<n, logs[i].nominee, logs[i].voter>> : i \in
                {j \in DOMAIN logs : logs[j].event = event /\ logs[j].accepted = accepted}}
        votes(accepted) == cast(nomineeListSlot, "NomineeVoteCast", accepted)
                             \cup cast(evictionListSlot, "EvictionVoteCast", accepted)
    IN  (accepts \cup votes(TRUE)) \ votes(FALSE)

ExportInit == Init /\ accepts = {}
ExportNext ==
    /\ Next
    /\ accepts' = Accepts(receipt'.logs)
    /\ Cardinality(accepts') <= MaxAccepts
ExportSpec == ExportInit /\ [][ExportNext]_exportVars

-----------------------------------------------------------------------------
\* The value of an address: its RLP encoding drops leading zero bytes.
RLP(a) == AddressValue(a, a \in ShortAddress)

\* The rows of an array and of its length.
ArrayRows(n, array) ==
    IF array = <<>> THEN {}
    ELSE {<<Slot(n), hexLength(Len(array))>>}
           \cup {<<Elem(n, i - 1), RLP(array[i])>> : i \in {j \in DOMAIN array : array[j] # Zero}}

\* The rows of a list of voters and of its length, and of a vote counter.
VoterRows(n, a, f, voters) ==
    IF voters = <<>> THEN {}
    ELSE {<<Field(n, a, f), hexLength(Len(voters))>>}
           \cup {<<Voter(n, a, f, i - 1), RLP(voters[i])>> : i \in DOMAIN voters}
CountRow(n, a, f, count) == IF count = 0 THEN {} ELSE {<<Field(n, a, f), hexLength(count)>>}

\* The rows of election a of mapping n, of whose array a is a part.  A nomination
\* of address(0) has a proposer and no nominee.
ElectionRows(n, array, a, e) ==
    (IF e.nominee = Zero THEN {} ELSE {<<Key(n, a), RLP(a)>>})
      \cup (IF a \in Range(array) THEN {<<Field(n, a, 1), "proposer">>} ELSE {})
      \cup CountRow(n, a, 2, e.yesVotes) \cup CountRow(n, a, 3, e.noVotes)
      \cup {<<Vote(n, a, v), "voter">> : v \in {u \in Account : u \in e.vote \/ <<n, a, u>> \in accepts}}
      \cup VoterRows(n, a, 5, e.yesArray) \cup VoterRows(n, a, 6, e.noArray)

\* The exported storage section.
Exported ==
    FileOf((IF whiteListCount = 0 THEN {}
            ELSE {<<Slot(whiteListCountSlot), hexLength(whiteListCount)>>})
      \cup ArrayRows(whiteListArraySlot, whiteListArray)
      \cup ArrayRows(nomineeArraySlot, nomineeArray)
      \cup ArrayRows(evictionArraySlot, evictionArray)
      \cup {<<Key(whiteListSlot, a), RLP(a)>> : a \in Members}
      \cup {<<Key(monikerListSlot, a), [moniker |-> monikerList[a], prefixed |-> TRUE]>> :
               a \in {b \in Address : monikerList[b] # NoMoniker}}
      \cup (UNION {ElectionRows(nomineeListSlot, nomineeArray, a, nomineeList[a]) : a \in Address})
      \cup (UNION {ElectionRows(evictionListSlot, evictionArray, a, evictionList[a]) : a \in Address}))

-----------------------------------------------------------------------------
(* Properties.                                                             *)

\* What parse makes of addresses.
ReadAs(S) == {parseAddress(RLP(a)) : a \in S}

\* A row that parse cannot find: its slot, or that of its array's length, begins
\* with a zero digit, or it is of an address that does with a zero byte.
Lost(s) ==
    \/ s \in ZeroLed
    \/ s[1] = "voter" /\ Field(s[2], s[3], s[4]) \in ZeroLed
    \/ s[1] \in {"key", "field", "vote", "voter"} /\ s[3] \in ShortAddress
    \/ s[1] = "vote" /\ s[4] \in ShortAddress

\* A row about an address that is on none of the lists: what a former member's or
\* former nominee's moniker and closed elections left, a nomination of address(0),
\* or a vote a member cast before it was evicted.
Stale(s) ==
    LET listed == Members \cup Nominees \cup Evictees
    IN  \/ s[1] \in {"key", "field"} /\ s[3] \notin listed
        \/ s[1] = "vote" /\ ~({s[3], s[4]} \subseteq listed)

\* Parse finds all that is going on in the contract but for what its own reading
\* of leading zeros loses: it accepts the file, lists the members, the nominees
\* and the evictees, under no other name than "Unknown Address", and every row it
\* cannot explain is stale or lost.
UnexplainedIsStaleOrLost ==
    LET file == Exported
    IN  /\ ~Refused(file)
        /\ Listed(file, whiteListArraySlot) = ReadAs(Members)
        /\ Listed(file, nomineeArraySlot) = ReadAs(Nominees)
        /\ Listed(file, evictionArraySlot) = ReadAs(Evictees)
        /\ \A s \in DOMAIN file \ Explained(file) : Stale(s) \/ Lost(s)

\* parse stops at a nil moniker (parse.go:180) exactly when some member was
\* nominated with the empty moniker, which the contract lets anyone do, or has an
\* address that is not understood while address(0) was never nominated under a
\* moniker.
NilIfNoMonikerFound ==
    NilMoniker(Exported) <=>
        \E a \in Members :
            monikerList[IF a \in ShortAddress THEN Zero ELSE a] = NoMoniker
=============================================================================
