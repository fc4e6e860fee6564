---------------------------- MODULE GenesisFile ----------------------------
(***************************************************************************)
(* The files a network starts from: peers.json and peers.genesis.json, from *)
(* which Babble takes its first validators, and genesis.json, from which    *)
(* the POA contract takes its first whitelist.  One command writes them     *)
(* one after the other ("giverny network build", also at the end of         *)
(* "giverny network new"), and may be run again after network.toml has been *)
(* edited; "giverny parse" reads genesis.json.                              *)
(***************************************************************************)
EXTENDS PoaStorage

CONSTANTS
    Networks,      \* what "giverny network new" is asked for: the lines of --names,
                   \* --nodes and --initial-peers
    NoFile         \* no file, or one whose writing was cut short

\* Without a names file, numNodes nodes called node0, node1, ... of which the
\* first numValidators validate, or all.
createNodesIteratively(numNodes, numValidators) ==
    [i \in 1 .. numNodes |->
        [moniker |-> [name |-> i, bytes |-> 5], nonNode |-> FALSE,
         validator |-> numValidators < 1 \/ i <= numValidators]]

\* The first numNodes lines of the names file, or all.  A line may say whether
\* its node validates; if it does not, its place in the file decides, places of
\* lines that do say and of those that are no nodes included.
createNodesFromNamesFile(names, numNodes, numValidators) ==
    [i \in 1 .. IF numNodes \in 1 .. Len(names) THEN numNodes ELSE Len(names) |->
        [moniker |-> names[i].moniker, nonNode |-> names[i].nonNode,
         validator |-> IF names[i].validator = "" THEN numValidators < 1 \/ i <= numValidators
                                                  ELSE names[i].validator = "true"]]

createNodes(n) ==
    IF n.names = <<>> THEN createNodesIteratively(n.numNodes, n.numValidators)
                      ELSE createNodesFromNamesFile(n.names, n.numNodes, n.numValidators)

\* Every node gets a key, and with it an address, of its own.
generateKeys(nodes) ==
    [i \in DOMAIN nodes |->
        [address |-> i, moniker |-> nodes[i].moniker,
         validator |-> nodes[i].validator, nonNode |-> nodes[i].nonNode]]

NodeList(n) == generateKeys(createNodes(n))

ASSUME NetworksAssumption ==
    \A n \in Networks :
        /\ n.names \in Seq(Range(n.names)) /\ n.numNodes \in Int /\ n.numValidators \in Int
        /\ n.names # <<>> \/ n.numNodes >= 1
        /\ n.numNodes <= MaxNumber /\ Len(n.names) <= MaxNumber
        /\ \A i, j \in DOMAIN n.names : n.names[i].moniker = n.names[j].moniker => i = j

VARIABLES
    networkTOML,      \* the nodes of the network
    peersJSON, peersGenesisJSON,
    genesisJSON,      \* the storage section of genesis.json
    pc,               \* the file the build writes next, or how the last one ended
    parsed            \* the peers the last parse listed

files == <<peersJSON, peersGenesisJSON, genesisJSON>>
gvars == <<networkTOML, files, pc, parsed>>

\* No build is under way.
Idle == pc \in {"new", "built", "error", "panic", "unwritten"}

-----------------------------------------------------------------------------
\* The nodes that become peers, in the order of network.toml: peer k is the one
\* that is the k-th to be kept.
validators(nodes) ==
    LET kept == {i \in DOMAIN nodes : nodes[i].validator /\ ~nodes[i].nonNode}
        place(i) == Cardinality({j \in kept : j <= i})
    IN  [k \in 1 .. Cardinality(kept) |-> nodes[CHOOSE i \in kept : place(i) = k]]

\* A file that could not be written is as it was, or truncated.
Unwritten(file) == {file, NoFile}

\* The operator edits network.toml.
editNetwork(n) ==
    /\ Idle
    /\ networkTOML' = NodeList(n)
    /\ UNCHANGED <<files, pc, parsed>>

\* buildNetwork: peers.json is overwritten with the validators of network.toml.
generateBabbleFiles ==
    /\ Idle
    /\ \/ peersJSON' = validators(networkTOML) /\ pc' = "peers.genesis.json"
       \/ peersJSON' \in Unwritten(peersJSON) /\ pc' = "error"
    /\ UNCHANGED <<networkTOML, peersGenesisJSON, genesisJSON, parsed>>

\* The same peers into peers.genesis.json.
generateBabbleGenesis ==
    /\ pc = "peers.genesis.json"
    /\ \/ peersGenesisJSON' = peersJSON /\ pc' = "genesis.json"
       \/ peersGenesisJSON' \in Unwritten(peersGenesisJSON) /\ pc' = "error"
    /\ UNCHANGED <<networkTOML, peersJSON, genesisJSON, parsed>>

\* GenerateGenesisJSON: genesis.json is overwritten, unless a public key of
\* network.toml does not parse or a moniker is too long.  It does not notice
\* that the file could not be written: the command succeeds, and the genesis file
\* is the one of an earlier build, or truncated.
GenerateGenesisJSON ==
    /\ pc = "genesis.json"
    /\ \/ pc' = "error" /\ UNCHANGED genesisJSON
       \/ /\ \E i \in DOMAIN peersJSON : PaddingPanics(peersJSON[i].moniker)
          /\ pc' = "panic" /\ UNCHANGED genesisJSON
       \/ /\ \A i \in DOMAIN peersJSON : ~PaddingPanics(peersJSON[i].moniker)
          /\ \/ pc' = "built" /\ genesisJSON' = GetStorage(peersJSON)
             \/ pc' = "unwritten" /\ genesisJSON' \in Unwritten(genesisJSON)
    /\ UNCHANGED <<networkTOML, peersJSON, peersGenesisJSON, parsed>>

\* giverny parse on the genesis file.
parseGenesis ==
    /\ genesisJSON # NoFile /\ Idle
    /\ ~Refused(genesisJSON) /\ ~NilMoniker(genesisJSON)
    /\ parsed' = ParsedPeers(genesisJSON)
    /\ UNCHANGED <<networkTOML, files, pc>>

Init ==
    /\ \E n \in Networks : networkTOML = NodeList(n)
    /\ peersJSON = NoFile /\ peersGenesisJSON = NoFile /\ genesisJSON = NoFile
    /\ pc = "new" /\ parsed = <<>>

Next ==
    \/ \E n \in Networks : editNetwork(n)
    \/ generateBabbleFiles
    \/ generateBabbleGenesis
    \/ GenerateGenesisJSON
    \/ parseGenesis

Spec == Init /\ [][Next]_gvars

-----------------------------------------------------------------------------
(* How the contract reads the storage section: a slot without a row is      *)
(* zero.                                                                    *)

storedCount == 16 * genesisJSON[Slot(whiteListCountSlot)][1]
                  + genesisJSON[Slot(whiteListCountSlot)][2]
storedPeer(i) ==
    LET a == genesisJSON[Elem(whiteListArraySlot, i - 1)].address
    IN  <<a, genesisJSON[Key(whiteListSlot, a)].address, genesisJSON[Key(monikerListSlot, a)].moniker>>

-----------------------------------------------------------------------------
(* Properties.                                                             *)

\* Whatever earlier builds left behind, a build that writes its files leaves the
\* two views of the founders in agreement: the whitelist the contract starts
\* with (its counter, array, mapping and monikers, and nothing else) is the
\* validator-set Babble starts with, in the same order and for any number of
\* peers.
FoundersAgree ==
    pc = "built" =>
        /\ peersGenesisJSON = peersJSON
        /\ storedCount = Len(peersJSON)
        /\ DOMAIN genesisJSON = DOMAIN GetStorage(peersJSON)
        /\ \A i \in DOMAIN peersJSON :
              storedPeer(i) = <<peersJSON[i].address, peersJSON[i].address, peersJSON[i].moniker>>

\* parse lists no peer that is not on the whitelist, and none out of place: read
\* as decimal, a hexadecimal counter is never too large.
ParseInventsNothing ==
    [][genesisJSON # NoFile /\ parsed' # parsed =>
          \A i \in DOMAIN parsed' :
              parsed'[i].set /\ parsed'[i].address = storedPeer(i)[1]]_gvars

\* CHANGELOG.md: giverny parse extracts the peer list from the POA.Storage
\* section of a genesis file.
ParseListsPeers ==
    [][parsed' # parsed => Len(parsed') = storedCount]_gvars
=============================================================================
