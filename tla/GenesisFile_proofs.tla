------------------------- MODULE GenesisFile_proofs -------------------------
(***************************************************************************)
(* Proofs about the files a network starts from: the founders Babble and    *)
(* the contract take from them are the same, for every list of networks and  *)
(* every order of builds, edits and failed writes.                          *)
(***************************************************************************)
EXTENDS GenesisFile, FiniteSetTheorems, TLAPS

-----------------------------------------------------------------------------
(* Lists of peers.                                                         *)

\* The k-th of a finite set of positions exists: numbering the positions in order
\* is a bijection.
LEMMA PlaceExists ==
    ASSUME NEW N \in Int, NEW K \in SUBSET (1 .. N), NEW k \in 1 .. Cardinality(K)
    PROVE  \E i \in K : Cardinality({j \in K : j <= i}) = k
<1> DEFINE below(i) == {j \in K : j <= i}
           place == [i \in K |-> Cardinality(below(i))]
<1>1. IsFiniteSet(K)
  <2>1. IsFiniteSet(1 .. N)
    BY FS_Interval
  <2> QED BY <2>1, FS_Subset
<1>2. \A i \in K : i \in Int
  OBVIOUS
<1>3. ASSUME NEW i \in K PROVE IsFiniteSet(below(i)) /\ Cardinality(below(i)) \in 1 .. Cardinality(K)
  <2>1. below(i) \in SUBSET K /\ i \in below(i)
    BY <1>2
  <2> HIDE DEF below
  <2>2. IsFiniteSet(below(i)) /\ Cardinality(below(i)) <= Cardinality(K)
    BY <1>1, <2>1, FS_Subset
  <2>3. Cardinality(below(i)) \in Nat /\ Cardinality(below(i)) # 0 /\ Cardinality(K) \in Nat
    BY <1>1, <2>1, <2>2, FS_CardinalityType, FS_EmptySet
  <2> QED BY <2>2, <2>3
<1>4. ASSUME NEW i \in K, NEW j \in K, i < j PROVE Cardinality(below(i)) # Cardinality(below(j))
  <2>1. i \in Int /\ j \in Int /\ i < j
    BY <1>2, <1>4
  <2>2. j \in below(j) /\ j \notin below(i)
    BY <2>1
  <2>3. \A x \in K : x <= i => x <= j
    BY <1>2, <2>1
  <2>4. below(i) \in SUBSET below(j)
    BY <2>3
  <2> HIDE DEF below
  <2> QED BY <2>2, <2>4, <1>3, FS_Subset
<1> HIDE DEF below
<1>5. place \in [K -> 1 .. Cardinality(K)]
  BY <1>3
<1>6. \A i, j \in K : place[i] = place[j] => i = j
  BY <1>2, <1>4
<1>7. place \in Injection(K, 1 .. Cardinality(K))
  BY <1>5, <1>6 DEF Injection, IsInjective
<1>8. Cardinality(K) \in Nat
  BY <1>1, FS_CardinalityType
<1>9. IsFiniteSet(1 .. Cardinality(K)) /\ Cardinality(1 .. Cardinality(K)) = Cardinality(K)
  BY <1>8, FS_Interval
<1>10. place \in Surjection(K, 1 .. Cardinality(K))
  BY <1>7, <1>9, FS_Injection
<1>11. PICK i \in K : place[i] = k
  BY <1>10 DEF Surjection
<1> QED BY <1>11 DEF below

\* validators adds nothing to network.toml: every peer is a node of the list, and
\* there are no more peers than nodes.
LEMMA ValidatorsAreNodes ==
    ASSUME NEW S, NEW nodes \in Seq(S)
    PROVE  /\ validators(nodes) \in Seq(Range(nodes))
           /\ Len(validators(nodes)) <= Len(nodes)
<1> DEFINE N == Len(nodes)
           kept == {i \in DOMAIN nodes : nodes[i].validator /\ ~nodes[i].nonNode}
           at(k) == CHOOSE i \in kept : Cardinality({j \in kept : j <= i}) = k
           peers == validators(nodes)
<1>1. peers = [k \in 1 .. Cardinality(kept) |-> nodes[at(k)]]
  BY DEF validators
<1>2. N \in Nat /\ DOMAIN nodes = 1 .. N /\ kept \in SUBSET (1 .. N)
  OBVIOUS
<1> HIDE DEF kept, peers, N
<1>3. Cardinality(kept) \in Nat /\ Cardinality(kept) <= N
  <2>1. IsFiniteSet(1 .. N) /\ Cardinality(1 .. N) = N
    BY <1>2, FS_Interval
  <2>2. IsFiniteSet(kept) /\ Cardinality(kept) <= Cardinality(1 .. N)
    BY <1>2, <2>1, FS_Subset
  <2>3. Cardinality(kept) \in Nat
    BY <2>2, FS_CardinalityType
  <2> QED BY <2>1, <2>2, <2>3
<1>4. ASSUME NEW k \in 1 .. Cardinality(kept) PROVE at(k) \in kept
  <2>1. N \in Int
    BY <1>2
  <2>2. \E i \in kept : Cardinality({j \in kept : j <= i}) = k
    BY <1>2, <2>1, PlaceExists
  <2> QED BY <2>2
<1> HIDE DEF at
<1>5. \A k \in 1 .. Cardinality(kept) : nodes[at(k)] \in Range(nodes)
  BY <1>2, <1>4 DEF Range
<1>6. peers \in Seq(Range(nodes)) /\ Len(peers) = Cardinality(kept)
  BY <1>1, <1>3, <1>5
<1> QED BY <1>3, <1>6 DEF peers, N

\* The nodes of a network are numbered by their addresses, and there are at most
\* MaxNumber of them.
LEMMA NodeListRight ==
    ASSUME NEW n \in Networks
    PROVE  /\ NodeList(n) \in Seq(Range(NodeList(n)))
           /\ Len(NodeList(n)) <= MaxNumber
           /\ \A i \in DOMAIN NodeList(n) : NodeList(n)[i].address = i
<1> DEFINE size == IF n.names = <<>> THEN n.numNodes
                   ELSE IF n.numNodes \in 1 .. Len(n.names) THEN n.numNodes ELSE Len(n.names)
           nodes == createNodes(n)
           list == NodeList(n)
<1>1. size \in Nat /\ size <= MaxNumber
  BY NetworksAssumption
<1>2. DOMAIN nodes = 1 .. size
  BY DEF createNodes, createNodesIteratively, createNodesFromNamesFile
<1> HIDE DEF size, nodes
<1>3. list = [i \in 1 .. size |->
                 [address |-> i, moniker |-> nodes[i].moniker,
                  validator |-> nodes[i].validator, nonNode |-> nodes[i].nonNode]]
  BY <1>2 DEF NodeList, generateKeys, nodes
<1>4. DOMAIN list = 1 .. size /\ \A i \in DOMAIN list : list[i].address = i
  BY <1>3
<1>5. list \in [1 .. size -> Range(list)]
  BY <1>3, <1>4 DEF Range
<1> HIDE DEF list
<1>6. list \in Seq(Range(list)) /\ Len(list) = size
  BY <1>1, <1>4, <1>5
<1> QED BY <1>1, <1>4, <1>6 DEF list

\* What networks peers.json can be of.
PeerLists == {validators(NodeList(n)) : n \in Networks}

\* A list of peers has at most MaxNumber entries, and an address is in it once:
\* entries with the same address are the same.
LEMMA PeerListRight ==
    ASSUME NEW peers \in PeerLists
    PROVE  /\ Len(peers) \in Nat /\ DOMAIN peers = 1 .. Len(peers) /\ Len(peers) <= MaxNumber
           /\ \A i, j \in DOMAIN peers : peers[i].address = peers[j].address => peers[i] = peers[j]
<1>1. PICK n \in Networks : peers = validators(NodeList(n))
  BY DEF PeerLists
<1> DEFINE nodes == NodeList(n)
<1>2. /\ nodes \in Seq(Range(nodes)) /\ Len(nodes) <= MaxNumber
      /\ \A i \in DOMAIN nodes : nodes[i].address = i
  BY NodeListRight
<1> HIDE DEF nodes
<1>3. peers \in Seq(Range(nodes)) /\ Len(peers) <= Len(nodes)
  BY <1>1, <1>2, ValidatorsAreNodes DEF nodes
<1>4. \A x \in Range(nodes) : x = nodes[x.address]
  BY <1>2 DEF Range
<1>5. Len(peers) \in Nat /\ DOMAIN peers = 1 .. Len(peers)
  BY <1>3
<1>6. Len(peers) <= MaxNumber
  <2>1. Len(nodes) \in Nat
    BY <1>2
  <2> QED BY <1>2, <1>3, <1>5, <2>1 DEF MaxNumber
<1>7. \A i \in DOMAIN peers : peers[i] \in Range(nodes)
  BY <1>3
<1> QED BY <1>4, <1>5, <1>6, <1>7

-----------------------------------------------------------------------------
(* Storage sections.                                                       *)

\* A file has the value of a row, if no other row is of the same slot with
\* another value.
LEMMA FileHasRow ==
    ASSUME NEW rows, NEW s, NEW v, <<s, v>> \in rows,
           \A r \in rows : r[1] = s => r[2] = v
    PROVE  s \in DOMAIN FileOf(rows) /\ FileOf(rows)[s] = v
<1>1. s \in {r[1] : r \in rows}
  <2>1. <<s, v>>[1] = s
    OBVIOUS
  <2> QED BY <2>1
<1> DEFINE row == CHOOSE r \in rows : r[1] = s
<1>2. row \in rows /\ row[1] = s
  BY <1>1
<1> QED BY <1>1, <1>2 DEF FileOf

\* An address written in full.
Full(a) == AddressValue(a, FALSE)

\* What GetStorage writes for a list of peers can be read back: the number of
\* peers, and each peer's address and moniker.
LEMMA StorageRight ==
    ASSUME NEW peers \in PeerLists
    PROVE  LET file == GetStorage(peers)
           IN  /\ \A n \in {whiteListCountSlot, whiteListArraySlot} :
                     Slot(n) \in DOMAIN file /\ file[Slot(n)] = hexLength(Len(peers))
               /\ \A i \in DOMAIN peers :
                     LET a == peers[i].address
                     IN  /\ Elem(whiteListArraySlot, i - 1) \in DOMAIN file
                         /\ file[Elem(whiteListArraySlot, i - 1)] = Full(a)
                         /\ file[Key(whiteListSlot, a)] = Full(a)
                         /\ file[Key(monikerListSlot, a)].moniker = peers[i].moniker
<1> DEFINE file == GetStorage(peers)
           counts == {<<Slot(whiteListCountSlot), hexLength(Len(peers))>>,
                      <<Slot(whiteListArraySlot), hexLength(Len(peers))>>}
           elems == {<<Elem(whiteListArraySlot, i - 1), Full(peers[i].address)>> : i \in DOMAIN peers}
           keys == {<<Key(whiteListSlot, peers[i].address), Full(peers[i].address)>> : i \in DOMAIN peers}
           text(i) == [moniker |-> peers[i].moniker, prefixed |-> FALSE]
           names == {<<Key(monikerListSlot, peers[i].address), text(i)>> : i \in DOMAIN peers}
           rows == counts \cup elems \cup keys \cup names
<1>1. file = FileOf(rows)
  BY DEF GetStorage, Full
<1>2. \A i, j \in DOMAIN peers : peers[i].address = peers[j].address => peers[i] = peers[j]
  BY PeerListRight
<1>3. DOMAIN peers \in SUBSET Int
  BY PeerListRight
<1> USE DEF whiteListSlot, whiteListCountSlot, whiteListArraySlot, monikerListSlot
<1>4. \A r \in counts : \E n \in {1, 2} : r[1] = Slot(n) /\ r[2] = hexLength(Len(peers))
  OBVIOUS
<1>5. \A r \in elems : \E i \in DOMAIN peers : r[1] = Elem(2, i - 1) /\ r[2] = Full(peers[i].address)
  OBVIOUS
<1>6. \A r \in keys : \E i \in DOMAIN peers : r[1] = Key(0, peers[i].address) /\ r[2] = Full(peers[i].address)
  OBVIOUS
<1>7. \A r \in names : \E i \in DOMAIN peers : r[1] = Key(5, peers[i].address) /\ r[2] = text(i)
  <2> HIDE DEF text
  <2> QED OBVIOUS
<1>8. ASSUME NEW n \in {1, 2} PROVE <<Slot(n), hexLength(Len(peers))>> \in rows
  OBVIOUS
<1>9. ASSUME NEW i \in DOMAIN peers
      PROVE  /\ <<Elem(2, i - 1), Full(peers[i].address)>> \in rows
             /\ <<Key(0, peers[i].address), Full(peers[i].address)>> \in rows
             /\ <<Key(5, peers[i].address), text(i)>> \in rows
  OBVIOUS
<1>10. \A r \in rows : r \in counts \/ r \in elems \/ r \in keys \/ r \in names
  OBVIOUS
<1> HIDE DEF counts, elems, keys, names, rows, file
<1>11. /\ \A n, m, i : Slot(n) # Elem(m, i)
       /\ \A n, m, a : Slot(n) # Key(m, a)
       /\ \A n, m, i, a : Elem(n, i) # Key(m, a)
  BY DEF Slot, Elem, Key
<1>12. \A n, m, a, b : Key(n, a) = Key(m, b) => n = m /\ a = b
  BY DEF Key
<1>13. \A n, i, j : Elem(n, i) = Elem(n, j) => i = j
  BY DEF Elem
<1> HIDE DEF text
<1>14. ASSUME NEW n \in {1, 2} PROVE Slot(n) \in DOMAIN file /\ file[Slot(n)] = hexLength(Len(peers))
  <2>1. ASSUME NEW r \in rows, r[1] = Slot(n) PROVE r[2] = hexLength(Len(peers))
    <3>1. r \notin elems /\ r \notin keys /\ r \notin names
      BY <1>5, <1>6, <1>7, <1>11, <2>1
    <3> QED BY <1>4, <1>10, <3>1
  <2> QED BY <1>1, <1>8, <2>1, FileHasRow
<1>15. ASSUME NEW i \in DOMAIN peers
       PROVE  /\ Elem(2, i - 1) \in DOMAIN file
              /\ file[Elem(2, i - 1)] = Full(peers[i].address)
  <2>1. PICK s : s = Elem(2, i - 1)
    OBVIOUS
  <2>2. ASSUME NEW r \in rows, r[1] = s PROVE r[2] = Full(peers[i].address)
    <3>1. r \notin counts /\ r \notin keys /\ r \notin names
      <4>1. r \notin counts
        BY <1>4, <1>11, <2>1, <2>2
      <4>2. r \notin keys
        BY <1>6, <1>11, <2>1, <2>2
      <4>3. r \notin names
        BY <1>7, <1>11, <2>1, <2>2
      <4> QED BY <4>1, <4>2, <4>3
    <3>2. PICK j \in DOMAIN peers : r[1] = Elem(2, j - 1) /\ r[2] = Full(peers[j].address)
      BY <1>5, <1>10, <3>1
    <3>3. i = j
      BY <1>3, <1>13, <2>1, <2>2, <3>2
    <3> QED BY <3>2, <3>3
  <2>3. <<s, Full(peers[i].address)>> \in rows
    BY <1>9, <2>1
  <2>4. s \in DOMAIN file /\ file[s] = Full(peers[i].address)
    BY <1>1, <2>2, <2>3, FileHasRow
  <2> QED BY <2>1, <2>4
<1>16. ASSUME NEW i \in DOMAIN peers
       PROVE  file[Key(0, peers[i].address)] = Full(peers[i].address)
  <2>1. PICK s : s = Key(0, peers[i].address)
    OBVIOUS
  <2>2. ASSUME NEW r \in rows, r[1] = s PROVE r[2] = Full(peers[i].address)
    <3>1. r \notin counts /\ r \notin elems /\ r \notin names
      <4>1. r \notin counts
        BY <1>4, <1>11, <1>12, <2>1, <2>2
      <4>2. r \notin elems
        BY <1>5, <1>11, <1>12, <2>1, <2>2
      <4>3. r \notin names
        BY <1>7, <1>11, <1>12, <2>1, <2>2
      <4> QED BY <4>1, <4>2, <4>3
    <3> QED BY <1>6, <1>10, <1>12, <2>1, <2>2, <3>1
  <2>3. <<s, Full(peers[i].address)>> \in rows
    BY <1>9, <2>1
  <2>4. file[s] = Full(peers[i].address)
    BY <1>1, <2>2, <2>3, FileHasRow
  <2> QED BY <2>1, <2>4
<1>17. ASSUME NEW i \in DOMAIN peers
       PROVE  file[Key(5, peers[i].address)].moniker = peers[i].moniker
  <2>1. PICK s : s = Key(5, peers[i].address)
    OBVIOUS
  <2>2. \A j \in DOMAIN peers : peers[i].address = peers[j].address => text(j) = text(i)
    BY <1>2 DEF text
  <2>3. ASSUME NEW r \in rows, r[1] = s PROVE r[2] = text(i)
    <3>1. r \notin counts /\ r \notin elems /\ r \notin keys
      <4>1. r \notin counts
        BY <1>4, <1>11, <1>12, <2>1, <2>3
      <4>2. r \notin elems
        BY <1>5, <1>11, <1>12, <2>1, <2>3
      <4>3. r \notin keys
        BY <1>6, <1>11, <1>12, <2>1, <2>3
      <4> QED BY <4>1, <4>2, <4>3
    <3> QED BY <1>7, <1>10, <1>12, <2>1, <2>2, <2>3, <3>1
  <2>4. <<s, text(i)>> \in rows
    BY <1>9, <2>1
  <2>5. file[s] = text(i)
    BY <1>1, <2>3, <2>4, FileHasRow
  <2> QED BY <2>1, <2>5 DEF text
<1> QED BY <1>14, <1>15, <1>16, <1>17 DEF file

\* A number written in hexadecimal is read by the contract as it is, and by parse
\* as one that is not larger.
LEMMA HexRight ==
    ASSUME NEW n \in Nat
    PROVE  /\ 16 * hexLength(n)[1] + hexLength(n)[2] = n
           /\ Atoi(hexLength(n)) \in Nat /\ Atoi(hexLength(n)) <= n
<1> DEFINE q == n \div 16
           r == n % 16
<1>1. q \in Nat /\ r \in 0 .. 15 /\ n = 16 * q + r
  OBVIOUS
<1>2. hexLength(n)[1] = q /\ hexLength(n)[2] = r
  BY DEF hexLength
<1> HIDE DEF q, r
<1> QED BY <1>1, <1>2 DEF Atoi

-----------------------------------------------------------------------------
(* The inductive invariant.                                                *)

\* network.toml is of a network that was asked for.
NetworkRight == \E n \in Networks : networkTOML = NodeList(n)

\* While a build is under way, and after one that wrote its files, peers.json is
\* the peers of a network; the second file, once written, is a copy of it.
PeersRight ==
    /\ pc \in {"peers.genesis.json", "genesis.json", "built"} => peersJSON \in PeerLists
    /\ pc \in {"genesis.json", "built"} => peersGenesisJSON = peersJSON

\* A genesis file, of whatever build, is the storage of the peers of a network; of
\* those of peers.json when the build that wrote it was the last.
GenesisRight ==
    /\ genesisJSON = NoFile \/ \E peers \in PeerLists : genesisJSON = GetStorage(peers)
    /\ pc = "built" => genesisJSON = GetStorage(peersJSON)

Inv == NetworkRight /\ PeersRight /\ GenesisRight

\* Initially there are no files.
LEMMA InitInv == Init => Inv
  BY DEF Init, Inv, NetworkRight, PeersRight, GenesisRight

\* The operator's edits touch none of the files a build writes.
LEMMA EditInv == ASSUME Inv, NEW n \in Networks, editNetwork(n) PROVE Inv'
  BY DEF editNetwork, Inv, NetworkRight, PeersRight, GenesisRight, files

\* peers.json is written from network.toml; until the build ends nothing is said
\* of the genesis file but that some build wrote it.
LEMMA BabbleFilesInv == ASSUME Inv, generateBabbleFiles PROVE Inv'
<1>1. validators(networkTOML) \in PeerLists
  BY DEF Inv, NetworkRight, PeerLists
<1> QED BY <1>1 DEF generateBabbleFiles, Inv, NetworkRight, PeersRight, GenesisRight

\* The second file is a copy of the first.
LEMMA BabbleGenesisInv == ASSUME Inv, generateBabbleGenesis PROVE Inv'
  BY DEF generateBabbleGenesis, Inv, NetworkRight, PeersRight, GenesisRight

\* genesis.json is written from the peers of the same build, or it is left to an
\* earlier one and the build is not "built".
LEMMA GenesisJSONInv == ASSUME Inv, GenerateGenesisJSON PROVE Inv'
<1>1. NetworkRight'
  BY DEF GenerateGenesisJSON, Inv, NetworkRight
<1>2. PeersRight'
  BY DEF GenerateGenesisJSON, Inv, PeersRight
<1>3. GenesisRight'
  BY DEF GenerateGenesisJSON, Inv, PeersRight, GenesisRight, Unwritten
<1> QED BY <1>1, <1>2, <1>3 DEF Inv

\* parse changes no file.
LEMMA ParseInv == ASSUME Inv, parseGenesis PROVE Inv'
  BY DEF parseGenesis, Inv, NetworkRight, PeersRight, GenesisRight, files

\* Every file of a network is of one of its builds.
THEOREM Invariance == Spec => []Inv
<1>1. ASSUME Inv, [Next]_gvars PROVE Inv'
  <2>1. CASE Next
    BY <1>1, <2>1, EditInv, BabbleFilesInv, BabbleGenesisInv, GenesisJSONInv, ParseInv DEF Next
  <2>2. CASE UNCHANGED gvars
    BY <1>1, <2>2 DEF gvars, files, Inv, NetworkRight, PeersRight, GenesisRight
  <2> QED BY <1>1, <2>1, <2>2
<1> QED BY <1>1, InitInv, PTL DEF Spec

\* Babble and the contract start from the same founders, in the same order,
\* whatever earlier builds, edits and failed writes came before: for every
\* network of at most MaxNumber nodes, and with any of them not validating.
THEOREM FoundersAlwaysAgree == Spec => []FoundersAgree
<1>1. ASSUME Inv, pc = "built"
      PROVE  /\ peersGenesisJSON = peersJSON
             /\ storedCount = Len(peersJSON)
             /\ DOMAIN genesisJSON = DOMAIN GetStorage(peersJSON)
             /\ \A i \in DOMAIN peersJSON :
                   storedPeer(i) = <<peersJSON[i].address, peersJSON[i].address, peersJSON[i].moniker>>
  <2>1. peersJSON \in PeerLists /\ peersGenesisJSON = peersJSON /\ genesisJSON = GetStorage(peersJSON)
    BY <1>1 DEF Inv, PeersRight, GenesisRight
  <2>2. Len(peersJSON) \in Nat
    BY <2>1, PeerListRight
  <2>3. genesisJSON[Slot(whiteListCountSlot)] = hexLength(Len(peersJSON))
    BY <2>1, StorageRight
  <2>4. storedCount = Len(peersJSON)
    BY <2>2, <2>3, HexRight DEF storedCount
  <2>5. ASSUME NEW i \in DOMAIN peersJSON
        PROVE  storedPeer(i) = <<peersJSON[i].address, peersJSON[i].address, peersJSON[i].moniker>>
    <3>1. /\ genesisJSON[Elem(whiteListArraySlot, i - 1)] = Full(peersJSON[i].address)
          /\ genesisJSON[Key(whiteListSlot, peersJSON[i].address)] = Full(peersJSON[i].address)
          /\ genesisJSON[Key(monikerListSlot, peersJSON[i].address)].moniker = peersJSON[i].moniker
      BY <2>1, StorageRight
    <3>2. Full(peersJSON[i].address).address = peersJSON[i].address
      BY DEF Full, AddressValue
    <3> QED BY <3>1, <3>2 DEF storedPeer
  <2> QED BY <2>1, <2>4, <2>5
<1>2. Inv => FoundersAgree
  BY <1>1 DEF FoundersAgree
<1> QED BY <1>2, Invariance, PTL

\* parse lists no peer that is not on the whitelist, and none out of place, on
\* every file a build wrote: what it takes for the number of peers is never more
\* than their number.
THEOREM ParseNeverInvents == Spec => ParseInventsNothing
<1>1. ASSUME Inv, [Next]_gvars
      PROVE  [genesisJSON # NoFile /\ parsed' # parsed =>
                \A i \in DOMAIN parsed' :
                    parsed'[i].set /\ parsed'[i].address = storedPeer(i)[1]]_gvars
  <2> SUFFICES ASSUME genesisJSON # NoFile, parsed' # parsed, Next, NEW i \in DOMAIN parsed'
               PROVE  /\ parsed'[i].set
                      /\ parsed'[i].address = storedPeer(i)[1]
    BY <1>1
  <2>1. parsed' = ParsedPeers(genesisJSON)
    BY DEF Next, editNetwork, generateBabbleFiles, generateBabbleGenesis,
           GenerateGenesisJSON, parseGenesis
  <2>2. PICK peers \in PeerLists : genesisJSON = GetStorage(peers)
    BY <1>1 DEF Inv, GenesisRight
  <2>3. Len(peers) \in Nat /\ DOMAIN peers = 1 .. Len(peers)
    BY PeerListRight
  <2>4. WhiteListCount(genesisJSON) = Atoi(hexLength(Len(peers)))
    BY <2>2, StorageRight DEF WhiteListCount, Number
  <2>5. WhiteListCount(genesisJSON) \in Nat /\ WhiteListCount(genesisJSON) <= Len(peers)
    BY <2>3, <2>4, HexRight
  <2>6. i \in 1 .. WhiteListCount(genesisJSON)
    BY <2>1 DEF ParsedPeers
  <2>7. i \in DOMAIN peers
    BY <2>3, <2>5, <2>6
  <2>8. Elem(whiteListArraySlot, i - 1) \in DOMAIN genesisJSON
    BY <2>2, <2>7, StorageRight
  <2>9. parsed'[i] = ParsedPeer(genesisJSON, i)
    BY <2>1, <2>6 DEF ParsedPeers
  <2>10. genesisJSON[Elem(whiteListArraySlot, i - 1)] = Full(peers[i].address)
    BY <2>2, <2>7, StorageRight
  <2>11. parseAddress(Full(peers[i].address)) = Full(peers[i].address).address
    BY DEF parseAddress, Full, AddressValue
  <2>12. storedPeer(i)[1] = Full(peers[i].address).address
    BY <2>10 DEF storedPeer
  <2> QED BY <2>8, <2>9, <2>10, <2>11, <2>12 DEF ParsedPeer
<1> QED BY <1>1, Invariance, PTL DEF Spec, ParseInventsNothing
=============================================================================
