------------------------- MODULE ExportedFile_proofs -------------------------
(***************************************************************************)
(* Proofs about "giverny parse" on the file a running node exports, for      *)
(* every set of addresses and every state the contract can reach.           *)
(***************************************************************************)
EXTENDS ExportedFile, POA_proofs

-----------------------------------------------------------------------------
(* Slots, rows and numbers.                                                *)

\* A slot shows what it is of.
LEMMA SlotParts ==
    /\ \A n : Slot(n)[1] = "slot" /\ Slot(n)[2] = n
    /\ \A n, i : Elem(n, i)[1] = "elem" /\ Elem(n, i)[2] = n /\ Elem(n, i)[3] = i
    /\ \A n, a : Key(n, a)[1] = "key" /\ Key(n, a)[2] = n /\ Key(n, a)[3] = a
    /\ \A n, a, f : /\ Field(n, a, f)[1] = "field" /\ Field(n, a, f)[2] = n
                    /\ Field(n, a, f)[3] = a /\ Field(n, a, f)[4] = f
    /\ \A n, a, v : /\ Vote(n, a, v)[1] = "vote" /\ Vote(n, a, v)[2] = n
                    /\ Vote(n, a, v)[3] = a /\ Vote(n, a, v)[4] = v
    /\ \A n, a, f, k : /\ Voter(n, a, f, k)[1] = "voter" /\ Voter(n, a, f, k)[2] = n
                       /\ Voter(n, a, f, k)[3] = a /\ Voter(n, a, f, k)[4] = f
  BY DEF Slot, Elem, Key, Field, Vote, Voter

\* The slots of a file are those of its rows.
LEMMA FileSlots ==
    ASSUME NEW rows, NEW s
    PROVE  s \in DOMAIN FileOf(rows) <=> \E r \in rows : r[1] = s
  BY DEF FileOf

\* A number below ten is read as it was written, and no number is read as a
\* larger one.
LEMMA HexRead ==
    ASSUME NEW n \in Nat
    PROVE  /\ Atoi(hexLength(n)) \in 0 .. n
           /\ n <= 9 => Atoi(hexLength(n)) = n
<1> DEFINE q == n \div 16
           r == n % 16
<1>1. q \in Nat /\ r \in 0 .. 15 /\ n = 16 * q + r
  OBVIOUS
<1>2. hexLength(n)[1] = q /\ hexLength(n)[2] = r
  BY DEF hexLength
<1> HIDE DEF q, r
<1>3. Atoi(hexLength(n)) = IF q > 9 \/ r > 9 THEN 0 ELSE 10 * q + r
  BY <1>2 DEF Atoi
<1>4. CASE q > 9 \/ r > 9
  BY <1>1, <1>3, <1>4
<1>5. CASE ~(q > 9 \/ r > 9)
  BY <1>1, <1>3, <1>5
<1> QED BY <1>4, <1>5

\* The rows of an array: its length, and its entries but address(0).
LEMMA ArrayRowsRight ==
    ASSUME NEW n, NEW S, NEW array \in Seq(S)
    PROVE  /\ \A r \in ArrayRows(n, array) :
                 \/ r[1] = Slot(n) /\ r[2] = hexLength(Len(array))
                 \/ \E i \in DOMAIN array :
                       array[i] # Zero /\ r[1] = Elem(n, i - 1) /\ r[2] = RLP(array[i])
           /\ array # <<>> => \E r \in ArrayRows(n, array) : r[1] = Slot(n)
           /\ \A i \in DOMAIN array :
                 array[i] # Zero => \E r \in ArrayRows(n, array) : r[1] = Elem(n, i - 1)
           /\ array = <<>> => ArrayRows(n, array) = {}
<1>1. CASE array = <<>>
  BY <1>1 DEF ArrayRows
<1>2. CASE array # <<>>
  <2> DEFINE first == <<Slot(n), hexLength(Len(array))>>
             entries == {<<Elem(n, i - 1), RLP(array[i])>> : i \in {j \in DOMAIN array : array[j] # Zero}}
  <2>1. ArrayRows(n, array) = {first} \cup entries
    BY <1>2 DEF ArrayRows
  <2>2. first[1] = Slot(n) /\ first[2] = hexLength(Len(array))
    OBVIOUS
  <2>3. \A r \in entries : \E i \in DOMAIN array :
            array[i] # Zero /\ r[1] = Elem(n, i - 1) /\ r[2] = RLP(array[i])
    OBVIOUS
  <2>4. ASSUME NEW i \in DOMAIN array, array[i] # Zero PROVE \E r \in entries : r[1] = Elem(n, i - 1)
    <3>1. <<Elem(n, i - 1), RLP(array[i])>> \in entries
      BY <2>4
    <3>2. <<Elem(n, i - 1), RLP(array[i])>>[1] = Elem(n, i - 1)
      OBVIOUS
    <3> QED BY <3>1, <3>2
  <2> HIDE DEF first, entries
  <2> QED BY <1>2, <2>1, <2>2, <2>3, <2>4
<1> QED BY <1>1, <1>2

\* The rows of an election that has no no votes, as no election has.
LEMMA ElectionRowsRight ==
    ASSUME NEW n, NEW array, NEW a, NEW e \in ElectionType, BallotCounted(e)
    PROVE  /\ \A r \in ElectionRows(n, array, a, e) :
                 \/ r[1] = Key(n, a)
                 \/ \E f \in {1, 2} : r[1] = Field(n, a, f)
                 \/ \E v \in Account : r[1] = Vote(n, a, v)
                 \/ r[1] = Field(n, a, 5) /\ r[2] = hexLength(Len(e.yesArray))
                 \/ \E k \in DOMAIN e.yesArray : r[1] = Voter(n, a, 5, k - 1)
           /\ e.yesArray # <<>> => \E r \in ElectionRows(n, array, a, e) : r[1] = Field(n, a, 5)
           /\ e.yesArray = <<>> => \A r \in ElectionRows(n, array, a, e) : r[1] # Field(n, a, 5)
<1> DEFINE key == IF e.nominee = Zero THEN {} ELSE {<<Key(n, a), RLP(a)>>}
           proposer == IF a \in Range(array) THEN {<<Field(n, a, 1), "proposer">>} ELSE {}
           count == CountRow(n, a, 2, e.yesVotes)
           votes == {<<Vote(n, a, v), "voter">> : v \in {u \in Account : u \in e.vote \/ <<n, a, u>> \in accepts}}
           voters == VoterRows(n, a, 5, e.yesArray)
           rows == ElectionRows(n, array, a, e)
<1>1. rows = key \cup proposer \cup count \cup votes \cup voters
  <2>1. CountRow(n, a, 3, e.noVotes) = {} /\ VoterRows(n, a, 6, e.noArray) = {}
    BY DEF BallotCounted, CountRow, VoterRows
  <2> QED BY <2>1 DEF ElectionRows
<1>2. \A r \in key : r[1] = Key(n, a)
  OBVIOUS
<1>3. \A r \in proposer : r[1] = Field(n, a, 1)
  OBVIOUS
<1>4. \A r \in count : r[1] = Field(n, a, 2)
  BY DEF CountRow
<1>5. ASSUME NEW r \in votes PROVE \E v \in Account : r[1] = Vote(n, a, v)
  <2>1. PICK v \in Account : r = <<Vote(n, a, v), "voter">>
    OBVIOUS
  <2> QED BY <2>1
<1>6. \A r \in voters : \/ r[1] = Field(n, a, 5) /\ r[2] = hexLength(Len(e.yesArray))
                        \/ \E k \in DOMAIN e.yesArray : r[1] = Voter(n, a, 5, k - 1)
  BY DEF VoterRows
<1>7. /\ e.yesArray # <<>> => \E r \in voters : r[1] = Field(n, a, 5)
      /\ e.yesArray = <<>> => voters = {}
  <2>1. CASE e.yesArray = <<>>
    BY <2>1 DEF VoterRows
  <2>2. CASE e.yesArray # <<>>
    <3>1. <<Field(n, a, 5), hexLength(Len(e.yesArray))>> \in voters
      BY <2>2 DEF VoterRows
    <3>2. <<Field(n, a, 5), hexLength(Len(e.yesArray))>>[1] = Field(n, a, 5)
      OBVIOUS
    <3> QED BY <2>2, <3>1, <3>2
  <2> QED BY <2>1, <2>2
<1> HIDE DEF key, proposer, count, votes, voters, rows
<1>8. \A r \in rows : r \in key \/ r \in proposer \/ r \in count \/ r \in votes \/ r \in voters
  BY <1>1
<1>9. \A r \in voters : r \in rows
  BY <1>1
<1>10. ASSUME e.yesArray = <<>>, NEW r \in rows PROVE r[1] # Field(n, a, 5)
  <2>1. r \in key \/ r \in proposer \/ r \in count \/ r \in votes
    BY <1>7, <1>8, <1>10
  <2> QED BY <1>2, <1>3, <1>4, <1>5, <2>1, SlotParts
<1> QED BY <1>2, <1>3, <1>4, <1>5, <1>6, <1>7, <1>8, <1>9, <1>10 DEF rows

-----------------------------------------------------------------------------
(* The exported file.                                                      *)

\* The contract's variables by their slot number.
Arrays == {whiteListArraySlot, nomineeArraySlot, evictionArraySlot}
ArrayOf(n) ==
    IF n = whiteListArraySlot THEN whiteListArray
    ELSE IF n = nomineeArraySlot THEN nomineeArray ELSE evictionArray
ListOf(n) == IF n = nomineeListSlot THEN nomineeList ELSE evictionList

\* The rows of the counter and of the mappings of addresses.
CounterRows ==
    IF whiteListCount = 0 THEN {} ELSE {<<Slot(whiteListCountSlot), hexLength(whiteListCount)>>}
MemberRows == {<<Key(whiteListSlot, a), RLP(a)>> : a \in Members}
MonikerRows ==
    {<<Key(monikerListSlot, a), [moniker |-> monikerList[a], prefixed |-> TRUE]>> :
        a \in {b \in Address : monikerList[b] # NoMoniker}}

\* The rows of the elections of mapping n, whose array is in the next slot.
ElectionsRows(n) ==
    UNION {ElectionRows(n, ArrayOf(n + 1), a, ListOf(n)[a]) : a \in Address}

Rows ==
    CounterRows
      \cup ArrayRows(whiteListArraySlot, whiteListArray)
      \cup ArrayRows(nomineeArraySlot, nomineeArray)
      \cup ArrayRows(evictionArraySlot, evictionArray)
      \cup MemberRows \cup MonikerRows
      \cup ElectionsRows(nomineeListSlot) \cup ElectionsRows(evictionListSlot)

\* What is proved of the contract, and used here.
ContractInv == WhiteListInv /\ BallotInv /\ ArraysListElections

\* The exported file is the file of these rows.
LEMMA ExportedRows == Exported = FileOf(Rows)
<1>1. ElectionsRows(nomineeListSlot) =
        UNION {ElectionRows(nomineeListSlot, nomineeArray, a, nomineeList[a]) : a \in Address}
  BY DEF ElectionsRows, ArrayOf, ListOf, nomineeListSlot, nomineeArraySlot, whiteListArraySlot
<1>2. ElectionsRows(evictionListSlot) =
        UNION {ElectionRows(evictionListSlot, evictionArray, a, evictionList[a]) : a \in Address}
  BY DEF ElectionsRows, ArrayOf, ListOf, nomineeListSlot, nomineeArraySlot, whiteListArraySlot,
         evictionListSlot
<1> QED BY <1>1, <1>2 DEF Exported, Rows, CounterRows, MemberRows, MonikerRows

\* A row is of one of these kinds, and every such row is there.
LEMMA RowKinds ==
    ASSUME NEW r
    PROVE  r \in Rows <=>
              \/ r \in CounterRows
              \/ \E n \in Arrays : r \in ArrayRows(n, ArrayOf(n))
              \/ r \in MemberRows
              \/ r \in MonikerRows
              \/ \E n \in Elections : \E a \in Address :
                    r \in ElectionRows(n, ArrayOf(n + 1), a, ListOf(n)[a])
<1>1. /\ ArrayRows(whiteListArraySlot, whiteListArray) = ArrayRows(2, ArrayOf(2))
      /\ ArrayRows(nomineeArraySlot, nomineeArray) = ArrayRows(4, ArrayOf(4))
      /\ ArrayRows(evictionArraySlot, evictionArray) = ArrayRows(7, ArrayOf(7))
  BY DEF ArrayOf, whiteListArraySlot, nomineeArraySlot, evictionArraySlot
<1>2. Arrays = {2, 4, 7} /\ Elections = {nomineeListSlot, evictionListSlot}
  BY DEF Arrays, Elections, whiteListArraySlot, nomineeArraySlot, evictionArraySlot
<1>3. \A n \in Elections :
         r \in ElectionsRows(n) <=> \E a \in Address : r \in ElectionRows(n, ArrayOf(n + 1), a, ListOf(n)[a])
  BY DEF ElectionsRows
<1> QED BY <1>1, <1>2, <1>3 DEF Rows

\* The rows of the counter and of the mappings of addresses.
LEMMA SimpleRows ==
    /\ \A r \in CounterRows : r[1] = Slot(1) /\ r[2] = hexLength(whiteListCount)
    /\ whiteListCount # 0 => \E r \in CounterRows : r[1] = Slot(1)
    /\ whiteListCount = 0 => CounterRows = {}
    /\ \A r \in MemberRows : \E a \in Members : r[1] = Key(0, a)
    /\ \A r \in MonikerRows : \E a \in Address : monikerList[a] # NoMoniker /\ r[1] = Key(5, a)
    /\ \A a \in Address : monikerList[a] # NoMoniker => \E r \in MonikerRows : r[1] = Key(5, a)
<1>1. /\ \A r \in CounterRows : r[1] = Slot(1) /\ r[2] = hexLength(whiteListCount)
      /\ whiteListCount = 0 => CounterRows = {}
  BY DEF CounterRows, whiteListCountSlot
<1>2. ASSUME whiteListCount # 0 PROVE \E r \in CounterRows : r[1] = Slot(1)
  <2>1. <<Slot(1), hexLength(whiteListCount)>> \in CounterRows
    BY <1>2 DEF CounterRows, whiteListCountSlot
  <2>2. <<Slot(1), hexLength(whiteListCount)>>[1] = Slot(1)
    OBVIOUS
  <2> QED BY <2>1, <2>2
<1>3. \A r \in MemberRows : \E a \in Members : r[1] = Key(0, a)
  BY DEF MemberRows, whiteListSlot
<1> DEFINE text(a) == [moniker |-> monikerList[a], prefixed |-> TRUE]
<1>4. MonikerRows = {<<Key(5, a), text(a)>> : a \in {b \in Address : monikerList[b] # NoMoniker}}
  BY DEF MonikerRows, monikerListSlot
<1> HIDE DEF text
<1>5. ASSUME NEW r \in MonikerRows
      PROVE  \E a \in Address : monikerList[a] # NoMoniker /\ r[1] = Key(5, a)
  <2>1. PICK a \in Address : monikerList[a] # NoMoniker /\ r = <<Key(5, a), text(a)>>
    BY <1>4
  <2> QED BY <2>1
<1>6. ASSUME NEW a \in Address, monikerList[a] # NoMoniker
      PROVE  \E r \in MonikerRows : r[1] = Key(5, a)
  <2>1. <<Key(5, a), text(a)>> \in MonikerRows
    BY <1>4, <1>6
  <2>2. <<Key(5, a), text(a)>>[1] = Key(5, a)
    OBVIOUS
  <2> QED BY <2>1, <2>2
<1> QED BY <1>1, <1>2, <1>3, <1>5, <1>6

\* The arrays and elections have their types, and no election has a no vote.
LEMMA ContractTypes ==
    ASSUME ContractInv
    PROVE  /\ \A n \in Arrays : ArrayOf(n) \in Seq(Address)
           /\ \A n \in Elections : \A a \in Address :
                 ListOf(n)[a] \in ElectionType /\ BallotCounted(ListOf(n)[a])
           /\ whiteListCount \in Nat /\ whiteListCount = Len(whiteListArray)
<1>1. /\ whiteListArray \in Seq(Address) /\ nomineeArray \in Seq(Address)
      /\ evictionArray \in Seq(Address)
  <2>1. \A t \in Seq(Account) : t \in Seq(Address)
    BY DEF Account
  <2> QED BY <2>1 DEF ContractInv, WhiteListInv, TypeOK, WhiteListType, NomineeType, EvictionType
<1>2. whiteListCount \in Nat /\ whiteListCount = Len(whiteListArray)
  BY UintAssumption DEF ContractInv, WhiteListInv, TypeOK, WhiteListType, WhiteListConsistent
<1>3. \A a \in Address : /\ nomineeList[a] \in ElectionType /\ BallotCounted(nomineeList[a])
                          /\ evictionList[a] \in ElectionType /\ BallotCounted(evictionList[a])
  BY DEF ContractInv, WhiteListInv, TypeOK, NomineeType, EvictionType, BallotInv, VotesCounted
<1> QED BY <1>1, <1>2, <1>3 DEF ArrayOf, ListOf

-----------------------------------------------------------------------------
(* What parse reads.                                                       *)

\* What a row says, by the kind of its slot.
LEMMA RowSlots ==
    ASSUME ContractInv, NEW r \in Rows
    PROVE  \/ r[1] = Slot(1) /\ r[2] = hexLength(whiteListCount) /\ whiteListCount # 0
           \/ \E n \in Arrays : /\ r[1] = Slot(n) /\ r[2] = hexLength(Len(ArrayOf(n)))
                               /\ ArrayOf(n) # <<>>
           \/ \E n \in Arrays : \E i \in DOMAIN ArrayOf(n) :
                 ArrayOf(n)[i] # Zero /\ r[1] = Elem(n, i - 1) /\ r[2] = RLP(ArrayOf(n)[i])
           \/ \E a \in Members : r[1] = Key(0, a)
           \/ \E a \in Address : monikerList[a] # NoMoniker /\ r[1] = Key(5, a)
           \/ \E n \in Elections : \E a \in Address :
                 \/ r[1] = Key(n, a)
                 \/ \E f \in {1, 2} : r[1] = Field(n, a, f)
                 \/ \E v \in Account : r[1] = Vote(n, a, v)
                 \/ /\ r[1] = Field(n, a, 5) /\ r[2] = hexLength(Len(ListOf(n)[a].yesArray))
                    /\ ListOf(n)[a].yesArray # <<>>
                 \/ \E k \in DOMAIN ListOf(n)[a].yesArray : r[1] = Voter(n, a, 5, k - 1)
<1>1. CASE r \in CounterRows
  BY <1>1, SimpleRows
<1>2. CASE \E n \in Arrays : r \in ArrayRows(n, ArrayOf(n))
  <2>1. PICK n \in Arrays : r \in ArrayRows(n, ArrayOf(n))
    BY <1>2
  <2>2. ArrayOf(n) \in Seq(Address)
    BY ContractTypes
  <2>3. ArrayOf(n) # <<>>
    BY <2>1, <2>2, ArrayRowsRight
  <2>4. \/ r[1] = Slot(n) /\ r[2] = hexLength(Len(ArrayOf(n)))
        \/ \E i \in DOMAIN ArrayOf(n) :
              ArrayOf(n)[i] # Zero /\ r[1] = Elem(n, i - 1) /\ r[2] = RLP(ArrayOf(n)[i])
    BY <2>1, <2>2, ArrayRowsRight
  <2> QED BY <2>3, <2>4
<1>3. CASE r \in MemberRows
  BY <1>3, SimpleRows
<1>4. CASE r \in MonikerRows
  BY <1>4, SimpleRows
<1>5. CASE \E n \in Elections : \E a \in Address : r \in ElectionRows(n, ArrayOf(n + 1), a, ListOf(n)[a])
  <2>1. PICK n \in Elections, a \in Address : r \in ElectionRows(n, ArrayOf(n + 1), a, ListOf(n)[a])
    BY <1>5
  <2>2. PICK e : e = ListOf(n)[a]
    OBVIOUS
  <2>3. PICK array : array = ArrayOf(n + 1)
    OBVIOUS
  <2>4. e \in ElectionType /\ BallotCounted(e)
    BY <2>2, ContractTypes
  <2>5. r \in ElectionRows(n, array, a, e)
    BY <2>1, <2>2, <2>3
  <2>6. \/ r[1] = Key(n, a)
        \/ \E f \in {1, 2} : r[1] = Field(n, a, f)
        \/ \E v \in Account : r[1] = Vote(n, a, v)
        \/ r[1] = Field(n, a, 5) /\ r[2] = hexLength(Len(e.yesArray))
        \/ \E k \in DOMAIN e.yesArray : r[1] = Voter(n, a, 5, k - 1)
    BY <2>4, <2>5, ElectionRowsRight
  <2>7. r[1] = Field(n, a, 5) => e.yesArray # <<>>
    BY <2>4, <2>5, ElectionRowsRight
  <2> QED BY <2>2, <2>6, <2>7
<1> QED BY <1>1, <1>2, <1>3, <1>4, <1>5, RowKinds

\* The file has the value of a row, if no other row is of the same slot with
\* another value.
LEMMA ExportedHasRow ==
    ASSUME NEW s, NEW v, \E r \in Rows : r[1] = s, \A r \in Rows : r[1] = s => r[2] = v
    PROVE  s \in DOMAIN Exported /\ Exported[s] = v
<1> DEFINE row == CHOOSE r \in Rows : r[1] = s
<1>1. s \in {r[1] : r \in Rows}
  OBVIOUS
<1>2. row \in Rows /\ row[1] = s
  OBVIOUS
<1>3. FileOf(Rows)[s] = row[2] /\ s \in DOMAIN FileOf(Rows)
  BY <1>1 DEF FileOf
<1> QED BY <1>2, <1>3, ExportedRows

\* An empty list has length zero, which is read as zero.
LEMMA ReadZero == Atoi(hexLength(0)) = 0
  BY HexRead

\* The counter and the lengths of the arrays, as parse reads them.
LEMMA LengthsRead ==
    ASSUME ContractInv
    PROVE  /\ WhiteListCount(Exported) = Atoi(hexLength(whiteListCount))
           /\ \A n \in Arrays : Number(Exported, Slot(n)) = Atoi(hexLength(Len(ArrayOf(n))))
<1> USE ExportedRows
<1>1. 1 \notin Arrays
  BY DEF Arrays, whiteListArraySlot, nomineeArraySlot, evictionArraySlot
<1>2. ASSUME NEW n, NEW r \in Rows, r[1] = Slot(n)
      PROVE  \/ n = 1 /\ r[2] = hexLength(whiteListCount) /\ whiteListCount # 0
             \/ n \in Arrays /\ r[2] = hexLength(Len(ArrayOf(n))) /\ ArrayOf(n) # <<>>
  BY <1>2, RowSlots, SlotParts
<1>3. WhiteListCount(Exported) = Atoi(hexLength(whiteListCount))
  <2>1. CASE whiteListCount = 0
    <3>1. Slot(1) \notin DOMAIN Exported
      BY <1>1, <1>2, <2>1, FileSlots
    <3> QED BY <2>1, <3>1, ReadZero DEF WhiteListCount, Number, whiteListCountSlot
  <2>2. CASE whiteListCount # 0
    <3>1. \E r \in Rows : r[1] = Slot(1)
      BY <2>2, SimpleRows, RowKinds
    <3>2. \A r \in Rows : r[1] = Slot(1) => r[2] = hexLength(whiteListCount)
      BY <1>1, <1>2
    <3>3. Slot(1) \in DOMAIN Exported /\ Exported[Slot(1)] = hexLength(whiteListCount)
      BY <3>1, <3>2, ExportedHasRow
    <3> QED BY <3>3 DEF WhiteListCount, Number, whiteListCountSlot
  <2> QED BY <2>1, <2>2
<1>4. ASSUME NEW n \in Arrays PROVE Number(Exported, Slot(n)) = Atoi(hexLength(Len(ArrayOf(n))))
  <2>1. CASE ArrayOf(n) = <<>>
    <3>1. Slot(n) \notin DOMAIN Exported
      BY <1>1, <1>2, <2>1, FileSlots
    <3>2. Len(ArrayOf(n)) = 0
      BY <2>1
    <3> QED BY <3>1, <3>2, ReadZero DEF Number
  <2>2. CASE ArrayOf(n) # <<>>
    <3>1. \E r \in ArrayRows(n, ArrayOf(n)) : r[1] = Slot(n)
      BY <2>2, ContractTypes, ArrayRowsRight
    <3>2. \E r \in Rows : r[1] = Slot(n)
      BY <3>1, RowKinds
    <3>3. PICK v : v = hexLength(Len(ArrayOf(n)))
      OBVIOUS
    <3>4. PICK s : s = Slot(n)
      OBVIOUS
    <3>5. \A r \in Rows : r[1] = s => r[2] = v
      BY <1>1, <1>2, <3>3, <3>4
    <3>6. \E r \in Rows : r[1] = s
      BY <3>2, <3>4
    <3>7. s \in DOMAIN Exported /\ Exported[s] = v
      BY <3>5, <3>6, ExportedHasRow
    <3> QED BY <3>3, <3>4, <3>7 DEF Number
  <2> QED BY <2>1, <2>2
<1> QED BY <1>3, <1>4

\* The entries of the arrays: those but address(0) are in the file.
LEMMA EntriesRead ==
    ASSUME ContractInv, NEW n \in Arrays, NEW i \in Int
    PROVE  /\ Elem(n, i - 1) \in DOMAIN Exported <=> i \in DOMAIN ArrayOf(n) /\ ArrayOf(n)[i] # Zero
           /\ Elem(n, i - 1) \in DOMAIN Exported => Exported[Elem(n, i - 1)] = RLP(ArrayOf(n)[i])
<1> USE ExportedRows
<1>1. PICK s : s = Elem(n, i - 1)
  OBVIOUS
<1>2. ArrayOf(n) \in Seq(Address)
  BY ContractTypes
<1>3. ASSUME NEW r \in Rows, r[1] = s
      PROVE  i \in DOMAIN ArrayOf(n) /\ ArrayOf(n)[i] # Zero /\ r[2] = RLP(ArrayOf(n)[i])
  <2>0. PICK m \in Arrays : \E j \in DOMAIN ArrayOf(m) :
            ArrayOf(m)[j] # Zero /\ r[1] = Elem(m, j - 1) /\ r[2] = RLP(ArrayOf(m)[j])
    BY <1>1, <1>3, RowSlots, SlotParts
  <2>1. PICK j \in DOMAIN ArrayOf(m) :
            ArrayOf(m)[j] # Zero /\ r[1] = Elem(m, j - 1) /\ r[2] = RLP(ArrayOf(m)[j])
    BY <2>0
  <2>2. m = n /\ j - 1 = i - 1
    BY <1>1, <1>3, <2>1, SlotParts
  <2>3. j \in Int
    BY <1>2, <2>1, <2>2
  <2>4. j = i
    BY <2>2, <2>3
  <2> QED BY <2>1, <2>2, <2>4
<1>4. ASSUME i \in DOMAIN ArrayOf(n), ArrayOf(n)[i] # Zero PROVE \E r \in Rows : r[1] = s
  <2>1. \E r \in ArrayRows(n, ArrayOf(n)) : r[1] = Elem(n, i - 1)
    BY <1>2, <1>4, ArrayRowsRight
  <2> QED BY <1>1, <2>1, RowKinds
<1>5. s \in DOMAIN Exported <=> i \in DOMAIN ArrayOf(n) /\ ArrayOf(n)[i] # Zero
  BY <1>3, <1>4, FileSlots
<1>6. ASSUME s \in DOMAIN Exported PROVE Exported[s] = RLP(ArrayOf(n)[i])
  <2>1. \E r \in Rows : r[1] = s
    BY <1>6, FileSlots
  <2>2. PICK v : v = RLP(ArrayOf(n)[i])
    OBVIOUS
  <2>3. \A r \in Rows : r[1] = s => r[2] = v
    BY <1>3, <2>2
  <2>4. Exported[s] = v
    BY <2>1, <2>3, ExportedHasRow
  <2> QED BY <2>2, <2>4
<1> QED BY <1>1, <1>5, <1>6

\* The number of voters of an election, as parse reads it.
LEMMA VotersRead ==
    ASSUME ContractInv, NEW n \in Elections, NEW a \in Address
    PROVE  Number(Exported, Field(n, a, 5)) = Atoi(hexLength(Len(ListOf(n)[a].yesArray)))
<1> USE ExportedRows
<1>1. PICK s : s = Field(n, a, 5)
  OBVIOUS
<1>2. PICK e : e = ListOf(n)[a]
  OBVIOUS
<1>3. PICK array : array = ArrayOf(n + 1)
  OBVIOUS
<1>4. e \in ElectionType /\ BallotCounted(e)
  BY <1>2, ContractTypes
<1>5. ASSUME NEW r \in Rows, r[1] = s
      PROVE  r[2] = hexLength(Len(e.yesArray)) /\ e.yesArray # <<>>
  <2>1. PICK m \in Elections, b \in Address :
            \/ \E f \in {1, 2} : r[1] = Field(m, b, f)
            \/ /\ r[1] = Field(m, b, 5) /\ r[2] = hexLength(Len(ListOf(m)[b].yesArray))
               /\ ListOf(m)[b].yesArray # <<>>
    BY <1>1, <1>5, RowSlots, SlotParts
  <2>2. r[1][4] = 5 /\ r[1][2] = n /\ r[1][3] = a
    BY <1>1, <1>5, SlotParts
  <2>3. \A f \in {1, 2} : r[1] # Field(m, b, f)
    BY <2>2, SlotParts
  <2>4. m = n /\ b = a
    BY <2>1, <2>2, <2>3, SlotParts
  <2> QED BY <1>2, <2>1, <2>3, <2>4
<1>6. CASE e.yesArray = <<>>
  <2>1. s \notin DOMAIN Exported
    BY <1>5, <1>6, FileSlots
  <2>2. Len(e.yesArray) = 0
    BY <1>6
  <2> QED BY <1>1, <1>2, <2>1, <2>2, ReadZero DEF Number
<1>7. CASE e.yesArray # <<>>
  <2>1. \E r \in ElectionRows(n, array, a, e) : r[1] = s
    BY <1>1, <1>4, <1>7, ElectionRowsRight
  <2>2. \E r \in Rows : r[1] = s
    BY <1>2, <1>3, <2>1, RowKinds
  <2>3. PICK v : v = hexLength(Len(e.yesArray))
    OBVIOUS
  <2>4. \A r \in Rows : r[1] = s => r[2] = v
    BY <1>5, <2>3
  <2>5. s \in DOMAIN Exported /\ Exported[s] = v
    BY <2>2, <2>4, ExportedHasRow
  <2> QED BY <1>1, <1>2, <2>3, <2>5 DEF Number
<1> QED BY <1>6, <1>7

\* The file has the moniker of whoever has one.
LEMMA MonikersRead ==
    ASSUME ContractInv, NEW a \in Address
    PROVE  Key(monikerListSlot, a) \in DOMAIN Exported <=> monikerList[a] # NoMoniker
<1> USE ExportedRows DEF monikerListSlot
<1>1. ASSUME NEW r \in Rows, r[1] = Key(5, a) PROVE monikerList[a] # NoMoniker
  <2>1. 5 \notin Elections
    BY DEF Elections, nomineeListSlot, evictionListSlot
  <2>2. r[1][1] = "key" /\ r[1][2] = 5 /\ r[1][3] = a
    BY <1>1, SlotParts
  <2>3. \/ \E b \in Members : r[1] = Key(0, b)
        \/ \E b \in Address : monikerList[b] # NoMoniker /\ r[1] = Key(5, b)
        \/ \E n \in Elections : \E b \in Address : r[1] = Key(n, b)
    BY <2>2, RowSlots, SlotParts
  <2>4. \A b \in Members : r[1] # Key(0, b)
    BY <2>2, SlotParts
  <2>5. \A n \in Elections : \A b \in Address : r[1] # Key(n, b)
    BY <2>1, <2>2, SlotParts
  <2>6. PICK b \in Address : monikerList[b] # NoMoniker /\ r[1] = Key(5, b)
    BY <2>3, <2>4, <2>5
  <2>7. a = b
    BY <2>2, <2>6, SlotParts
  <2> QED BY <2>6, <2>7
<1>2. ASSUME monikerList[a] # NoMoniker PROVE \E r \in Rows : r[1] = Key(5, a)
  BY <1>2, SimpleRows, RowKinds
<1> QED BY <1>1, <1>2, FileSlots

-----------------------------------------------------------------------------
(* What parse finds.                                                       *)

\* Every list of the contract has fewer than ten entries.  From ten on a number
\* has a hexadecimal form that parse takes for another number.
FewEntries ==
    /\ \A n \in Arrays : Len(ArrayOf(n)) <= 9
    /\ \A n \in Elections : \A a \in Address : Len(ListOf(n)[a].yesArray) <= 9

\* An address is read as itself, but for one that begins with a zero byte.
LEMMA ReadBack ==
    ASSUME NEW a
    PROVE  parseAddress(RLP(a)) = IF a \in ShortAddress THEN Zero ELSE a
BY ShortAssumption DEF parseAddress, RLP, AddressValue

\* The addresses parse finds in an array are in it, and if the array is short it
\* finds all but address(0).
LEMMA ListedRight ==
    ASSUME ContractInv, NEW n \in Arrays
    PROVE  /\ Listed(Exported, n) \subseteq ReadAs(Range(ArrayOf(n)) \ {Zero})
           /\ Len(ArrayOf(n)) <= 9 => /\ Number(Exported, Slot(n)) = Len(ArrayOf(n))
                                      /\ Listed(Exported, n) = ReadAs(Range(ArrayOf(n)) \ {Zero})
<1> DEFINE array == ArrayOf(n)
           number == Number(Exported, Slot(n))
<1>1. array \in Seq(Address)
  BY ContractTypes
<1> HIDE DEF array
<1>2. Len(array) \in Nat /\ DOMAIN array = 1 .. Len(array)
  BY <1>1
<1>3. number \in 0 .. Len(array) /\ (Len(array) <= 9 => number = Len(array))
  BY <1>2, LengthsRead, HexRead DEF array
<1> HIDE DEF number
<1>4. ASSUME NEW x \in Listed(Exported, n) PROVE x \in ReadAs(Range(array) \ {Zero})
  <2>1. PICK j \in 0 .. number - 1 :
            Elem(n, j) \in DOMAIN Exported /\ x = parseAddress(Exported[Elem(n, j)])
    BY DEF Listed, Entries, number
  <2>2. PICK i : i = j + 1
    OBVIOUS
  <2>3. i \in Int /\ j = i - 1
    BY <1>3, <2>2
  <2>4. i \in DOMAIN array /\ array[i] # Zero /\ x = parseAddress(RLP(array[i]))
    BY <2>1, <2>3, EntriesRead DEF array
  <2>5. array[i] \in Range(array) \ {Zero}
    BY <2>4 DEF Range
  <2> QED BY <2>4, <2>5 DEF ReadAs
<1>5. ASSUME Len(array) <= 9, NEW x \in Range(array) \ {Zero}
      PROVE  parseAddress(RLP(x)) \in Listed(Exported, n)
  <2>1. PICK i \in DOMAIN array : x = array[i]
    BY DEF Range
  <2>2. i \in Int /\ i - 1 \in 0 .. number - 1
    BY <1>2, <1>3, <1>5
  <2>3. Elem(n, i - 1) \in DOMAIN Exported /\ Exported[Elem(n, i - 1)] = RLP(x)
    BY <1>5, <2>1, <2>2, EntriesRead DEF array
  <2>4. Elem(n, i - 1) \in Entries(Exported, n)
    BY <2>2 DEF Entries, number
  <2> QED BY <2>3, <2>4 DEF Listed
<1>6. ASSUME Len(array) <= 9 PROVE ReadAs(Range(array) \ {Zero}) \subseteq Listed(Exported, n)
  BY <1>5, <1>6 DEF ReadAs
<1> QED BY <1>3, <1>4, <1>6 DEF array, number

\* Only a nomination can be of address(0).
LEMMA ZeroOnNoList ==
    ASSUME ContractInv
    PROVE  Members \ {Zero} = Members /\ Evictees \ {Zero} = Evictees
BY AddressAssumption DEF ContractInv, WhiteListInv, WhiteListConsistent, ElectionsLegal,
                         Members, isWhitelisted

\* The file is accepted, and parse lists nobody who is not a member, a nominee or
\* an evictee.
LEMMA NoStrangers ==
    ASSUME ContractInv
    PROVE  /\ ~Refused(Exported)
           /\ Listed(Exported, whiteListArraySlot) \subseteq ReadAs(Members)
           /\ Listed(Exported, nomineeArraySlot) \subseteq ReadAs(Nominees)
           /\ Listed(Exported, evictionArraySlot) \subseteq ReadAs(Evictees)
<1>1. whiteListArraySlot \in Arrays /\ nomineeArraySlot \in Arrays /\ evictionArraySlot \in Arrays
  BY DEF Arrays
<1>2. /\ ArrayOf(whiteListArraySlot) = whiteListArray /\ ArrayOf(nomineeArraySlot) = nomineeArray
      /\ ArrayOf(evictionArraySlot) = evictionArray
  BY DEF ArrayOf, whiteListArraySlot, nomineeArraySlot, evictionArraySlot
<1>3. /\ Range(whiteListArray) = Members /\ Range(nomineeArray) \ {Zero} = Nominees
      /\ Range(evictionArray) = Evictees /\ whiteListCount = Len(whiteListArray)
  BY DEF ContractInv, WhiteListInv, WhiteListConsistent, ArraysListElections
<1>4. ~Refused(Exported)
  BY <1>1, <1>2, <1>3, LengthsRead DEF Refused
<1>5. Listed(Exported, whiteListArraySlot) \subseteq ReadAs(Members)
  BY <1>1, <1>2, <1>3, ZeroOnNoList, ListedRight
<1>6. Listed(Exported, nomineeArraySlot) \subseteq ReadAs(Nominees)
  BY <1>1, <1>2, <1>3, ZeroOnNoList, ListedRight
<1>7. Listed(Exported, evictionArraySlot) \subseteq ReadAs(Evictees)
  BY <1>1, <1>2, <1>3, ZeroOnNoList, ListedRight
<1> QED BY <1>4, <1>5, <1>6, <1>7

\* Short lists are read in full.
LEMMA AllListed ==
    ASSUME ContractInv, FewEntries
    PROVE  /\ Listed(Exported, whiteListArraySlot) = ReadAs(Members)
           /\ Listed(Exported, nomineeArraySlot) = ReadAs(Nominees)
           /\ Listed(Exported, evictionArraySlot) = ReadAs(Evictees)
           /\ Known(Exported) = ReadAs(Members \cup Nominees \cup Evictees)
<1>1. whiteListArraySlot \in Arrays /\ nomineeArraySlot \in Arrays /\ evictionArraySlot \in Arrays
  BY DEF Arrays
<1>2. /\ ArrayOf(whiteListArraySlot) = whiteListArray /\ ArrayOf(nomineeArraySlot) = nomineeArray
      /\ ArrayOf(evictionArraySlot) = evictionArray
  BY DEF ArrayOf, whiteListArraySlot, nomineeArraySlot, evictionArraySlot
<1>3. /\ Range(whiteListArray) = Members /\ Range(nomineeArray) \ {Zero} = Nominees
      /\ Range(evictionArray) = Evictees
  BY DEF ContractInv, WhiteListInv, WhiteListConsistent, ArraysListElections
<1>4. Members \ {Zero} = Members /\ Evictees \ {Zero} = Evictees
  BY ZeroOnNoList
<1>5. \A n \in Arrays : Listed(Exported, n) = ReadAs(Range(ArrayOf(n)) \ {Zero})
  BY ListedRight DEF FewEntries
<1>6. Listed(Exported, whiteListArraySlot) = ReadAs(Members)
  BY <1>1, <1>2, <1>3, <1>4, <1>5
<1>7. Listed(Exported, nomineeArraySlot) = ReadAs(Nominees)
  BY <1>1, <1>2, <1>3, <1>5
<1>8. Listed(Exported, evictionArraySlot) = ReadAs(Evictees)
  BY <1>1, <1>2, <1>3, <1>4, <1>5
<1>9. Known(Exported) = ReadAs(Members \cup Nominees \cup Evictees)
  BY <1>6, <1>7, <1>8 DEF Known, ReadAs
<1> QED BY <1>6, <1>7, <1>8, <1>9

\* What parse can explain.
LEMMA ExplainedRight ==
    ASSUME NEW file, NEW s \in DOMAIN file,
           \/ \E n \in Arrays \cup {whiteListCountSlot} : s = Slot(n)
           \/ \E n \in Arrays : s \in Entries(file, n)
           \/ \E n \in {whiteListSlot, monikerListSlot} : \E a \in Known(file) : s = Key(n, a)
           \/ \E n \in Elections : \E a \in Known(file) : s \in ElectionSlots(file, n, a)
    PROVE  s \in Explained(file)
<1>1. CASE \E n \in Arrays \cup {whiteListCountSlot} : s = Slot(n)
  BY <1>1 DEF Explained, Arrays
<1>2. CASE \E n \in Arrays : s \in Entries(file, n)
  BY <1>2 DEF Explained, Arrays
<1>3. CASE \E n \in {whiteListSlot, monikerListSlot} : \E a \in Known(file) : s = Key(n, a)
  BY <1>3 DEF Explained
<1>4. CASE \E n \in Elections : \E a \in Known(file) : s \in ElectionSlots(file, n, a)
  BY <1>4 DEF Explained
<1> QED BY <1>1, <1>2, <1>3, <1>4

\* The voters of an election are those of an open one.
LEMMA VotersOfOpen ==
    ASSUME ContractInv, NEW n \in Elections, NEW a \in Address, ListOf(n)[a].yesArray # <<>>
    PROVE  a \in Nominees \cup Evictees
<1> DEFINE e == ListOf(n)[a]
<1>1. e = nomineeList[a] \/ e = evictionList[a]
  BY DEF ListOf
<1>2. BallotExact(e) /\ e.yesArray \in Seq(Account)
  <2>1. e \in ElectionType
    BY ContractTypes
  <2>2. e.yesArray \in Seq(Account)
    BY <2>1 DEF ElectionType
  <2> QED BY <1>1, <2>2 DEF ContractInv, BallotInv, NoStaleVotes
<1> HIDE DEF e
<1>3. e.yesArray # <<>>
  BY DEF e
<1>4. Range(e.yesArray) # {}
  <2>1. PICK voters : voters = e.yesArray
    OBVIOUS
  <2>2. voters \in Seq(Account) /\ voters # <<>>
    BY <1>2, <1>3, <2>1
  <2>3. 1 \in DOMAIN voters
    BY <2>2
  <2>4. voters[1] \in Range(voters)
    BY <2>3 DEF Range
  <2> QED BY <2>1, <2>4
<1>5. e.nominee # Zero
  BY <1>2, <1>4 DEF BallotExact
<1> QED BY <1>1, <1>5 DEF Nominees, Evictees, isNominee, isEvictee

\* Everybody on a list is known whose address is understood.
LEMMA KnownIfRead ==
    ASSUME ContractInv, FewEntries, NEW a \in Members \cup Nominees \cup Evictees,
           a \notin ShortAddress
    PROVE  a \in Known(Exported)
<1>1. parseAddress(RLP(a)) = a
  BY ReadBack
<1> QED BY <1>1, AllListed DEF ReadAs

\* A row about an election is explained, or of a closed one, or the vote of
\* somebody who is on no list, or lost.
LEMMA ElectionRowStale ==
    ASSUME ContractInv, FewEntries, NEW n \in Elections, NEW a \in Address,
           NEW s \in DOMAIN Exported, s \notin Explained(Exported),
           \/ s = Key(n, a)
           \/ \E f \in {1, 2, 5} : s = Field(n, a, f)
           \/ \E v \in Account : s = Vote(n, a, v)
           \/ \E k \in DOMAIN ListOf(n)[a].yesArray : s = Voter(n, a, 5, k - 1)
    PROVE  Stale(s) \/ Lost(s)
<1>1. ASSUME a \in Known(Exported) PROVE s \notin ElectionSlots(Exported, n, a)
  BY <1>1, ExplainedRight
<1>2. CASE s = Key(n, a)
  <2>1. s \in ElectionSlots(Exported, n, a)
    BY <1>2 DEF ElectionSlots
  <2>2. s[1] = "key" /\ s[3] = a
    BY <1>2, SlotParts
  <2> QED BY <1>1, <2>1, <2>2, KnownIfRead DEF Stale, Lost
<1>3. CASE \E f \in {1, 2, 5} : s = Field(n, a, f)
  <2>1. s \in ZeroLed \/ s \in ElectionSlots(Exported, n, a)
    BY <1>3 DEF ElectionSlots, Text16
  <2>2. s[1] = "field" /\ s[3] = a
    BY <1>3, SlotParts
  <2> QED BY <1>1, <2>1, <2>2, KnownIfRead DEF Stale, Lost
<1>4. CASE \E v \in Account : s = Vote(n, a, v)
  <2>1. PICK v \in Account : s = Vote(n, a, v)
    BY <1>4
  <2>2. v \in Known(Exported) => s \in ElectionSlots(Exported, n, a)
    BY <2>1 DEF ElectionSlots
  <2>3. s[1] = "vote" /\ s[3] = a /\ s[4] = v
    BY <2>1, SlotParts
  <2> QED BY <1>1, <2>2, <2>3, KnownIfRead DEF Stale, Lost
<1>5. CASE \E k \in DOMAIN ListOf(n)[a].yesArray : s = Voter(n, a, 5, k - 1)
  <2> DEFINE voters == ListOf(n)[a].yesArray
  <2>1. PICK k \in DOMAIN voters : s = Voter(n, a, 5, k - 1)
    BY <1>5
  <2>2. voters \in Seq(Account)
    <3>1. ListOf(n)[a] \in ElectionType
      BY ContractTypes
    <3> QED BY <3>1 DEF ElectionType
  <2>3. Len(voters) <= 9
    BY DEF FewEntries
  <2>4. Number(Exported, Field(n, a, 5)) = Atoi(hexLength(Len(voters)))
    BY VotersRead
  <2>5. voters # <<>> => a \in Nominees \cup Evictees
    BY VotersOfOpen
  <2> HIDE DEF voters
  <2>6. Len(voters) \in Nat /\ DOMAIN voters = 1 .. Len(voters)
    BY <2>2
  <2>7. s[1] = "voter" /\ s[2] = n /\ s[3] = a /\ s[4] = 5
    BY <2>1, SlotParts
  <2>8. SUFFICES ASSUME ~Lost(s) PROVE FALSE
    OBVIOUS
  <2>9. s \notin ZeroLed /\ Field(n, a, 5) \notin ZeroLed /\ a \notin ShortAddress
    BY <2>7, <2>8 DEF Lost
  <2>10. a \in Known(Exported)
    <3>1. voters # <<>>
      BY <2>1
    <3> QED BY <2>5, <2>9, <3>1, KnownIfRead
  <2>11. Number(Exported, Field(n, a, 5)) = Len(voters)
    BY <2>3, <2>4, <2>6, HexRead
  <2>12. k - 1 \in 0 .. Number(Exported, Field(n, a, 5)) - 1
    BY <2>1, <2>6, <2>11
  <2>13. s \in ElectionSlots(Exported, n, a)
    <3> DEFINE fields == Text16({Field(n, a, f) : f \in {1, 2, 3, 5, 6}})
               arrays == {f \in {5, 6} : Field(n, a, f) \in fields}
               found(f) == {Voter(n, a, f, j) : j \in 0 .. Number(Exported, Field(n, a, f)) - 1}
    <3>1. 5 \in arrays
      BY <2>9 DEF Text16
    <3>2. s \in found(5)
      BY <2>1, <2>12
    <3> HIDE DEF fields, arrays, found
    <3>3. s \in UNION {found(f) : f \in arrays}
      BY <3>1, <3>2
    <3>4. s \in Text16(UNION {found(f) : f \in arrays})
      BY <2>9, <3>3 DEF Text16
    <3> QED BY <3>4 DEF ElectionSlots, found, arrays, fields
  <2> QED BY <1>1, <2>10, <2>13
<1> QED BY <1>2, <1>3, <1>4, <1>5

\* What parse cannot explain is stale or lost.
LEMMA RowStale ==
    ASSUME ContractInv, FewEntries, NEW s \in DOMAIN Exported \ Explained(Exported)
    PROVE  Stale(s) \/ Lost(s)
<1>1. PICK r \in Rows : r[1] = s
  BY ExportedRows, FileSlots
<1>2. ~(\E n \in Arrays \cup {whiteListCountSlot} : s = Slot(n))
  BY ExplainedRight
<1>3. ~(\E n \in Arrays : s \in Entries(Exported, n))
  BY ExplainedRight
<1>4. ~(\E n \in {0, 5} : \E a \in Known(Exported) : s = Key(n, a))
  BY ExplainedRight DEF whiteListSlot, monikerListSlot
<1>5. \A n \in Arrays : \A i \in DOMAIN ArrayOf(n) : s # Elem(n, i - 1)
  <2> SUFFICES ASSUME NEW n \in Arrays, NEW i \in DOMAIN ArrayOf(n), s = Elem(n, i - 1) PROVE FALSE
    OBVIOUS
  <2>1. ArrayOf(n) \in Seq(Address) /\ Len(ArrayOf(n)) <= 9
    BY ContractTypes DEF FewEntries
  <2>2. Number(Exported, Slot(n)) = Len(ArrayOf(n))
    BY <2>1, ListedRight
  <2>3. Len(ArrayOf(n)) \in Nat /\ i \in 1 .. Len(ArrayOf(n))
    BY <2>1
  <2>4. i - 1 \in 0 .. Number(Exported, Slot(n)) - 1
    BY <2>2, <2>3
  <2>5. s \in Entries(Exported, n)
    BY <2>4 DEF Entries
  <2> QED BY <1>3, <2>5
<1>6. s # Slot(1) /\ \A n \in Arrays : s # Slot(n)
  BY <1>2 DEF whiteListCountSlot
<1>7. \/ \E a \in Members : s = Key(0, a)
      \/ \E a \in Address : s = Key(5, a)
      \/ \E n \in Elections : \E a \in Address :
            \/ s = Key(n, a)
            \/ \E f \in {1, 2, 5} : s = Field(n, a, f)
            \/ \E v \in Account : s = Vote(n, a, v)
            \/ \E k \in DOMAIN ListOf(n)[a].yesArray : s = Voter(n, a, 5, k - 1)
  BY <1>1, <1>5, <1>6, RowSlots
<1>8. CASE \E n \in {0, 5} : \E a \in Address : s = Key(n, a)
  <2>1. PICK n \in {0, 5}, a \in Address : s = Key(n, a)
    BY <1>8
  <2>2. a \notin Known(Exported)
    BY <1>4, <2>1
  <2>3. s[1] = "key" /\ s[3] = a
    BY <2>1, SlotParts
  <2> QED BY <2>2, <2>3, KnownIfRead DEF Stale, Lost
<1>9. Members \subseteq Address
  BY DEF Members
<1> QED BY <1>7, <1>8, <1>9, ElectionRowStale

-----------------------------------------------------------------------------
(* The theorems.                                                           *)

\* The contract whose storage is exported is the contract: what is proved of its
\* storage holds whenever a file is exported.
THEOREM ContractInvariant == ExportSpec => []ContractInv
<1>1. ExportInit => Init
  BY DEF ExportInit
<1>2. [ExportNext]_exportVars => [Next]_vars
  BY DEF ExportNext, exportVars
<1>3. ExportSpec => Spec
  BY <1>1, <1>2, PTL DEF ExportSpec, Spec
<1> QED BY <1>3, WhiteListInvariant, BallotInvariant, ArraysAlwaysListElections, PTL DEF ContractInv

\* Of any size the contract's lists may be, the file is never refused for a count
\* that differs from the array's length, and parse lists nobody who is not a
\* member, a nominee or an evictee, except as "Unknown Address" when the address
\* of one of them begins with a zero byte: read as decimal, a hexadecimal number
\* is never too large.
ListsNoStrangers ==
    /\ ~Refused(Exported)
    /\ Listed(Exported, whiteListArraySlot) \subseteq ReadAs(Members)
    /\ Listed(Exported, nomineeArraySlot) \subseteq ReadAs(Nominees)
    /\ Listed(Exported, evictionArraySlot) \subseteq ReadAs(Evictees)

\* parse names no stranger, however many members there are.
THEOREM NeverListsStrangers == ExportSpec => []ListsNoStrangers
<1>1. ContractInv => ListsNoStrangers
  BY NoStrangers DEF ListsNoStrangers
<1> QED BY <1>1, ContractInvariant, PTL

\* While each of the contract's lists has fewer than ten entries, parse finds all
\* that is going on but for what leading zeros lose, and whatever it cannot explain
\* is stale or lost so: for any addresses, whichever of them and of the slots of
\* elections begin with zeros, any monikers, and whatever elections were held before.
THEOREM UnexplainedIsAlwaysStaleOrLost ==
    ExportSpec => [](FewEntries => UnexplainedIsStaleOrLost)
<1>1. ASSUME ContractInv, FewEntries PROVE UnexplainedIsStaleOrLost
  BY <1>1, NoStrangers, AllListed, RowStale DEF UnexplainedIsStaleOrLost
<1>2. ContractInv => (FewEntries => UnexplainedIsStaleOrLost)
  BY <1>1
<1> QED BY <1>2, ContractInvariant, PTL

\* While there are fewer than ten members, parse stops at a nil moniker exactly
\* when a member was nominated with the empty moniker, or has an address that is
\* not understood while address(0) has no moniker.
THEOREM NilExactlyIfNoMonikerFound == ExportSpec => [](FewEntries => NilIfNoMonikerFound)
<1>1. ASSUME ContractInv, FewEntries PROVE NilIfNoMonikerFound
  <2> DEFINE read(a) == IF a \in ShortAddress THEN Zero ELSE a
  <2>1. \A a \in Members : read(a) \in Address
    BY AddressAssumption DEF Members
  <2>2. \A a \in Members :
           Key(monikerListSlot, read(a)) \notin DOMAIN Exported <=> monikerList[read(a)] = NoMoniker
    BY <1>1, <2>1, MonikersRead
  <2>3. \A a : parseAddress(RLP(a)) = read(a)
    BY ReadBack
  <2>4. Listed(Exported, whiteListArraySlot) = {read(a) : a \in Members}
    BY <1>1, <2>3, AllListed DEF ReadAs
  <2> HIDE DEF read
  <2>5. NilMoniker(Exported) <=> \E a \in Members : monikerList[read(a)] = NoMoniker
    BY <2>2, <2>4 DEF NilMoniker
  <2> QED BY <2>5 DEF NilIfNoMonikerFound, read
<1>2. ContractInv => (FewEntries => NilIfNoMonikerFound)
  BY <1>1
<1> QED BY <1>2, ContractInvariant, PTL

-----------------------------------------------------------------------------
(* Small contracts have short lists.                                       *)

\* Whatever is removed, an array does not grow.
LEMMA SwapRemoveShorter ==
    ASSUME NEW S, NEW s \in Seq(S), NEW x
    PROVE  Len(SwapRemove(s, x)) <= Len(s)
<1> DEFINE hits == {i \in DOMAIN s : s[i] = x}
           hit == CHOOSE i \in hits : \A j \in hits : i <= j
           t == [i \in 1 .. Len(s) - 1 |-> IF i = hit THEN s[Len(s)] ELSE s[i]]
<1>1. Len(s) \in Nat /\ DOMAIN s = 1 .. Len(s)
  OBVIOUS
<1>2. CASE hits = {}
  BY <1>1, <1>2 DEF SwapRemove
<1>3. CASE hits # {}
  <2>1. SwapRemove(s, x) = t
    BY <1>3 DEF SwapRemove
  <2>2. PICK m : m = Len(s) - 1
    OBVIOUS
  <2>3. Len(s) # 0
    BY <1>1, <1>3
  <2>4. m \in Nat
    BY <1>1, <2>2, <2>3
  <2>5. Len(t) = m
    BY <2>2, <2>4
  <2> HIDE DEF t
  <2> QED BY <1>1, <2>1, <2>2, <2>5
<1> QED BY <1>2, <1>3

\* At most MaxNominees nominations are open.
NominationsBounded == Len(nomineeArray) <= MaxNominees

\* A nomination is only added below the bound.
LEMMA BoundedStep == WhiteListInv /\ NominationsBounded /\ [Next]_vars => NominationsBounded'
<1> SUFFICES ASSUME WhiteListInv, NominationsBounded, [Next]_vars PROVE NominationsBounded'
  OBVIOUS
<1>1. nomineeArray \in Seq(Address) /\ Len(nomineeArray) \in Nat /\ MaxNominees \in Nat
  BY BoundAssumption DEF WhiteListInv, TypeOK, NomineeType
<1>2. CASE UNCHANGED nomineeArray
  BY <1>2 DEF NominationsBounded
<1>3. CASE \E a \in Address : nomineeArray' = Append(nomineeArray, a) /\ Len(nomineeArray) < MaxNominees
  <2>1. PICK a \in Address : nomineeArray' = Append(nomineeArray, a) /\ Len(nomineeArray) < MaxNominees
    BY <1>3
  <2>2. Len(nomineeArray') = Len(nomineeArray) + 1
    BY <1>1, <2>1
  <2> QED BY <1>1, <2>1, <2>2 DEF NominationsBounded
<1>4. CASE \E a : nomineeArray' = SwapRemove(nomineeArray, a)
  <2>1. PICK a : nomineeArray' = SwapRemove(nomineeArray, a)
    BY <1>4
  <2>2. Len(nomineeArray') <= Len(nomineeArray) /\ nomineeArray' \in Seq(Address)
    BY <1>1, <2>1, SwapRemoveShorter, SwapRemoveType
  <2>3. Len(nomineeArray') \in Nat
    BY <2>2
  <2> QED BY <1>1, <2>2, <2>3 DEF NominationsBounded
<1>5. ASSUME NEW sender \in Account, NEW a \in Address, NEW m \in Moniker, submitNominee(sender, a, m)
      PROVE  NominationsBounded'
  BY <1>2, <1>3, <1>5 DEF submitNominee, storage, nomineeVars
<1>6. ASSUME NEW sender \in Account, NEW a \in Address, NEW accepted \in BOOLEAN,
             castNomineeVote(sender, a, accepted)
      PROVE  NominationsBounded'
  <2> DEFINE e == RecordVote(nomineeList[a], sender, accepted)
             cast == NomineeVoteCast(a, sender, e.yesVotes, e.noVotes, accepted)
  <2>1. CASE UNCHANGED storage
    BY <1>2, <2>1 DEF storage, nomineeVars
  <2>2. CASE checkForNomineeVoteDecision(sender, a, e, cast)
    <3> HIDE DEF e, cast
    <3> QED BY <1>2, <1>4, <2>2 DEF checkForNomineeVoteDecision, acceptNominee, removeNominee
  <2> QED BY <1>6, <2>1, <2>2 DEF castNomineeVote, Reverts
<1>7. ASSUME NEW sender \in Account, NEW a \in Address, submitEviction(sender, a)
      PROVE  NominationsBounded'
  BY <1>2, <1>7 DEF submitEviction, Reverts, storage, nomineeVars
<1>8. ASSUME NEW sender \in Account, NEW a \in Address, NEW accepted \in BOOLEAN,
             castEvictionVote(sender, a, accepted)
      PROVE  NominationsBounded'
  BY <1>2, <1>8 DEF castEvictionVote, Reverts, storage, nomineeVars
<1>9. CASE UNCHANGED vars
  BY <1>2, <1>9 DEF vars, nomineeVars
<1>10. ASSUME NEW sender \in Account, init(sender) PROVE NominationsBounded'
  BY <1>2, <1>10 DEF init, Reverts, storage, nomineeVars
<1> QED BY <1>5, <1>6, <1>7, <1>8, <1>9, <1>10 DEF Next

\* A list of different accounts is no longer than there are accounts.
LEMMA ListsAreShort ==
    ASSUME NEW list \in Seq(Account), IsInjective(list)
    PROVE  Len(list) <= Cardinality(Account)
<1>1. IsFiniteSet(Account)
  <2>1. Account \in SUBSET Address
    BY DEF Account
  <2> QED BY <2>1, AddressAssumption, FS_Subset
<1>2. Len(list) \in Nat /\ DOMAIN list = 1 .. Len(list) /\ list \in [1 .. Len(list) -> Account]
  OBVIOUS
<1>3. list \in Injection(1 .. Len(list), Account)
  BY <1>2 DEF Injection, IsInjective
<1>4. Cardinality(1 .. Len(list)) <= Cardinality(Account)
  BY <1>1, <1>3, FS_Injection
<1>5. Cardinality(1 .. Len(list)) = Len(list)
  BY <1>2, FS_Interval
<1> QED BY <1>4, <1>5

\* With at most nine accounts, and room for nine nominations, no list of the
\* contract has more than nine entries.
LEMMA SmallContract ==
    ASSUME Cardinality(Account) <= 9, MaxNominees <= 9, ContractInv, NominationsBounded
    PROVE  FewEntries
<1>1. IsFiniteSet(Account)
  <2>1. Account \in SUBSET Address
    BY DEF Account
  <2> QED BY <2>1, AddressAssumption, FS_Subset
<1>2. Cardinality(Account) \in Nat
  BY <1>1, FS_CardinalityType
<1>3. Len(whiteListArray) <= 9
  <2>1. whiteListArray \in Seq(Account) /\ IsInjective(whiteListArray)
    BY DEF ContractInv, WhiteListInv, TypeOK, WhiteListType, WhiteListConsistent
  <2>2. Len(whiteListArray) \in Nat /\ Len(whiteListArray) <= Cardinality(Account)
    BY <2>1, ListsAreShort
  <2> QED BY <1>2, <2>2
<1>4. Len(evictionArray) <= 9
  <2>1. evictionArray \in Seq(Account) /\ IsInjective(evictionArray)
    BY DEF ContractInv, WhiteListInv, TypeOK, EvictionType, ArraysListElections
  <2>2. Len(evictionArray) \in Nat /\ Len(evictionArray) <= Cardinality(Account)
    BY <2>1, ListsAreShort
  <2> QED BY <1>2, <2>2
<1>5. Len(nomineeArray) <= 9
  <2>1. Len(nomineeArray) \in Nat /\ MaxNominees \in Nat
    BY BoundAssumption DEF ContractInv, WhiteListInv, TypeOK, NomineeType
  <2> QED BY <2>1 DEF NominationsBounded
<1>6. ASSUME NEW e \in ElectionType, BallotCounted(e) PROVE Len(e.yesArray) <= 9
  <2>1. Len(e.yesArray) = Cardinality(e.vote) /\ e.vote \in SUBSET Account
    BY <1>6 DEF BallotCounted, ElectionType
  <2>2. IsFiniteSet(e.vote) /\ Cardinality(e.vote) <= Cardinality(Account)
    BY <1>1, <2>1, FS_Subset
  <2>3. Cardinality(e.vote) \in Nat
    BY <2>2, FS_CardinalityType
  <2> QED BY <1>2, <2>1, <2>2, <2>3
<1>7. \A n \in Elections : \A a \in Address : Len(ListOf(n)[a].yesArray) <= 9
  BY <1>6, ContractTypes
<1>8. \A n \in Arrays : Len(ArrayOf(n)) <= 9
  BY <1>3, <1>4, <1>5 DEF ArrayOf
<1> QED BY <1>7, <1>8 DEF FewEntries

\* In a network of at most nine accounts in which at most nine nominations are
\* open, both hold in every state the contract can reach: the lists cannot grow to
\* ten entries.
THEOREM SmallNetworksParsed ==
    ASSUME Cardinality(Account) <= 9, MaxNominees <= 9
    PROVE  ExportSpec => [](UnexplainedIsStaleOrLost /\ NilIfNoMonikerFound)
<1>1. ExportSpec => []NominationsBounded
  <2>1. ExportInit => NominationsBounded
    BY BoundAssumption DEF ExportInit, Init, NominationsBounded
  <2>2. ContractInv /\ NominationsBounded /\ [ExportNext]_exportVars => NominationsBounded'
    <3>1. [ExportNext]_exportVars => [Next]_vars
      BY DEF ExportNext, exportVars
    <3> QED BY <3>1, BoundedStep DEF ContractInv
  <2> QED BY <2>1, <2>2, ContractInvariant, PTL DEF ExportSpec
<1>2. ContractInv /\ NominationsBounded => FewEntries
  BY SmallContract
<1> QED BY <1>1, <1>2, ContractInvariant, UnexplainedIsAlwaysStaleOrLost, NilExactlyIfNoMonikerFound, PTL
=============================================================================
