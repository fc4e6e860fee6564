----------------------------- MODULE POA_proofs -----------------------------
(* Proofs about the POA contract, for every set of addresses. *)
EXTENDS POA, FiniteSetTheorems, SequenceTheorems, TLAPS

-----------------------------------------------------------------------------
(* Arrays.                                                                 *)

\* What pushing onto a storage array does to its length and its elements.
LEMMA PushLemma ==
    ASSUME NEW S, NEW s \in Seq(S), NEW x \in S
    PROVE  /\ Append(s, x) \in Seq(S)
           /\ Len(Append(s, x)) = Len(s) + 1
           /\ DOMAIN Append(s, x) = 1 .. Len(s) + 1
           /\ \A i \in 1 .. Len(s) : Append(s, x)[i] = s[i]
           /\ Append(s, x)[Len(s) + 1] = x
           /\ Range(Append(s, x)) = Range(s) \cup {x}
<1> DEFINE t == Append(s, x)
<1>1. /\ t \in Seq(S) /\ Len(t) = Len(s) + 1 /\ DOMAIN t = 1 .. Len(s) + 1
      /\ \A i \in 1 .. Len(s) : t[i] = s[i]
      /\ t[Len(s) + 1] = x
  OBVIOUS
<1>2. DOMAIN s = 1 .. Len(s) /\ Len(s) \in Nat
  OBVIOUS
<1> HIDE DEF t
<1>3. Range(t) \subseteq Range(s) \cup {x}
  BY <1>1, <1>2 DEF Range
<1>4. ASSUME NEW y \in Range(s) \cup {x} PROVE y \in Range(t)
  <2>1. CASE y = x
    BY <2>1, <1>1, <1>2 DEF Range
  <2>2. CASE y \in Range(s)
    <3>1. PICK i \in 1 .. Len(s) : y = s[i]
      BY <2>2, <1>2 DEF Range
    <3>2. i \in DOMAIN t /\ t[i] = y
      BY <3>1, <1>1, <1>2
    <3> QED BY <3>2 DEF Range
  <2> QED BY <2>1, <2>2
<1> QED BY <1>1, <1>3, <1>4 DEF t

\* What removing an element that occurs once does to an array: the others stay,
\* at an index of their own.
LEMMA SwapRemoveLemma ==
    ASSUME NEW S, NEW s \in Seq(S), NEW k \in 1 .. Len(s),
           \A j \in 1 .. Len(s) : s[j] = s[k] => j = k
    PROVE  LET t == SwapRemove(s, s[k])
           IN  /\ t \in Seq(S)
               /\ Len(t) = Len(s) - 1
               /\ Range(t) = Range(s) \ {s[k]}
               /\ \A i \in 1 .. Len(s) - 1 :
                     t[i] = s[IF i = k THEN Len(s) ELSE i]
<1> DEFINE t == SwapRemove(s, s[k])
           n == Len(s)
           hits == {i \in DOMAIN s : s[i] = s[k]}
<1>1. DOMAIN s = 1 .. n /\ n \in Nat /\ k \in 1 .. n
  OBVIOUS
<1>2. hits = {k}
  BY <1>1
<1>3. (CHOOSE i \in hits : \A j \in hits : i <= j) = k
  BY <1>2
<1>4. t = [i \in 1 .. n - 1 |-> IF i = k THEN s[n] ELSE s[i]]
  BY <1>2, <1>3 DEF SwapRemove
<1>5. /\ t \in Seq(S) /\ Len(t) = n - 1 /\ DOMAIN t = 1 .. n - 1
      /\ \A i \in 1 .. n - 1 : t[i] = s[IF i = k THEN n ELSE i]
  <2>1. \A i \in 1 .. n - 1 : t[i] \in S
    BY <1>1, <1>4
  <2> HIDE DEF t
  <2>2. t \in [1 .. n - 1 -> S]
    BY <1>4, <2>1
  <2>3. t \in Seq(S) /\ Len(t) = n - 1
    <3> DEFINE m == n - 1
    <3>1. m \in Nat /\ t \in [1 .. m -> S]
      BY <2>2, <1>1
    <3> HIDE DEF m
    <3>2. t \in Seq(S) /\ Len(t) = m
      BY <3>1
    <3> QED BY <3>2 DEF m
  <2> QED BY <2>3, <1>4, <1>1
<1>a. \A j \in 1 .. n : s[j] = s[k] => j = k
  OBVIOUS
<1> HIDE DEF t, hits, n
<1>6. ASSUME NEW y \in Range(t) PROVE y \in Range(s) \ {s[k]}
  <2>1. PICK i \in 1 .. n - 1 : y = t[i]
    BY <1>5 DEF Range
  <2>2. CASE i = k
    <3>1. n \in 1 .. n /\ n # k
      BY <2>2, <1>1
    <3>2. y = s[n]
      BY <2>1, <2>2, <1>5
    <3> QED BY <3>1, <3>2, <1>1, <1>a DEF Range
  <2>3. CASE i # k
    <3>1. i \in 1 .. n /\ y = s[i]
      BY <2>1, <2>3, <1>1, <1>5
    <3> QED BY <3>1, <2>3, <1>1, <1>a DEF Range
  <2> QED BY <2>2, <2>3
<1>7. ASSUME NEW y \in Range(s), y # s[k] PROVE y \in Range(t)
  <2>1. PICK j \in 1 .. n : y = s[j]
    BY <1>1 DEF Range
  <2>2. j # k
    BY <2>1, <1>7
  <2>3. CASE j = n
    <3>1. k \in 1 .. n - 1 /\ t[k] = y
      BY <2>1, <2>2, <2>3, <1>1, <1>5
    <3> QED BY <3>1, <1>5 DEF Range
  <2>4. CASE j # n
    <3>1. j \in 1 .. n - 1
      BY <2>4, <1>1
    <3>2. t[j] = y
      BY <3>1, <2>1, <2>2, <1>5
    <3> QED BY <3>1, <3>2, <1>5 DEF Range
  <2> QED BY <2>3, <2>4
<1> QED BY <1>5, <1>6, <1>7 DEF t, n

\* Whatever is removed, an array keeps its type.
LEMMA SwapRemoveType ==
    ASSUME NEW S, NEW s \in Seq(S), NEW x
    PROVE  SwapRemove(s, x) \in Seq(S)
<1> DEFINE n == Len(s)
           hits == {i \in DOMAIN s : s[i] = x}
           hit == CHOOSE i \in hits : \A j \in hits : i <= j
           t == [i \in 1 .. n - 1 |-> IF i = hit THEN s[n] ELSE s[i]]
<1>1. DOMAIN s = 1 .. n /\ n \in Nat /\ \A i \in 1 .. n : s[i] \in S
  OBVIOUS
<1>2. CASE hits = {}
  BY <1>2 DEF SwapRemove
<1>3. CASE hits # {}
  <2>1. SwapRemove(s, x) = t
    BY <1>3 DEF SwapRemove
  <2>2. n >= 1
    BY <1>1, <1>3
  <2> HIDE DEF hit, hits, n
  <2>3. t \in [1 .. n - 1 -> S]
    BY <1>1, <2>2
  <2>4. n - 1 \in Nat
    BY <1>1, <2>2
  <2> DEFINE m == n - 1
  <2> HIDE DEF t, m
  <2>5. t \in [1 .. m -> S] /\ m \in Nat
    BY <2>3, <2>4 DEF m
  <2> QED BY <2>5, <2>1
<1> QED BY <1>2, <1>3

-----------------------------------------------------------------------------
(* The whitelist.                                                          *)

\* Members is a finite set no larger than the counter can hold.
LEMMA MembersFinite ==
    /\ IsFiniteSet(Members)
    /\ Cardinality(Members) \in 0 .. MaxUint
<1>1. Members \in SUBSET Address
  BY DEF Members
<1>2. IsFiniteSet(Members) /\ Cardinality(Members) <= Cardinality(Address)
  BY <1>1, FS_Subset, AddressAssumption
<1>3. Cardinality(Members) \in Nat /\ Cardinality(Address) \in Nat
  BY <1>2, FS_CardinalityType, AddressAssumption
<1> QED BY <1>2, <1>3, UintAssumption

\* Admission adds the nominee, once, to every representation of the whitelist.
LEMMA AcceptStep ==
    ASSUME WhiteListType, WhiteListConsistent, NEW a \in Account, NEW e,
           ~isWhitelisted(a), acceptNominee(a, e)
    PROVE  WhiteListType' /\ WhiteListConsistent' /\ Members' = Members \cup {a}
<1>1. /\ whiteList' = [whiteList EXCEPT ![a] = a]
      /\ whiteListArray' = Append(whiteListArray, a)
      /\ whiteListCount' = whiteListCount + 1
  BY DEF acceptNominee
<1>2. a \in Address /\ a # Zero
  BY DEF Account
<1>3. Members' = Members \cup {a} /\ a \notin Members
  BY <1>1, <1>2 DEF Members, isWhitelisted, WhiteListType
<1>4. Cardinality(Members') = Cardinality(Members) + 1
  BY <1>3, MembersFinite, FS_AddElement
<1>5. /\ whiteListArray' \in Seq(Account)
      /\ Len(whiteListArray') = Len(whiteListArray) + 1
      /\ Range(whiteListArray') = Range(whiteListArray) \cup {a}
  BY <1>1, PushLemma DEF WhiteListType
<1>6. IsInjective(whiteListArray')
  <2> DEFINE s == whiteListArray
             t == whiteListArray'
             n == Len(s)
  <2>1. /\ n \in Nat /\ DOMAIN s = 1 .. n
        /\ DOMAIN t = 1 .. n + 1
        /\ \A i \in 1 .. n : t[i] = s[i]
        /\ t[n + 1] = a
    BY <1>1, PushLemma DEF WhiteListType
  <2>2. \A i \in 1 .. n : s[i] # a
    BY <1>3, <2>1 DEF WhiteListConsistent, Range
  <2>3. \A i, j \in 1 .. n : s[i] = s[j] => i = j
    BY <2>1 DEF WhiteListConsistent, IsInjective
  <2> HIDE DEF s, t, n
  <2>4. ASSUME NEW i \in 1 .. n + 1, NEW j \in 1 .. n + 1, t[i] = t[j] PROVE i = j
    BY <2>1, <2>2, <2>3, <2>4
  <2>5. IsInjective(t)
    BY <2>1, <2>4 DEF IsInjective
  <2> QED BY <2>5 DEF t
<1>7. whiteListCount' = Cardinality(Members') /\ whiteListCount' = Len(whiteListArray')
  BY <1>1, <1>4, <1>5 DEF WhiteListConsistent
<1>8. whiteListCount' \in 0 .. MaxUint
  <2>1. Members' \in SUBSET Address
    BY DEF Members
  <2>2. Cardinality(Members') <= Cardinality(Address)
    BY <2>1, FS_Subset, AddressAssumption
  <2>3. Cardinality(Address) \in Nat /\ whiteListCount \in Nat
    BY FS_CardinalityType, AddressAssumption DEF WhiteListType
  <2> QED BY <2>2, <2>3, <1>7, <1>1, UintAssumption
<1>9. whiteList' \in [Address -> Address] /\ \A b \in Address : whiteList'[b] \in {b, Zero}
  BY <1>1, <1>2 DEF WhiteListType, WhiteListConsistent
<1> QED BY <1>3, <1>5, <1>6, <1>7, <1>8, <1>9 DEF WhiteListType, WhiteListConsistent

\* Expulsion removes the evictee, and nobody else, from every representation.
LEMMA DeWhiteListStep ==
    ASSUME WhiteListType, WhiteListConsistent, NEW a \in Account,
           isWhitelisted(a), deWhiteList(a)
    PROVE  WhiteListType' /\ WhiteListConsistent' /\ Members' = Members \ {a}
<1>1. /\ whiteList' = [whiteList EXCEPT ![a] = Zero]
      /\ whiteListArray' = SwapRemove(whiteListArray, a)
      /\ whiteListCount' = Decrement(whiteListCount)
  BY DEF deWhiteList
<1>2. a \in Address /\ Zero \in Address
  BY AddressAssumption DEF Account
<1>3. Members' = Members \ {a} /\ a \in Members
  BY <1>1, <1>2 DEF Members, isWhitelisted, WhiteListType
<1>4. /\ Cardinality(Members') = Cardinality(Members) - 1
      /\ Cardinality(Members') \in Nat
  BY <1>3, MembersFinite, FS_RemoveElement, FS_CardinalityType
<1>5. /\ whiteListCount' = whiteListCount - 1
      /\ whiteListCount' = Cardinality(Members')
      /\ whiteListCount' \in 0 .. MaxUint
  <2>1. whiteListCount \in 0 .. MaxUint /\ whiteListCount = Cardinality(Members)
    BY DEF WhiteListType, WhiteListConsistent
  <2> QED BY <2>1, <1>1, <1>4, UintAssumption DEF Decrement
<1> DEFINE s == whiteListArray
           t == whiteListArray'
           n == Len(s)
<1>6. n \in Nat /\ DOMAIN s = 1 .. n /\ s \in Seq(Account)
  BY DEF WhiteListType
<1>7. \A i, j \in 1 .. n : s[i] = s[j] => i = j
  BY <1>6 DEF WhiteListConsistent, IsInjective
<1>8. PICK k \in 1 .. n : s[k] = a
  BY <1>3, <1>6 DEF WhiteListConsistent, Range
<1>9. /\ t \in Seq(Account) /\ Len(t) = n - 1
      /\ Range(t) = Range(s) \ {a}
      /\ \A i \in 1 .. n - 1 : t[i] = s[IF i = k THEN n ELSE i]
  <2>1. \A j \in 1 .. Len(s) : s[j] = s[k] => j = k
    BY <1>7
  <2>2. t = SwapRemove(s, s[k])
    BY <1>1, <1>8
  <2>3. k \in 1 .. Len(s)
    OBVIOUS
  <2> HIDE DEF s, t
  <2>4. LET r == SwapRemove(s, s[k])
        IN  /\ r \in Seq(Account)
            /\ Len(r) = Len(s) - 1
            /\ Range(r) = Range(s) \ {s[k]}
            /\ \A i \in 1 .. Len(s) - 1 : r[i] = s[IF i = k THEN Len(s) ELSE i]
    BY <2>1, <2>3, <1>6, SwapRemoveLemma, Zenon
  <2> QED BY <2>2, <2>4, <1>8, Zenon
<1>10. IsInjective(t)
  <2>1. DOMAIN t = 1 .. n - 1
    BY <1>9
  <2> HIDE DEF s, t, n
  <2>2. ASSUME NEW i \in 1 .. n - 1, NEW j \in 1 .. n - 1, t[i] = t[j] PROVE i = j
    <3>1. n \in 1 .. n /\ i \in 1 .. n /\ j \in 1 .. n /\ i # n /\ j # n
      BY <1>6
    <3>2. CASE i = k
      BY <3>1, <3>2, <2>2, <1>7, <1>9
    <3>3. CASE j = k
      BY <3>1, <3>3, <2>2, <1>7, <1>9
    <3>4. CASE i # k /\ j # k
      BY <3>1, <3>4, <2>2, <1>7, <1>9
    <3> QED BY <3>2, <3>3, <3>4
  <2> QED BY <2>1, <2>2 DEF IsInjective
<1>11. whiteList' \in [Address -> Address] /\ \A b \in Address : whiteList'[b] \in {b, Zero}
  BY <1>1, <1>2 DEF WhiteListType, WhiteListConsistent
<1>12. whiteListCount' = Len(t) /\ Range(t) = Members'
  BY <1>3, <1>5, <1>9 DEF WhiteListConsistent
<1> QED BY <1>3, <1>5, <1>9, <1>10, <1>11, <1>12 DEF WhiteListType, WhiteListConsistent

-----------------------------------------------------------------------------
(* Elections.                                                              *)

\* Opening, voting in and closing an election keep the type of its record.
LEMMA ElectionTypes ==
    ASSUME NEW e \in ElectionType, NEW a \in Address
    PROVE  /\ Election(a, e.vote) \in ElectionType
           /\ Election(a, VotesCleared(e)) \in ElectionType
           /\ \A v \in Account, accepted \in BOOLEAN :
                 /\ RecordVote(e, v, accepted) \in ElectionType
                 /\ RecordVote(e, v, accepted).nominee = e.nominee
<1>1. Election(a, e.vote) \in ElectionType
  BY DEF Election, ElectionType
<1>2. Election(a, VotesCleared(e)) \in ElectionType
  BY DEF Election, ElectionType, VotesCleared
<1>3. ASSUME NEW v \in Account, NEW accepted \in BOOLEAN
      PROVE  /\ RecordVote(e, v, accepted) \in ElectionType
             /\ RecordVote(e, v, accepted).nominee = e.nominee
  <2>1. /\ e.vote \cup {v} \in SUBSET Account
        /\ e.yesVotes + 1 \in Nat /\ e.noVotes + 1 \in Nat
        /\ Append(e.yesArray, v) \in Seq(Account)
        /\ Append(e.noArray, v) \in Seq(Account)
    BY DEF ElectionType
  <2>2. CASE accepted
    BY <2>1, <2>2 DEF RecordVote, ElectionType
  <2>3. CASE ~accepted
    BY <2>1, <2>3 DEF RecordVote, ElectionType
  <2> QED BY <2>2, <2>3
<1> QED BY <1>1, <1>2, <1>3

\* Closing a nomination keeps the types, and takes that nominee only off the
\* mapping.
LEMMA RemoveNomineeStep ==
    ASSUME NomineeType, NEW a \in Address, NEW e \in ElectionType, removeNominee(a, e)
    PROVE  /\ NomineeType'
           /\ nomineeList'[a].nominee = Zero
           /\ \A b \in Address \ {a} : nomineeList'[b] = nomineeList[b]
<1>1. Election(Zero, VotesCleared(e)) \in ElectionType
  BY ElectionTypes, AddressAssumption
<1>2. Election(Zero, VotesCleared(e)).nominee = Zero
  BY DEF Election
<1>3. nomineeArray' \in Seq(Address)
  BY SwapRemoveType DEF NomineeType, removeNominee
<1> QED BY <1>1, <1>2, <1>3 DEF NomineeType, removeNominee

\* The same of an eviction.
LEMMA RemoveEvictionStep ==
    ASSUME EvictionType, NEW a \in Address, NEW e \in ElectionType, removeEviction(a, e)
    PROVE  /\ EvictionType'
           /\ evictionList'[a].nominee = Zero
           /\ \A b \in Address \ {a} : evictionList'[b] = evictionList[b]
<1>1. Election(Zero, VotesCleared(e)) \in ElectionType
  BY ElectionTypes, AddressAssumption
<1>2. Election(Zero, VotesCleared(e)).nominee = Zero
  BY DEF Election
<1>3. evictionArray' \in Seq(Account)
  BY SwapRemoveType DEF EvictionType, removeEviction
<1> QED BY <1>1, <1>2, <1>3 DEF EvictionType, removeEviction

-----------------------------------------------------------------------------
(* The whitelist stays consistent.  Neither part is inductive alone: a       *)
(* nominee on the whitelist would be counted without being added, and an     *)
(* evictee off it would be closed without being removed.                     *)

WhiteListInv == TypeOK /\ WhiteListConsistent /\ ElectionsLegal

\* A transaction that is reverted or refused keeps the whitelist invariant.
LEMMA StorageUnchanged ==
    ASSUME WhiteListInv, UNCHANGED storage
    PROVE  WhiteListInv'
<1> USE DEF storage, whiteListVars, nomineeVars, evictionVars
<1>1. TypeOK'
  BY DEF WhiteListInv, TypeOK, WhiteListType, NomineeType, EvictionType, MonikerType
<1>2. Members' = Members /\ Nominees' = Nominees /\ Evictees' = Evictees
  BY DEF Members, Nominees, Evictees, isWhitelisted, isNominee, isEvictee
<1>3. WhiteListConsistent'
  BY <1>2 DEF WhiteListInv, WhiteListConsistent
<1>4. ElectionsLegal'
  BY <1>2 DEF WhiteListInv, ElectionsLegal
<1> QED BY <1>1, <1>3, <1>4 DEF WhiteListInv

\* A transaction that leaves the whitelist's slots alone keeps it consistent.
LEMMA WhiteListUnchanged ==
    ASSUME WhiteListType, WhiteListConsistent, UNCHANGED whiteListVars
    PROVE  WhiteListType' /\ WhiteListConsistent' /\ Members' = Members
<1> USE DEF whiteListVars
<1>1. Members' = Members
  BY DEF Members, isWhitelisted
<1> QED BY <1>1 DEF WhiteListType, WhiteListConsistent

\* submitNominee preserves the invariant.
LEMMA SubmitNomineeStep ==
    ASSUME WhiteListInv, NEW sender \in Account, NEW a \in Address, NEW m \in Moniker,
           submitNominee(sender, a, m)
    PROVE  WhiteListInv'
<1>1. CASE UNCHANGED storage
  BY <1>1, StorageUnchanged
<1>2. CASE /\ ~isWhitelisted(a)
           /\ nomineeList'  = [nomineeList EXCEPT ![a] = Election(a, @.vote)]
           /\ nomineeArray' = Append(nomineeArray, a)
           /\ monikerList'  = [monikerList EXCEPT ![a] = m]
           /\ UNCHANGED <<whiteListVars, evictionVars>>
  <2>1. WhiteListType' /\ WhiteListConsistent' /\ Members' = Members
    BY <1>2, WhiteListUnchanged DEF WhiteListInv, TypeOK
  <2>2. NomineeType'
    <3>1. Election(a, nomineeList[a].vote) \in ElectionType
      BY ElectionTypes DEF WhiteListInv, TypeOK, NomineeType
    <3>2. nomineeArray' \in Seq(Address)
      BY <1>2 DEF WhiteListInv, TypeOK, NomineeType
    <3> QED BY <1>2, <3>1, <3>2 DEF WhiteListInv, TypeOK, NomineeType
  <2>3. EvictionType' /\ MonikerType'
    BY <1>2 DEF WhiteListInv, TypeOK, EvictionType, MonikerType, evictionVars
  <2>4. \A b \in Address : nomineeList'[b].nominee =
                             IF b = a THEN a ELSE nomineeList[b].nominee
    BY <1>2 DEF WhiteListInv, TypeOK, NomineeType, Election
  <2>5. Evictees' = Evictees /\ UNCHANGED evictionList
    BY <1>2 DEF Evictees, isEvictee, evictionVars
  <2>6. Nominees' \subseteq Nominees \cup {a}
    BY <2>4 DEF Nominees, isNominee
  <2>7. a \notin Members
    BY <1>2 DEF Members
  <2>8. ElectionsLegal'
    BY <2>1, <2>4, <2>5, <2>6, <2>7 DEF WhiteListInv, ElectionsLegal
  <2> QED BY <2>1, <2>2, <2>3, <2>8 DEF WhiteListInv, TypeOK
<1> QED BY <1>1, <1>2 DEF submitNominee, mayBeNominated

\* submitEviction preserves the invariant.
LEMMA SubmitEvictionStep ==
    ASSUME WhiteListInv, NEW sender \in Account, NEW a \in Address,
           submitEviction(sender, a)
    PROVE  WhiteListInv'
<1>1. CASE UNCHANGED storage
  BY <1>1, StorageUnchanged
<1>2. CASE /\ isWhitelisted(a)
           /\ evictionList'  = [evictionList EXCEPT ![a] = Election(a, @.vote)]
           /\ evictionArray' = Append(evictionArray, a)
           /\ UNCHANGED <<whiteListVars, nomineeVars, monikerList>>
  <2>1. WhiteListType' /\ WhiteListConsistent' /\ Members' = Members
    BY <1>2, WhiteListUnchanged DEF WhiteListInv, TypeOK
  <2>2. a \in Members
    BY <1>2 DEF Members
  <2>3. a \in Account
    BY <2>2, AddressAssumption DEF WhiteListInv, WhiteListConsistent, Members,
       isWhitelisted, Account
  <2>4. EvictionType'
    <3>1. Election(a, evictionList[a].vote) \in ElectionType
      BY ElectionTypes DEF WhiteListInv, TypeOK, EvictionType
    <3>2. evictionArray' \in Seq(Account)
      BY <1>2, <2>3 DEF WhiteListInv, TypeOK, EvictionType
    <3> QED BY <1>2, <3>1, <3>2 DEF WhiteListInv, TypeOK, EvictionType
  <2>5. NomineeType' /\ MonikerType'
    BY <1>2 DEF WhiteListInv, TypeOK, NomineeType, MonikerType, nomineeVars
  <2>6. \A b \in Address : evictionList'[b].nominee =
                             IF b = a THEN a ELSE evictionList[b].nominee
    BY <1>2 DEF WhiteListInv, TypeOK, EvictionType, Election
  <2>7. Nominees' = Nominees /\ UNCHANGED nomineeList
    BY <1>2 DEF Nominees, isNominee, nomineeVars
  <2>8. Evictees' \subseteq Evictees \cup {a}
    BY <2>6 DEF Evictees, isEvictee
  <2>9. ElectionsLegal'
    BY <2>1, <2>2, <2>6, <2>7, <2>8 DEF WhiteListInv, ElectionsLegal
  <2> QED BY <2>1, <2>4, <2>5, <2>9 DEF WhiteListInv, TypeOK
<1> QED BY <1>1, <1>2 DEF submitEviction, Reverts

\* An open election's address is an account: address(0) is never elected.
LEMMA ElectedIsAccount ==
    ASSUME ElectionsLegal, NEW a \in Address
    PROVE  /\ isNominee(a) => a \in Account /\ nomineeList[a].nominee = a
           /\ isEvictee(a) => a \in Account /\ evictionList[a].nominee = a
BY DEF ElectionsLegal, isNominee, isEvictee, Account

\* castNomineeVote preserves the invariant.
LEMMA CastNomineeVoteStep ==
    ASSUME WhiteListInv, NEW sender \in Account, NEW a \in Address,
           NEW accepted \in BOOLEAN, castNomineeVote(sender, a, accepted)
    PROVE  WhiteListInv'
<1>1. CASE UNCHANGED storage
  BY <1>1, StorageUnchanged
<1> DEFINE e == RecordVote(nomineeList[a], sender, accepted)
           cast == NomineeVoteCast(a, sender, e.yesVotes, e.noVotes, accepted)
<1>2. CASE /\ isNominee(a)
           /\ checkForNomineeVoteDecision(sender, a, e, cast)
           /\ UNCHANGED <<monikerList, evictionVars>>
  <2>1. e \in ElectionType /\ e.nominee = nomineeList[a].nominee
    BY ElectionTypes DEF WhiteListInv, TypeOK, NomineeType
  <2>2. a \in Account /\ e.nominee = a /\ ~isWhitelisted(a)
    BY <1>2, <2>1, ElectedIsAccount
    DEF WhiteListInv, ElectionsLegal, Nominees, Members
  <2> HIDE DEF e, cast
  <2>3. Evictees' = Evictees /\ UNCHANGED evictionList /\ EvictionType' /\ MonikerType'
    BY <1>2 DEF WhiteListInv, TypeOK, EvictionType, MonikerType, evictionVars,
       Evictees, isEvictee
  <2>4. CASE removeNominee(a, e) /\ UNCHANGED whiteListVars
    <3>1. WhiteListType' /\ WhiteListConsistent' /\ Members' = Members
      BY <2>4, WhiteListUnchanged DEF WhiteListInv, TypeOK
    <3>2. /\ NomineeType' /\ nomineeList'[a].nominee = Zero
          /\ \A b \in Address \ {a} : nomineeList'[b] = nomineeList[b]
      BY <2>1, <2>4, RemoveNomineeStep DEF WhiteListInv, TypeOK
    <3>3. Nominees' \subseteq Nominees
      BY <3>2 DEF Nominees, isNominee
    <3>4. ElectionsLegal'
      BY <3>1, <3>2, <3>3, <2>3 DEF WhiteListInv, ElectionsLegal
    <3> QED BY <3>1, <3>2, <3>4, <2>3 DEF WhiteListInv, TypeOK
  <2>5. CASE acceptNominee(a, e)
    <3>1. WhiteListType' /\ WhiteListConsistent' /\ Members' = Members \cup {a}
      BY <2>2, <2>5, AcceptStep DEF WhiteListInv, TypeOK
    <3>2. /\ NomineeType' /\ nomineeList'[a].nominee = Zero
          /\ \A b \in Address \ {a} : nomineeList'[b] = nomineeList[b]
      BY <2>1, <2>5, RemoveNomineeStep DEF WhiteListInv, TypeOK, acceptNominee
    <3>3. Nominees' \subseteq Nominees \ {a}
      BY <3>2 DEF Nominees, isNominee
    <3>4. ElectionsLegal'
      BY <3>1, <3>2, <3>3, <2>3 DEF WhiteListInv, ElectionsLegal
    <3> QED BY <3>1, <3>2, <3>4, <2>3 DEF WhiteListInv, TypeOK
  <2>6. CASE /\ nomineeList' = [nomineeList EXCEPT ![a] = e]
             /\ UNCHANGED <<whiteListVars, nomineeArray>>
    <3>1. WhiteListType' /\ WhiteListConsistent' /\ Members' = Members
      BY <2>6, WhiteListUnchanged DEF WhiteListInv, TypeOK
    <3>2. /\ NomineeType'
          /\ \A b \in Address : nomineeList'[b].nominee = nomineeList[b].nominee
      BY <2>1, <2>6 DEF WhiteListInv, TypeOK, NomineeType
    <3>3. Nominees' = Nominees
      BY <3>2 DEF Nominees, isNominee
    <3>4. ElectionsLegal'
      BY <3>1, <3>2, <3>3, <2>3 DEF WhiteListInv, ElectionsLegal
    <3> QED BY <3>1, <3>2, <3>4, <2>3 DEF WhiteListInv, TypeOK
  <2> QED BY <1>2, <2>4, <2>5, <2>6 DEF checkForNomineeVoteDecision
<1> QED BY <1>1, <1>2 DEF castNomineeVote, Reverts, hasVoted

\* castEvictionVote preserves the invariant.
LEMMA CastEvictionVoteStep ==
    ASSUME WhiteListInv, NEW sender \in Account, NEW a \in Address,
           NEW accepted \in BOOLEAN, castEvictionVote(sender, a, accepted)
    PROVE  WhiteListInv'
<1>1. CASE UNCHANGED storage
  BY <1>1, StorageUnchanged
<1> DEFINE e == RecordVote(evictionList[a], sender, accepted)
           cast == EvictionVoteCast(a, sender, e.yesVotes, nomineeList[a].noVotes, accepted)
<1>2. CASE /\ isEvictee(a)
           /\ checkForEvictionVoteDecision(sender, a, e, cast)
           /\ UNCHANGED <<monikerList, nomineeVars>>
  <2>1. e \in ElectionType /\ e.nominee = evictionList[a].nominee
    BY ElectionTypes DEF WhiteListInv, TypeOK, EvictionType
  <2>2. a \in Account /\ e.nominee = a /\ isWhitelisted(a)
    BY <1>2, <2>1, ElectedIsAccount
    DEF WhiteListInv, ElectionsLegal, Evictees, Members
  <2> HIDE DEF e, cast
  <2>3. Nominees' = Nominees /\ UNCHANGED nomineeList /\ NomineeType' /\ MonikerType'
    BY <1>2 DEF WhiteListInv, TypeOK, NomineeType, MonikerType, nomineeVars,
       Nominees, isNominee
  <2>4. CASE removeEviction(a, e) /\ UNCHANGED whiteListVars
    <3>1. WhiteListType' /\ WhiteListConsistent' /\ Members' = Members
      BY <2>4, WhiteListUnchanged DEF WhiteListInv, TypeOK
    <3>2. /\ EvictionType' /\ evictionList'[a].nominee = Zero
          /\ \A b \in Address \ {a} : evictionList'[b] = evictionList[b]
      BY <2>1, <2>4, RemoveEvictionStep DEF WhiteListInv, TypeOK
    <3>3. Evictees' \subseteq Evictees
      BY <3>2 DEF Evictees, isEvictee
    <3>4. ElectionsLegal'
      BY <3>1, <3>2, <3>3, <2>3 DEF WhiteListInv, ElectionsLegal
    <3> QED BY <3>1, <3>2, <3>4, <2>3 DEF WhiteListInv, TypeOK
  <2>5. CASE acceptEviction(a, e)
    <3>1. WhiteListType' /\ WhiteListConsistent' /\ Members' = Members \ {a}
      BY <2>2, <2>5, DeWhiteListStep DEF WhiteListInv, TypeOK, acceptEviction
    <3>2. /\ EvictionType' /\ evictionList'[a].nominee = Zero
          /\ \A b \in Address \ {a} : evictionList'[b] = evictionList[b]
      BY <2>1, <2>5, RemoveEvictionStep DEF WhiteListInv, TypeOK, acceptEviction
    <3>3. Evictees' \subseteq Evictees \ {a}
      BY <3>2 DEF Evictees, isEvictee
    <3>4. ElectionsLegal'
      BY <3>1, <3>2, <3>3, <2>3 DEF WhiteListInv, ElectionsLegal
    <3> QED BY <3>1, <3>2, <3>4, <2>3 DEF WhiteListInv, TypeOK
  <2>6. CASE /\ evictionList' = [evictionList EXCEPT ![a] = e]
             /\ UNCHANGED <<whiteListVars, evictionArray>>
    <3>1. WhiteListType' /\ WhiteListConsistent' /\ Members' = Members
      BY <2>6, WhiteListUnchanged DEF WhiteListInv, TypeOK
    <3>2. /\ EvictionType'
          /\ \A b \in Address : evictionList'[b].nominee = evictionList[b].nominee
      BY <2>1, <2>6 DEF WhiteListInv, TypeOK, EvictionType
    <3>3. Evictees' = Evictees
      BY <3>2 DEF Evictees, isEvictee
    <3>4. ElectionsLegal'
      BY <3>1, <3>2, <3>3, <2>3 DEF WhiteListInv, ElectionsLegal
    <3> QED BY <3>1, <3>2, <3>4, <2>3 DEF WhiteListInv, TypeOK
  <2> QED BY <1>2, <2>4, <2>5, <2>6 DEF checkForEvictionVoteDecision
<1> QED BY <1>1, <1>2 DEF castEvictionVote, Reverts, hasVoted

\* Genesis storage satisfies the invariant.
LEMMA InitStep == Init => WhiteListInv
<1> SUFFICES ASSUME Init PROVE WhiteListInv
  OBVIOUS
<1>1. Members = Genesis
  BY GenesisAssumption DEF Init, Members, isWhitelisted
<1>2. IsFiniteSet(Genesis) /\ Cardinality(Genesis) \in 0 .. MaxUint
  BY <1>1, MembersFinite
<1>3. Election(Zero, {}) \in ElectionType /\ Election(Zero, {}).nominee = Zero
  BY AddressAssumption DEF Election, ElectionType
<1>4. Nominees = {} /\ Evictees = {}
  BY <1>3 DEF Init, Nominees, Evictees, isNominee, isEvictee
<1>5. NomineeType /\ EvictionType /\ MonikerType
  <2>1. NomineeType /\ EvictionType
    BY <1>3 DEF Init, NomineeType, EvictionType
  <2>2. PICK m \in [Genesis -> Moniker] :
          monikerList = [b \in Address |-> IF b \in Genesis THEN m[b] ELSE NoMoniker]
    BY DEF Init
  <2> QED BY <2>1, <2>2 DEF MonikerType
<1> DEFINE n == Cardinality(Genesis)
           s == whiteListArray
<1>6. n \in Nat /\ s \in [1 .. n -> Genesis] /\ Range(s) = Genesis
  BY <1>2 DEF Init, GenesisOrders
<1>7. s \in Seq(Account) /\ Len(s) = n /\ DOMAIN s = 1 .. n
  <2> HIDE DEF n, s
  <2>1. s \in [1 .. n -> Account]
    BY <1>6, GenesisAssumption DEF Account
  <2> QED BY <2>1, <1>6
<1>8. IsInjective(s)
  <2>1. IsFiniteSet(1 .. n) /\ Cardinality(1 .. n) = n
    BY <1>6, FS_Interval
  <2>2. s \in Surjection(1 .. n, Genesis)
    BY <1>6 DEF Surjection, Range
  <2>3. s \in Injection(1 .. n, Genesis)
    BY <2>1, <2>2, FS_SurjSameCardinalityImpliesInj
  <2> QED BY <2>3 DEF Injection, IsInjective
<1>9. TypeOK /\ WhiteListConsistent
  BY <1>1, <1>2, <1>5, <1>6, <1>7, <1>8, AddressAssumption, GenesisAssumption
  DEF Init, TypeOK, WhiteListType, WhiteListConsistent
<1>10. ElectionsLegal
  BY <1>3, <1>4 DEF Init, ElectionsLegal
<1> QED BY <1>9, <1>10 DEF WhiteListInv

\* Every transaction preserves the invariant.
LEMMA NextStep == WhiteListInv /\ [Next]_vars => WhiteListInv'
<1> SUFFICES ASSUME WhiteListInv, [Next]_vars PROVE WhiteListInv'
  OBVIOUS
<1>1. CASE UNCHANGED vars
  <2>1. UNCHANGED storage
    BY <1>1 DEF vars, storage
  <2> QED BY <2>1, StorageUnchanged
<1>2. ASSUME NEW sender \in Account, init(sender) PROVE WhiteListInv'
  BY <1>2, StorageUnchanged DEF init, Reverts
<1>3. ASSUME NEW sender \in Account, NEW a \in Address, NEW m \in Moniker,
             submitNominee(sender, a, m)
      PROVE  WhiteListInv'
  BY <1>3, SubmitNomineeStep
<1>4. ASSUME NEW sender \in Account, NEW a \in Address, submitEviction(sender, a)
      PROVE  WhiteListInv'
  BY <1>4, SubmitEvictionStep
<1>5. ASSUME NEW sender \in Account, NEW a \in Address, NEW accepted \in BOOLEAN,
             castNomineeVote(sender, a, accepted)
      PROVE  WhiteListInv'
  BY <1>5, CastNomineeVoteStep
<1>6. ASSUME NEW sender \in Account, NEW a \in Address, NEW accepted \in BOOLEAN,
             castEvictionVote(sender, a, accepted)
      PROVE  WhiteListInv'
  BY <1>6, CastEvictionVoteStep
<1> QED BY <1>1, <1>2, <1>3, <1>4, <1>5, <1>6 DEF Next

\* The invariant holds of every reachable storage.
THEOREM WhiteListInvariant == Spec => []WhiteListInv
<1>1. Init => WhiteListInv
  BY InitStep
<1>2. WhiteListInv /\ [Next]_vars => WhiteListInv'
  BY NextStep
<1> QED BY <1>1, <1>2, PTL DEF Spec

\* The contract's storage keeps its types; in particular whiteListCount never
\* wraps around.
THEOREM TypeCorrect == Spec => []TypeOK
<1>1. WhiteListInv => TypeOK
  BY DEF WhiteListInv
<1> QED BY <1>1, WhiteListInvariant, PTL

\* The counter elections are decided by, the array clients enumerate and the
\* mapping that authorises senders agree forever.
THEOREM WhiteListAlwaysConsistent == Spec => []WhiteListConsistent
<1>1. WhiteListInv => WhiteListConsistent
  BY DEF WhiteListInv
<1> QED BY <1>1, WhiteListInvariant, PTL

\* Nominees are never members and evictees always are.
THEOREM ElectionsAlwaysLegal == Spec => []ElectionsLegal
<1>1. WhiteListInv => ElectionsLegal
  BY DEF WhiteListInv
<1> QED BY <1>1, WhiteListInvariant, PTL

-----------------------------------------------------------------------------
(* Ballots.                                                                *)

BallotOK(e) == BallotExact(e) /\ BallotCounted(e)
BallotInv == NoStaleVotes /\ VotesCounted

\* A freshly opened or deleted record whose mapping is empty is a legal ballot.
LEMMA EmptyBallot ==
    ASSUME NEW a
    PROVE  BallotOK(Election(a, {}))
<1>1. Cardinality({}) = 0
  BY FS_EmptySet
<1>2. Range(<<>>) = {} /\ Len(<<>>) = 0
  BY DEF Range
<1> QED BY <1>1, <1>2 DEF BallotOK, BallotExact, BallotCounted, Election

\* A yes vote of a new voter keeps the ballot exact; whatever the vote, closing
\* the election afterwards clears the mapping.
LEMMA VoteBallot ==
    ASSUME NEW e \in ElectionType, BallotOK(e), e.nominee # Zero,
           NEW v \in Account, v \notin e.vote, NEW accepted \in BOOLEAN
    PROVE  LET f == RecordVote(e, v, accepted)
           IN  /\ f.noVotes = 0 => BallotOK(f)
               /\ VotesCleared(f) = {}
<1> DEFINE f == RecordVote(e, v, accepted)
<1>1. /\ e.vote \in SUBSET Account /\ e.yesVotes \in Nat /\ e.noVotes = 0
      /\ e.yesArray \in Seq(Account) /\ e.noArray = <<>>
      /\ e.vote = Range(e.yesArray) \cup Range(e.noArray)
      /\ e.yesVotes = Len(e.yesArray) /\ e.yesVotes = Cardinality(e.vote)
  BY DEF ElectionType, BallotOK, BallotExact, BallotCounted
<1>2. Range(<<>>) = {}
  BY DEF Range
<1>a. \A s \in Seq(Account) : /\ Range(Append(s, v)) = Range(s) \cup {v}
                              /\ Len(Append(s, v)) = Len(s) + 1
  BY PushLemma
<1>3. CASE accepted
  <2>1. /\ f.vote = e.vote \cup {v} /\ f.yesVotes = e.yesVotes + 1
        /\ f.yesArray = Append(e.yesArray, v)
        /\ f.noVotes = 0 /\ f.noArray = <<>> /\ f.nominee = e.nominee
    BY <1>1, <1>3 DEF RecordVote, ElectionType
  <2>2. /\ Range(f.yesArray) = Range(e.yesArray) \cup {v}
        /\ Len(f.yesArray) = Len(e.yesArray) + 1
    <3> HIDE DEF f
    <3> QED BY <1>1, <1>a, <2>1
  <2>3. IsFiniteSet(e.vote)
    <3>1. IsFiniteSet(Account) 
      BY AddressAssumption, FS_RemoveElement DEF Account
    <3> QED BY <3>1, <1>1, FS_Subset
  <2>4. Cardinality(f.vote) = Cardinality(e.vote) + 1
    BY <2>1, <2>3, FS_AddElement
  <2> HIDE DEF f
  <2>5. BallotOK(f)
    BY <1>1, <1>2, <2>1, <2>2, <2>4 DEF BallotOK, BallotExact, BallotCounted
  <2>6. VotesCleared(f) = {}
    BY <1>1, <1>2, <2>1, <2>2 DEF VotesCleared
  <2> QED BY <2>5, <2>6 DEF f
<1>4. CASE ~accepted
  <2>1. /\ f.vote = e.vote \cup {v} /\ f.noVotes = 1
        /\ f.yesArray = e.yesArray /\ f.noArray = Append(<<>>, v)
    BY <1>1, <1>4 DEF RecordVote, ElectionType
  <2>2. <<>> \in Seq(Account)
    OBVIOUS
  <2>3. Range(Append(<<>>, v)) = {v}
    BY <1>2, <1>a, <2>2
  <2> HIDE DEF f
  <2>4. VotesCleared(f) = {} /\ f.noVotes # 0
    BY <1>1, <1>2, <2>1, <2>3 DEF VotesCleared
  <2> QED BY <2>4 DEF f
<1> QED BY <1>3, <1>4

\* The ballot invariant, election by election.
LEMMA BallotInvParts ==
    BallotInv <=> \A b \in Address : BallotOK(nomineeList[b]) /\ BallotOK(evictionList[b])
BY DEF BallotInv, BallotOK, NoStaleVotes, VotesCounted

\* A list of elections in which one record is replaced by a legal ballot.
LEMMA ReplaceBallot ==
    ASSUME NEW L \in [Address -> ElectionType], NEW a \in Address, NEW f, BallotOK(f),
           \A b \in Address : BallotOK(L[b])
    PROVE  \A b \in Address : BallotOK([L EXCEPT ![a] = f][b])
<1> SUFFICES ASSUME NEW b \in Address PROVE BallotOK([L EXCEPT ![a] = f][b])
  OBVIOUS
<1>1. [L EXCEPT ![a] = f][b] = IF b = a THEN f ELSE L[b]
  OBVIOUS
<1> QED BY <1>1

\* Every transaction preserves the ballots.
LEMMA BallotStep == WhiteListInv /\ BallotInv /\ [Next]_vars => BallotInv'
<1> SUFFICES ASSUME WhiteListInv, BallotInv, [Next]_vars PROVE BallotInv'
  OBVIOUS
<1>1. /\ nomineeList \in [Address -> ElectionType]
      /\ evictionList \in [Address -> ElectionType]
      /\ \A b \in Address : BallotOK(nomineeList[b])
      /\ \A b \in Address : BallotOK(evictionList[b])
  BY BallotInvParts DEF WhiteListInv, TypeOK, NomineeType, EvictionType
<1>2. BallotInv' <=> \A b \in Address : BallotOK(nomineeList'[b]) /\ BallotOK(evictionList'[b])
  BY DEF BallotInv, BallotOK, NoStaleVotes, VotesCounted
<1>3. CASE UNCHANGED <<nomineeList, evictionList>>
  BY <1>1, <1>2, <1>3
<1>4. ASSUME NEW sender \in Account, NEW a \in Address, NEW m \in Moniker,
             submitNominee(sender, a, m)
      PROVE  BallotInv'
  <2>1. CASE UNCHANGED storage
    BY <1>3, <2>1 DEF storage, nomineeVars, evictionVars
  <2>2. CASE /\ ~isNominee(a) /\ UNCHANGED evictionVars
             /\ nomineeList' = [nomineeList EXCEPT ![a] = Election(a, @.vote)]
    <3>1. nomineeList[a].vote = {}
      BY <1>1, <2>2 DEF isNominee, BallotOK, BallotExact
    <3>2. nomineeList' = [nomineeList EXCEPT ![a] = Election(a, {})]
      BY <2>2, <3>1
    <3>3. \A b \in Address : BallotOK(nomineeList'[b])
      BY <1>1, <3>2, EmptyBallot, ReplaceBallot
    <3> QED BY <1>1, <1>2, <2>2, <3>3 DEF evictionVars
  <2> QED BY <1>4, <2>1, <2>2 DEF submitNominee, mayBeNominated
<1>5. ASSUME NEW sender \in Account, NEW a \in Address, submitEviction(sender, a)
      PROVE  BallotInv'
  <2>1. CASE UNCHANGED storage
    BY <1>3, <2>1 DEF storage, nomineeVars, evictionVars
  <2>2. CASE /\ ~isEvictee(a) /\ UNCHANGED nomineeVars
             /\ evictionList' = [evictionList EXCEPT ![a] = Election(a, @.vote)]
    <3>1. evictionList[a].vote = {}
      BY <1>1, <2>2 DEF isEvictee, BallotOK, BallotExact
    <3>2. evictionList' = [evictionList EXCEPT ![a] = Election(a, {})]
      BY <2>2, <3>1
    <3>3. \A b \in Address : BallotOK(evictionList'[b])
      BY <1>1, <3>2, EmptyBallot, ReplaceBallot
    <3> QED BY <1>1, <1>2, <2>2, <3>3 DEF nomineeVars
  <2> QED BY <1>5, <2>1, <2>2 DEF submitEviction, Reverts
<1>6. ASSUME NEW sender \in Account, NEW a \in Address, NEW accepted \in BOOLEAN,
             castNomineeVote(sender, a, accepted)
      PROVE  BallotInv'
  <2> DEFINE e == RecordVote(nomineeList[a], sender, accepted)
             cast == NomineeVoteCast(a, sender, e.yesVotes, e.noVotes, accepted)
  <2>1. CASE UNCHANGED storage
    BY <1>3, <2>1 DEF storage, nomineeVars, evictionVars
  <2>2. CASE /\ isNominee(a) /\ sender \notin nomineeList[a].vote
             /\ checkForNomineeVoteDecision(sender, a, e, cast)
             /\ UNCHANGED evictionVars
    <3>1. (e.noVotes = 0 => BallotOK(e)) /\ VotesCleared(e) = {}
      BY <1>1, <2>2, VoteBallot DEF isNominee
    <3> HIDE DEF e, cast
    <3>2. CASE removeNominee(a, e)
      <4>1. nomineeList' = [nomineeList EXCEPT ![a] = Election(Zero, {})]
        BY <3>1, <3>2 DEF removeNominee
      <4> QED BY <1>1, <4>1, EmptyBallot, ReplaceBallot, <1>2, <2>2 DEF evictionVars
    <3>3. CASE e.noVotes = 0 /\ nomineeList' = [nomineeList EXCEPT ![a] = e]
      BY <1>1, <3>1, <3>3, ReplaceBallot, <1>2, <2>2 DEF evictionVars
    <3> QED BY <2>2, <3>2, <3>3 DEF checkForNomineeVoteDecision, acceptNominee
  <2> QED BY <1>6, <2>1, <2>2 DEF castNomineeVote, Reverts, hasVoted
<1>7. ASSUME NEW sender \in Account, NEW a \in Address, NEW accepted \in BOOLEAN,
             castEvictionVote(sender, a, accepted)
      PROVE  BallotInv'
  <2> DEFINE e == RecordVote(evictionList[a], sender, accepted)
             cast == EvictionVoteCast(a, sender, e.yesVotes, nomineeList[a].noVotes, accepted)
  <2>1. CASE UNCHANGED storage
    BY <1>3, <2>1 DEF storage, nomineeVars, evictionVars
  <2>2. CASE /\ isEvictee(a) /\ sender \notin evictionList[a].vote
             /\ checkForEvictionVoteDecision(sender, a, e, cast)
             /\ UNCHANGED nomineeVars
    <3>1. (e.noVotes = 0 => BallotOK(e)) /\ VotesCleared(e) = {}
      BY <1>1, <2>2, VoteBallot DEF isEvictee
    <3> HIDE DEF e, cast
    <3>2. CASE removeEviction(a, e)
      <4>1. evictionList' = [evictionList EXCEPT ![a] = Election(Zero, {})]
        BY <3>1, <3>2 DEF removeEviction
      <4> QED BY <1>1, <4>1, EmptyBallot, ReplaceBallot, <1>2, <2>2 DEF nomineeVars
    <3>3. CASE e.noVotes = 0 /\ evictionList' = [evictionList EXCEPT ![a] = e]
      BY <1>1, <3>1, <3>3, ReplaceBallot, <1>2, <2>2 DEF nomineeVars
    <3> QED BY <2>2, <3>2, <3>3 DEF checkForEvictionVoteDecision, acceptEviction
  <2> QED BY <1>7, <2>1, <2>2 DEF castEvictionVote, Reverts, hasVoted
<1>8. CASE UNCHANGED vars
  BY <1>3, <1>8 DEF vars, nomineeVars, evictionVars
<1>9. ASSUME NEW sender \in Account, init(sender) PROVE BallotInv'
  BY <1>3, <1>9 DEF init, Reverts, storage, nomineeVars, evictionVars
<1> QED BY <1>4, <1>5, <1>6, <1>7, <1>8, <1>9 DEF Next

\* At genesis there are no elections and no votes.
LEMMA BallotInit == Init => BallotInv
<1> SUFFICES ASSUME Init PROVE BallotInv
  OBVIOUS
<1>1. BallotOK(Election(Zero, {}))
  BY EmptyBallot
<1>2. \A b \in Address : nomineeList[b] = Election(Zero, {}) /\ evictionList[b] = Election(Zero, {})
  BY DEF Init
<1> QED BY <1>1, <1>2, BallotInvParts

\* The ballots of every reachable storage are exact.
THEOREM BallotInvariant == Spec => []BallotInv
<1>1. Init => BallotInv
  BY BallotInit
<1>2. WhiteListInv /\ BallotInv /\ [Next]_vars => BallotInv'
  BY BallotStep
<1> QED BY <1>1, <1>2, WhiteListInvariant, PTL DEF Spec

\* A closed election leaves no vote behind, although deleting its record does
\* not clear the vote mapping.
THEOREM NeverStaleVotes == Spec => []NoStaleVotes
<1>1. BallotInv => NoStaleVotes
  BY DEF BallotInv
<1> QED BY <1>1, BallotInvariant, PTL

\* Open elections count each voter once, and hold no no vote.
THEOREM VotesAlwaysCounted == Spec => []VotesCounted
<1>1. BallotInv => VotesCounted
  BY DEF BallotInv
<1> QED BY <1>1, BallotInvariant, PTL

-----------------------------------------------------------------------------
(* The arrays clients enumerate.                                           *)

\* The array lists E, each element once, and possibly address(0).
Lists(s, E) ==
    /\ Range(s) \ {Zero} = E
    /\ \A i, j \in DOMAIN s : s[i] = s[j] => i = j \/ s[i] = Zero

\* Pushing an address that is not listed lists it.
LEMMA ListPush ==
    ASSUME NEW s \in Seq(Address), NEW E, Lists(s, E), NEW x \in Address, x \notin E
    PROVE  Lists(Append(s, x), E \cup ({x} \ {Zero}))
<1> DEFINE t == Append(s, x)
           n == Len(s)
<1>1. /\ n \in Nat /\ DOMAIN s = 1 .. n /\ DOMAIN t = 1 .. n + 1
      /\ \A i \in 1 .. n : t[i] = s[i]
      /\ t[n + 1] = x
      /\ Range(t) = Range(s) \cup {x}
  BY PushLemma
<1> HIDE DEF t, n
<1>2. \A i \in 1 .. n : s[i] = x => x = Zero
  BY <1>1 DEF Lists, Range
<1>3. ASSUME NEW i \in 1 .. n + 1, NEW j \in 1 .. n + 1, t[i] = t[j], i # j
      PROVE  t[i] = Zero
  <2>1. CASE i \in 1 .. n /\ j \in 1 .. n
    BY <1>1, <1>3, <2>1 DEF Lists
  <2>2. CASE i = n + 1
    <3>1. j \in 1 .. n
      BY <2>2, <1>1, <1>3
    <3> QED BY <3>1, <2>2, <1>1, <1>2, <1>3
  <2>3. CASE j = n + 1
    <3>1. i \in 1 .. n
      BY <2>3, <1>1, <1>3
    <3> QED BY <3>1, <2>3, <1>1, <1>2, <1>3
  <2> QED BY <2>1, <2>2, <2>3, <1>1
<1>4. Range(t) \ {Zero} = E \cup ({x} \ {Zero})
  BY <1>1 DEF Lists
<1> QED BY <1>1, <1>3, <1>4 DEF Lists, t

\* Removing a listed address takes it, and it only, off the list.
LEMMA ListRemove ==
    ASSUME NEW s \in Seq(Address), NEW E, Lists(s, E), NEW x \in E
    PROVE  Lists(SwapRemove(s, x), E \ {x})
<1> DEFINE t == SwapRemove(s, x)
           n == Len(s)
<1>1. n \in Nat /\ DOMAIN s = 1 .. n /\ x # Zero
  BY DEF Lists
<1>2. PICK k \in 1 .. n : s[k] = x
  BY <1>1 DEF Lists, Range
<1>3. \A i, j \in 1 .. n : s[i] = s[j] => i = j \/ s[i] = Zero
  BY <1>1 DEF Lists
<1>4. /\ t \in Seq(Address) /\ Len(t) = n - 1
      /\ Range(t) = Range(s) \ {x}
      /\ \A i \in 1 .. n - 1 : t[i] = s[IF i = k THEN n ELSE i]
  <2>1. \A j \in 1 .. Len(s) : s[j] = s[k] => j = k
    BY <1>1, <1>2, <1>3
  <2>2. k \in 1 .. Len(s)
    OBVIOUS
  <2> HIDE DEF t, n
  <2>3. LET r == SwapRemove(s, s[k])
        IN  /\ r \in Seq(Address)
            /\ Len(r) = Len(s) - 1
            /\ Range(r) = Range(s) \ {s[k]}
            /\ \A i \in 1 .. Len(s) - 1 : r[i] = s[IF i = k THEN Len(s) ELSE i]
    BY <2>1, <2>2, SwapRemoveLemma, Zenon
  <2> QED BY <2>3, <1>2, Zenon DEF t, n
<1>5. DOMAIN t = 1 .. n - 1
  BY <1>4
<1> HIDE DEF t, n
<1>6. ASSUME NEW i \in 1 .. n - 1, NEW j \in 1 .. n - 1, t[i] = t[j], i # j
      PROVE  t[i] = Zero
  <2>1. n \in 1 .. n /\ i \in 1 .. n /\ j \in 1 .. n /\ i # n /\ j # n
    BY <1>1
  <2>2. CASE i = k
    BY <2>1, <2>2, <1>3, <1>4, <1>6
  <2>3. CASE j = k
    BY <2>1, <2>3, <1>3, <1>4, <1>6
  <2>4. CASE i # k /\ j # k
    BY <2>1, <2>4, <1>3, <1>4, <1>6
  <2> QED BY <2>2, <2>3, <2>4
<1>7. Range(t) \ {Zero} = E \ {x}
  BY <1>4 DEF Lists
<1> QED BY <1>5, <1>6, <1>7 DEF Lists, t

\* In an array of accounts, which never holds address(0), each is listed once.
LEMMA ListOfAccounts ==
    ASSUME NEW s \in Seq(Account), NEW E
    PROVE  Lists(s, E) <=> Range(s) = E /\ IsInjective(s)
<1>1. \A i \in DOMAIN s : s[i] # Zero
  BY DEF Account
<1>2. Range(s) \ {Zero} = Range(s)
  BY <1>1 DEF Range
<1> QED BY <1>1, <1>2 DEF Lists, IsInjective

\* Every transaction keeps the arrays and the open elections in step.
LEMMA ArraysStep == WhiteListInv /\ ArraysListElections /\ [Next]_vars => ArraysListElections'
<1> SUFFICES ASSUME WhiteListInv, ArraysListElections, [Next]_vars
             PROVE  ArraysListElections'
  OBVIOUS
<1>1. /\ nomineeList \in [Address -> ElectionType] /\ nomineeArray \in Seq(Address)
      /\ evictionList \in [Address -> ElectionType] /\ evictionArray \in Seq(Account)
  BY DEF WhiteListInv, TypeOK, NomineeType, EvictionType
<1>2. Lists(nomineeArray, Nominees) /\ Lists(evictionArray, Evictees)
  BY <1>1, ListOfAccounts DEF ArraysListElections, Lists
<1>3. evictionArray' \in Seq(Account)
  BY NextStep DEF WhiteListInv, TypeOK, EvictionType
<1>4. ArraysListElections' <=>
         Lists(nomineeArray', Nominees') /\ Lists(evictionArray', Evictees')
  BY <1>3, ListOfAccounts DEF ArraysListElections, Lists
<1>5. UNCHANGED nomineeVars => Nominees' = Nominees /\ Lists(nomineeArray', Nominees')
  BY <1>2 DEF nomineeVars, Nominees, isNominee
<1>6. UNCHANGED evictionVars => Evictees' = Evictees /\ Lists(evictionArray', Evictees')
  BY <1>2 DEF evictionVars, Evictees, isEvictee
<1>7. CASE UNCHANGED <<nomineeVars, evictionVars>>
  BY <1>7, <1>4, <1>5, <1>6
<1>8. ASSUME NEW sender \in Account, NEW a \in Address, NEW m \in Moniker,
             submitNominee(sender, a, m)
      PROVE  ArraysListElections'
  <2>1. CASE UNCHANGED storage
    BY <1>7, <2>1 DEF storage
  <2>2. CASE /\ ~isNominee(a) /\ UNCHANGED evictionVars
             /\ nomineeList' = [nomineeList EXCEPT ![a] = Election(a, @.vote)]
             /\ nomineeArray' = Append(nomineeArray, a)
    <3>1. Nominees' = Nominees \cup ({a} \ {Zero}) /\ a \notin Nominees
      BY <1>1, <2>2 DEF Nominees, isNominee, Election
    <3>2. Lists(nomineeArray', Nominees')
      BY <1>1, <1>2, <2>2, <3>1, ListPush
    <3> QED BY <3>2, <2>2, <1>4, <1>6
  <2> QED BY <1>8, <2>1, <2>2 DEF submitNominee, mayBeNominated
<1>9. ASSUME NEW sender \in Account, NEW a \in Address, submitEviction(sender, a)
      PROVE  ArraysListElections'
  <2>1. CASE UNCHANGED storage
    BY <1>7, <2>1 DEF storage
  <2>2. CASE /\ ~isEvictee(a) /\ UNCHANGED nomineeVars
             /\ evictionList' = [evictionList EXCEPT ![a] = Election(a, @.vote)]
             /\ evictionArray' = Append(evictionArray, a)
    <3>1. Evictees' = Evictees \cup ({a} \ {Zero}) /\ a \notin Evictees
      BY <1>1, <2>2 DEF Evictees, isEvictee, Election
    <3>2. evictionArray \in Seq(Address)
      BY <1>1 DEF Account
    <3>3. Lists(evictionArray', Evictees')
      BY <3>2, <1>2, <2>2, <3>1, ListPush
    <3> QED BY <3>3, <2>2, <1>4, <1>5
  <2> QED BY <1>9, <2>1, <2>2 DEF submitEviction, Reverts
<1>10. ASSUME NEW sender \in Account, NEW a \in Address, NEW accepted \in BOOLEAN,
              castNomineeVote(sender, a, accepted)
       PROVE  ArraysListElections'
  <2> DEFINE e == RecordVote(nomineeList[a], sender, accepted)
             cast == NomineeVoteCast(a, sender, e.yesVotes, e.noVotes, accepted)
  <2>1. CASE UNCHANGED storage
    BY <1>7, <2>1 DEF storage
  <2>2. CASE /\ isNominee(a) /\ UNCHANGED evictionVars
             /\ checkForNomineeVoteDecision(sender, a, e, cast)
    <3>1. e.nominee = nomineeList[a].nominee
      BY <1>1, ElectionTypes
    <3>2. a \in Nominees
      BY <2>2 DEF Nominees
    <3> HIDE DEF e, cast
    <3>3. CASE removeNominee(a, e)
      <4>1. Nominees' = Nominees \ {a}
        BY <1>1, <3>3 DEF removeNominee, Nominees, isNominee, Election
      <4>2. Lists(nomineeArray', Nominees')
        BY <1>1, <1>2, <3>2, <3>3, <4>1, ListRemove DEF removeNominee
      <4> QED BY <4>2, <2>2, <1>4, <1>6
    <3>4. CASE nomineeList' = [nomineeList EXCEPT ![a] = e] /\ UNCHANGED nomineeArray
      <4>1. Nominees' = Nominees
        BY <1>1, <3>1, <3>4 DEF Nominees, isNominee
      <4> QED BY <4>1, <3>4, <2>2, <1>2, <1>4, <1>6
    <3> QED BY <2>2, <3>3, <3>4 DEF checkForNomineeVoteDecision, acceptNominee
  <2> QED BY <1>10, <2>1, <2>2 DEF castNomineeVote, Reverts
<1>11. ASSUME NEW sender \in Account, NEW a \in Address, NEW accepted \in BOOLEAN,
              castEvictionVote(sender, a, accepted)
       PROVE  ArraysListElections'
  <2> DEFINE e == RecordVote(evictionList[a], sender, accepted)
             cast == EvictionVoteCast(a, sender, e.yesVotes, nomineeList[a].noVotes, accepted)
  <2>1. CASE UNCHANGED storage
    BY <1>7, <2>1 DEF storage
  <2>2. CASE /\ isEvictee(a) /\ UNCHANGED nomineeVars
             /\ checkForEvictionVoteDecision(sender, a, e, cast)
    <3>1. e.nominee = evictionList[a].nominee
      BY <1>1, ElectionTypes
    <3>2. a \in Evictees /\ evictionArray \in Seq(Address)
      BY <2>2, <1>1 DEF Evictees, Account
    <3> HIDE DEF e, cast
    <3>3. CASE removeEviction(a, e)
      <4>1. Evictees' = Evictees \ {a}
        BY <1>1, <3>3 DEF removeEviction, Evictees, isEvictee, Election
      <4>2. Lists(evictionArray', Evictees')
        BY <1>2, <3>2, <3>3, <4>1, ListRemove DEF removeEviction
      <4> QED BY <4>2, <2>2, <1>4, <1>5
    <3>4. CASE evictionList' = [evictionList EXCEPT ![a] = e] /\ UNCHANGED evictionArray
      <4>1. Evictees' = Evictees
        BY <1>1, <3>1, <3>4 DEF Evictees, isEvictee
      <4> QED BY <4>1, <3>4, <2>2, <1>2, <1>4, <1>5
    <3> QED BY <2>2, <3>3, <3>4 DEF checkForEvictionVoteDecision, acceptEviction
  <2> QED BY <1>11, <2>1, <2>2 DEF castEvictionVote, Reverts
<1>12. CASE UNCHANGED vars
  BY <1>7, <1>12 DEF vars
<1>13. ASSUME NEW sender \in Account, init(sender) PROVE ArraysListElections'
  BY <1>7, <1>13 DEF init, Reverts, storage
<1> QED BY <1>8, <1>9, <1>10, <1>11, <1>12, <1>13 DEF Next

\* The arrays clients enumerate list every open election exactly once, although
\* an entry is removed by overwriting it with the last one and address(0) may be
\* nominated again and again.
THEOREM ArraysAlwaysListElections == Spec => []ArraysListElections
<1>1. Init => ArraysListElections
  <2> SUFFICES ASSUME Init PROVE ArraysListElections
    OBVIOUS
  <2>1. Nominees = {} /\ Evictees = {}
    BY DEF Init, Nominees, Evictees, isNominee, isEvictee, Election
  <2>2. nomineeArray = <<>> /\ evictionArray = <<>>
    BY DEF Init
  <2> QED BY <2>1, <2>2 DEF ArraysListElections, Range, IsInjective
<1>2. WhiteListInv /\ ArraysListElections /\ [Next]_vars => ArraysListElections'
  BY ArraysStep
<1> QED BY <1>1, <1>2, WhiteListInvariant, PTL DEF Spec

-----------------------------------------------------------------------------
(* Events.                                                                 *)

\* The log of a transaction in which no vote is counted: proposals, monikers and
\* the errors of calls that are refused.
NoVoteLogged(logs) ==
    \A i \in DOMAIN logs :
        \/ logs[i].event \in {"NomineeProposed", "EvictionProposed", "MonikerAnnounce"}
        \/ logs[i].event = "POA_Error" /\ logs[i].message # "Already Whitelisted"

\* The values the transaction returns.
Answer(decided, voteresult) == receipt'.decided = decided /\ receipt'.voteresult = voteresult

\* A counted vote of sender on nominee a.
NomineeVoteLogged(sender, a, accepted) ==
    LET e    == RecordVote(nomineeList[a], sender, accepted)
        cast == NomineeVoteCast(a, sender, e.yesVotes, e.noVotes, accepted)
    IN  \/ receipt'.logs = <<cast>> /\ Members' = Members /\ Answer(FALSE, FALSE)
        \/ /\ receipt'.logs = <<cast, NomineeDecision(a, e.yesVotes, e.noVotes, FALSE)>>
           /\ Members' = Members /\ Answer(TRUE, FALSE)
        \/ /\ receipt'.logs = <<cast, NomineeDecision(a, e.yesVotes, e.noVotes, TRUE)>>
           /\ Members' = Members \cup {a} /\ Answer(TRUE, TRUE)

\* A counted vote of sender on evictee a.
EvictionVoteLogged(sender, a, accepted) ==
    LET e    == RecordVote(evictionList[a], sender, accepted)
        cast == EvictionVoteCast(a, sender, e.yesVotes, nomineeList[a].noVotes, accepted)
    IN  \/ receipt'.logs = <<cast>> /\ Members' = Members /\ Answer(FALSE, FALSE)
        \/ /\ receipt'.logs = <<cast, EvictionDecision(a, e.yesVotes, e.noVotes, FALSE)>>
           /\ Members' = Members /\ Answer(TRUE, FALSE)
        \/ /\ receipt'.logs = <<cast, EvictionDecision(a, e.yesVotes, e.noVotes, TRUE)>>
           /\ Members' = Members \ {a} /\ Answer(TRUE, TRUE)

\* A call that is refused logs nothing or an error, and no vote.
LEMMA RefusalLogged ==
    ASSUME NEW a
    PROVE  /\ NoVoteLogged(<<>>)
           /\ \A m \in {"Not nominee", "On Whitelist", "On Nominee list",
                        "Not on Whitelist", "On Evictee list"} :
                 NoVoteLogged(<<POA_Error(a, m)>>)
<1>1. DOMAIN <<>> = {}
  OBVIOUS
<1>2. ASSUME NEW m, m # "Already Whitelisted" PROVE NoVoteLogged(<<POA_Error(a, m)>>)
  <2>1. \A i \in DOMAIN <<POA_Error(a, m)>> : <<POA_Error(a, m)>>[i] = POA_Error(a, m)
    OBVIOUS
  <2>2. POA_Error(a, m).event = "POA_Error" /\ POA_Error(a, m).message = m
    BY DEF POA_Error
  <2> QED BY <1>2, <2>1, <2>2 DEF NoVoteLogged
<1> QED BY <1>1, <1>2 DEF NoVoteLogged

\* Two events logged one after the other.
LEMMA PairOfLogs ==
    ASSUME NEW c, NEW d
    PROVE  <<c>> \o <<>> \o <<d>> = <<c, d>>
<1> DEFINE S == {c, d}
           s == <<c>> \o <<d>>
           t == <<c, d>>
<1>1. /\ <<c>> \in Seq(S) /\ <<d>> \in Seq(S) /\ t \in Seq(S)
      /\ Len(<<c>>) = 1 /\ Len(<<d>>) = 1 /\ Len(t) = 2
      /\ <<c>>[1] = c /\ <<d>>[1] = d /\ t[1] = c /\ t[2] = d
  OBVIOUS
<1>2. <<c>> \o <<>> = <<c>>
  BY <1>1, ConcatEmptySeq
<1>3. s \in Seq(S) /\ Len(s) = 2 /\ s[1] = c /\ s[2] = d
  BY <1>1, ConcatProperties
<1> HIDE DEF s, t
<1>4. \A i \in 1 .. Len(s) : s[i] = t[i]
  BY <1>1, <1>3
<1>5. s = t
  BY <1>1, <1>3, <1>4, SeqEqual
<1> QED BY <1>2, <1>5 DEF s, t

\* The log in the receipt of a transaction that returns.
LEMMA LogsReturned ==
    ASSUME NEW sender, NEW decided, NEW voteresult, NEW logs,
           Returns(sender, decided, voteresult, logs)
    PROVE  receipt'.logs = logs
BY DEF Returns

\* The answer in that receipt.
LEMMA AnswerReturned ==
    ASSUME NEW sender, NEW decided, NEW voteresult, NEW logs,
           Returns(sender, decided, voteresult, logs)
    PROVE  Answer(decided, voteresult)
BY DEF Returns, Answer

\* A reverted transaction logs nothing and is undone.
LEMMA LogsReverted ==
    ASSUME NEW sender, Reverts(sender)
    PROVE  receipt'.logs = <<>> /\ UNCHANGED storage
BY DEF Reverts

\* What castNomineeVote logs, and what it does to the whitelist.
LEMMA NomineeVoteEvents ==
    ASSUME WhiteListInv, NEW sender \in Account, NEW a \in Address,
           NEW accepted \in BOOLEAN, castNomineeVote(sender, a, accepted)
    PROVE  \/ Members' = Members /\ NoVoteLogged(receipt'.logs)
           \/ /\ isNominee(a) /\ sender \notin nomineeList[a].vote
              /\ NomineeVoteLogged(sender, a, accepted)
<1> DEFINE e == RecordVote(nomineeList[a], sender, accepted)
           cast == NomineeVoteCast(a, sender, e.yesVotes, e.noVotes, accepted)
<1>1. UNCHANGED whiteListVars => Members' = Members
  BY DEF whiteListVars, Members, isWhitelisted
<1>2. CASE UNCHANGED storage /\ receipt'.logs \in {<<>>, <<POA_Error(a, "Not nominee")>>}
  <2>1. Members' = Members
    BY <1>1, <1>2 DEF storage
  <2>2. NoVoteLogged(<<>>) /\ NoVoteLogged(<<POA_Error(a, "Not nominee")>>)
    BY RefusalLogged
  <2> QED BY <1>2, <2>1, <2>2
<1>3. CASE /\ isNominee(a) /\ sender \notin nomineeList[a].vote
           /\ checkForNomineeVoteDecision(sender, a, e, cast)
  <2>1. a \in Account /\ ~isWhitelisted(a)
    BY <1>3, ElectedIsAccount DEF WhiteListInv, ElectionsLegal, Nominees, Members
  <2> HIDE DEF e, cast
  <2>2. CASE /\ UNCHANGED whiteListVars
             /\ Returns(sender, TRUE, whiteList'[a] # Zero,
                        <<cast, NomineeDecision(a, e.yesVotes, e.noVotes, FALSE)>>)
    <3>1. receipt'.logs = <<cast, NomineeDecision(a, e.yesVotes, e.noVotes, FALSE)>>
      BY <2>2, LogsReturned
    <3>2. Answer(TRUE, FALSE)
      <4>1. (whiteList'[a] # Zero) = FALSE
        BY <2>1, <2>2 DEF whiteListVars, isWhitelisted
      <4> QED BY <2>2, <4>1, AnswerReturned
    <3> QED BY <1>1, <1>3, <2>2, <3>1, <3>2 DEF NomineeVoteLogged, e, cast
  <2>3. CASE /\ acceptNominee(a, e)
             /\ Returns(sender, TRUE, whiteList'[a] # Zero,
                        <<cast>> \o acceptNomineeLogs(a)
                          \o <<NomineeDecision(a, e.yesVotes, e.noVotes, TRUE)>>)
    <3>1. Members' = Members \cup {a}
      BY <2>1, <2>3, AcceptStep DEF WhiteListInv, TypeOK
    <3>2. acceptNomineeLogs(a) = <<>>
      BY <2>1 DEF acceptNomineeLogs
    <3> DEFINE decision == NomineeDecision(a, e.yesVotes, e.noVotes, TRUE)
    <3>3. receipt'.logs = <<cast>> \o <<>> \o <<decision>>
      BY <2>3, <3>2, LogsReturned
    <3>4. receipt'.logs = <<cast, decision>>
      <4> HIDE DEF decision
      <4>1. <<cast>> \o <<>> \o <<decision>> = <<cast, decision>>
        BY PairOfLogs
      <4> QED BY <3>3, <4>1
    <3>5. Answer(TRUE, TRUE)
      <4>1. (whiteList'[a] # Zero) = TRUE
        BY <3>1 DEF Members, isWhitelisted
      <4> QED BY <2>3, <4>1, AnswerReturned
    <3> QED BY <3>1, <3>4, <3>5, <1>3 DEF NomineeVoteLogged, e, cast
  <2>4. CASE UNCHANGED whiteListVars /\ Returns(sender, FALSE, FALSE, <<cast>>)
    <3>1. receipt'.logs = <<cast>> /\ Answer(FALSE, FALSE)
      BY <2>4, LogsReturned, AnswerReturned
    <3> QED BY <1>1, <1>3, <2>4, <3>1 DEF NomineeVoteLogged, e, cast
  <2> QED BY <1>3, <2>2, <2>3, <2>4 DEF checkForNomineeVoteDecision
<1>4. CASE ~isWhitelisted(sender) /\ Reverts(sender)
  BY <1>2, <1>4, LogsReverted
<1>5. CASE Returns(sender, FALSE, FALSE, <<>>) /\ UNCHANGED storage
  BY <1>2, <1>5, LogsReturned
<1>6. ASSUME NEW r, Returns(sender, TRUE, r, <<POA_Error(a, "Not nominee")>>), UNCHANGED storage
      PROVE  Members' = Members /\ NoVoteLogged(receipt'.logs)
  <2>1. receipt'.logs = <<POA_Error(a, "Not nominee")>>
    BY <1>6, LogsReturned
  <2> QED BY <1>1, <1>6, <2>1, RefusalLogged DEF storage
<1> QED BY <1>3, <1>4, <1>5, <1>6 DEF castNomineeVote, hasVoted

\* What castEvictionVote logs, and what it does to the whitelist.
LEMMA EvictionVoteEvents ==
    ASSUME WhiteListInv, NEW sender \in Account, NEW a \in Address,
           NEW accepted \in BOOLEAN, castEvictionVote(sender, a, accepted)
    PROVE  \/ Members' = Members /\ NoVoteLogged(receipt'.logs)
           \/ /\ isEvictee(a) /\ sender \notin evictionList[a].vote
              /\ EvictionVoteLogged(sender, a, accepted)
<1> DEFINE e == RecordVote(evictionList[a], sender, accepted)
           cast == EvictionVoteCast(a, sender, e.yesVotes, nomineeList[a].noVotes, accepted)
<1>1. UNCHANGED whiteListVars => Members' = Members
  BY DEF whiteListVars, Members, isWhitelisted
<1>2. CASE UNCHANGED storage /\ receipt'.logs \in {<<>>, <<POA_Error(a, "Not nominee")>>}
  <2>1. Members' = Members
    BY <1>1, <1>2 DEF storage
  <2>2. NoVoteLogged(<<>>) /\ NoVoteLogged(<<POA_Error(a, "Not nominee")>>)
    BY RefusalLogged
  <2> QED BY <1>2, <2>1, <2>2
<1>3. CASE /\ isEvictee(a) /\ sender \notin evictionList[a].vote
           /\ checkForEvictionVoteDecision(sender, a, e, cast)
  <2>1. a \in Account /\ isWhitelisted(a)
    BY <1>3, ElectedIsAccount DEF WhiteListInv, ElectionsLegal, Evictees, Members
  <2> HIDE DEF e, cast
  <2>2. CASE /\ UNCHANGED whiteListVars
             /\ Returns(sender, TRUE, whiteList'[a] = Zero,
                        <<cast, EvictionDecision(a, e.yesVotes, e.noVotes, FALSE)>>)
    <3>1. receipt'.logs = <<cast, EvictionDecision(a, e.yesVotes, e.noVotes, FALSE)>>
      BY <2>2, LogsReturned
    <3>2. Answer(TRUE, FALSE)
      <4>1. (whiteList'[a] = Zero) = FALSE
        BY <2>1, <2>2 DEF whiteListVars, isWhitelisted
      <4> QED BY <2>2, <4>1, AnswerReturned
    <3> QED BY <1>1, <1>3, <2>2, <3>1, <3>2 DEF EvictionVoteLogged, e, cast
  <2>3. CASE /\ acceptEviction(a, e)
             /\ Returns(sender, TRUE, whiteList'[a] = Zero,
                        <<cast, EvictionDecision(a, e.yesVotes, e.noVotes, TRUE)>>)
    <3>1. Members' = Members \ {a}
      BY <2>1, <2>3, DeWhiteListStep DEF WhiteListInv, TypeOK, acceptEviction
    <3>2. receipt'.logs = <<cast, EvictionDecision(a, e.yesVotes, e.noVotes, TRUE)>>
      BY <2>3, LogsReturned
    <3>3. Answer(TRUE, TRUE)
      <4>1. (whiteList'[a] = Zero) = TRUE
        BY <3>1 DEF Members, isWhitelisted
      <4> QED BY <2>3, <4>1, AnswerReturned
    <3> QED BY <3>1, <3>2, <3>3, <1>3 DEF EvictionVoteLogged, e, cast
  <2>4. CASE UNCHANGED whiteListVars /\ Returns(sender, FALSE, FALSE, <<cast>>)
    <3>1. receipt'.logs = <<cast>> /\ Answer(FALSE, FALSE)
      BY <2>4, LogsReturned, AnswerReturned
    <3> QED BY <1>1, <1>3, <2>4, <3>1 DEF EvictionVoteLogged, e, cast
  <2> QED BY <1>3, <2>2, <2>3, <2>4 DEF checkForEvictionVoteDecision
<1>4. CASE ~isWhitelisted(sender) /\ Reverts(sender)
  BY <1>2, <1>4, LogsReverted
<1>5. CASE Returns(sender, FALSE, FALSE, <<>>) /\ UNCHANGED storage
  BY <1>2, <1>5, LogsReturned
<1>6. ASSUME NEW r, Returns(sender, TRUE, r, <<POA_Error(a, "Not nominee")>>), UNCHANGED storage
      PROVE  Members' = Members /\ NoVoteLogged(receipt'.logs)
  <2>1. receipt'.logs = <<POA_Error(a, "Not nominee")>>
    BY <1>6, LogsReturned
  <2> QED BY <1>1, <1>6, <2>1, RefusalLogged DEF storage
<1> QED BY <1>3, <1>4, <1>5, <1>6 DEF castEvictionVote, hasVoted

\* Every transaction logs no vote, or one.
LEMMA TransactionEvents ==
    ASSUME WhiteListInv, Next
    PROVE  \/ Members' = Members /\ NoVoteLogged(receipt'.logs)
           \/ \E sender \in Account, a \in Address, accepted \in BOOLEAN :
                 /\ isNominee(a) /\ sender \notin nomineeList[a].vote
                 /\ NomineeVoteLogged(sender, a, accepted)
           \/ \E sender \in Account, a \in Address, accepted \in BOOLEAN :
                 /\ isEvictee(a) /\ sender \notin evictionList[a].vote
                 /\ EvictionVoteLogged(sender, a, accepted)
<1>1. UNCHANGED whiteListVars => Members' = Members
  BY DEF whiteListVars, Members, isWhitelisted
<1>a. ASSUME UNCHANGED storage, NEW logs, receipt'.logs = logs, NoVoteLogged(logs)
      PROVE  Members' = Members /\ NoVoteLogged(receipt'.logs)
  BY <1>a, <1>1 DEF storage
<1>b. ASSUME NEW sender, Reverts(sender)
      PROVE  Members' = Members /\ NoVoteLogged(receipt'.logs)
  BY <1>a, <1>b, LogsReverted, RefusalLogged
<1>2. ASSUME NEW sender \in Account, init(sender)
      PROVE  Members' = Members /\ NoVoteLogged(receipt'.logs)
  <2>1. CASE Returns(sender, FALSE, FALSE, <<>>) /\ UNCHANGED storage
    BY <1>a, <2>1, LogsReturned, RefusalLogged
  <2> QED BY <1>2, <1>b, <2>1 DEF init
<1>3. ASSUME NEW sender \in Account, NEW a \in Address, NEW m \in Moniker,
             submitNominee(sender, a, m)
      PROVE  Members' = Members /\ NoVoteLogged(receipt'.logs)
  <2>1. CASE UNCHANGED whiteListVars /\
             Returns(sender, FALSE, FALSE, <<NomineeProposed(a, sender), MonikerAnnounce(a, m)>>)
    <3> DEFINE p == NomineeProposed(a, sender)
               q == MonikerAnnounce(a, m)
    <3>1. p.event = "NomineeProposed" /\ q.event = "MonikerAnnounce"
      BY DEF NomineeProposed, MonikerAnnounce
    <3>2. receipt'.logs = <<p, q>>
      BY <2>1, LogsReturned
    <3> HIDE DEF p, q
    <3>3. NoVoteLogged(<<p, q>>)
      <4>1. \A i \in DOMAIN <<p, q>> : <<p, q>>[i] \in {p, q}
        OBVIOUS
      <4> QED BY <3>1, <4>1 DEF NoVoteLogged
    <3> QED BY <1>1, <2>1, <3>2, <3>3
  <2>2. CASE /\ Returns(sender, FALSE, FALSE, <<POA_Error(a, "On Whitelist")>>)
             /\ UNCHANGED storage
    BY <1>a, <2>2, LogsReturned, RefusalLogged
  <2>3. CASE /\ Returns(sender, FALSE, FALSE, <<POA_Error(a, "On Nominee list")>>)
             /\ UNCHANGED storage
    BY <1>a, <2>3, LogsReturned, RefusalLogged
  <2> QED BY <1>3, <2>1, <2>2, <2>3 DEF submitNominee
<1>4. ASSUME NEW sender \in Account, NEW a \in Address, submitEviction(sender, a)
      PROVE  Members' = Members /\ NoVoteLogged(receipt'.logs)
  <2>1. CASE UNCHANGED whiteListVars /\
             Returns(sender, FALSE, FALSE, <<EvictionProposed(a, sender)>>)
    <3> DEFINE p == EvictionProposed(a, sender)
    <3>1. p.event = "EvictionProposed"
      BY DEF EvictionProposed
    <3>2. receipt'.logs = <<p>>
      BY <2>1, LogsReturned
    <3> HIDE DEF p
    <3>3. NoVoteLogged(<<p>>)
      <4>1. \A i \in DOMAIN <<p>> : <<p>>[i] = p
        OBVIOUS
      <4> QED BY <3>1, <4>1 DEF NoVoteLogged
    <3> QED BY <1>1, <2>1, <3>2, <3>3
  <2>2. CASE /\ Returns(sender, FALSE, FALSE, <<POA_Error(a, "Not on Whitelist")>>)
             /\ UNCHANGED storage
    BY <1>a, <2>2, LogsReturned, RefusalLogged
  <2>3. CASE /\ Returns(sender, FALSE, FALSE, <<POA_Error(a, "On Evictee list")>>)
             /\ UNCHANGED storage
    BY <1>a, <2>3, LogsReturned, RefusalLogged
  <2> QED BY <1>4, <1>b, <2>1, <2>2, <2>3 DEF submitEviction
<1> QED BY <1>2, <1>3, <1>4, NomineeVoteEvents, EvictionVoteEvents DEF Next

\* The events of a log of one or two.
LEMMA EventsOfLog ==
    ASSUME NEW c, NEW d
    PROVE  /\ DOMAIN <<c>> = {1} /\ <<c>>[1] = c
           /\ DOMAIN <<c, d>> = {1, 2} /\ <<c, d>>[1] = c /\ <<c, d>>[2] = d
OBVIOUS

\* A nominee already on the whitelist is never admitted again.
THEOREM NeverAdmitsMember == Spec => NeverAlreadyWhitelisted
<1> DEFINE Clean(logs) ==
             \A i \in DOMAIN logs :
                logs[i].event = "POA_Error" => logs[i].message # "Already Whitelisted"
<1>1. ASSUME WhiteListInv, Next PROVE Clean(receipt'.logs)
  <2>1. CASE NoVoteLogged(receipt'.logs)
    BY <2>1 DEF NoVoteLogged
  <2>2. ASSUME NEW c, NEW d, c.event # "POA_Error", d.event # "POA_Error"
        PROVE  Clean(<<c>>) /\ Clean(<<c, d>>)
    <3>1. /\ \A i \in DOMAIN <<c>> : <<c>>[i] = c
          /\ \A i \in DOMAIN <<c, d>> : <<c, d>>[i] \in {c, d}
      BY EventsOfLog
    <3> QED BY <2>2, <3>1
  <2> HIDE DEF Clean
  <2>3. ASSUME NEW sender \in Account, NEW a \in Address, NEW accepted \in BOOLEAN,
               NomineeVoteLogged(sender, a, accepted)
        PROVE  Clean(receipt'.logs)
    <3> DEFINE e == RecordVote(nomineeList[a], sender, accepted)
               c == NomineeVoteCast(a, sender, e.yesVotes, e.noVotes, accepted)
               d(r) == NomineeDecision(a, e.yesVotes, e.noVotes, r)
    <3>1. c.event # "POA_Error" /\ d(TRUE).event # "POA_Error" /\ d(FALSE).event # "POA_Error"
      BY DEF NomineeVoteCast, NomineeDecision
    <3>2. receipt'.logs \in {<<c>>, <<c, d(FALSE)>>, <<c, d(TRUE)>>}
      BY <2>3 DEF NomineeVoteLogged
    <3> HIDE DEF c, d
    <3> QED BY <3>1, <3>2, <2>2
  <2>4. ASSUME NEW sender \in Account, NEW a \in Address, NEW accepted \in BOOLEAN,
               EvictionVoteLogged(sender, a, accepted)
        PROVE  Clean(receipt'.logs)
    <3> DEFINE e == RecordVote(evictionList[a], sender, accepted)
               c == EvictionVoteCast(a, sender, e.yesVotes, nomineeList[a].noVotes, accepted)
               d(r) == EvictionDecision(a, e.yesVotes, e.noVotes, r)
    <3>1. c.event # "POA_Error" /\ d(TRUE).event # "POA_Error" /\ d(FALSE).event # "POA_Error"
      BY DEF EvictionVoteCast, EvictionDecision
    <3>2. receipt'.logs \in {<<c>>, <<c, d(FALSE)>>, <<c, d(TRUE)>>}
      BY <2>4 DEF EvictionVoteLogged
    <3> HIDE DEF c, d
    <3> QED BY <3>1, <3>2, <2>2
  <2> QED BY <1>1, <2>1, <2>3, <2>4, TransactionEvents
<1> QED BY <1>1, WhiteListInvariant, PTL DEF Spec, NeverAlreadyWhitelisted

\* What the decisions in a log of one or two events say.
LEMMA DecidedInLog ==
    ASSUME NEW c, NEW d, NEW event, c.event # event
    PROVE  /\ Decided(<<c>>, event) = {}
           /\ Decided(<<c, d>>, event) =
                IF d.event = event /\ d.accepted THEN {d.nominee} ELSE {}
<1>1. /\ DOMAIN <<c>> = {1} /\ <<c>>[1] = c
      /\ DOMAIN <<c, d>> = {1, 2} /\ <<c, d>>[1] = c /\ <<c, d>>[2] = d
  BY EventsOfLog
<1>2. Decided(<<c>>, event) = {}
  BY <1>1 DEF Decided
<1>3. CASE d.event = event /\ d.accepted
  <2>1. {j \in DOMAIN <<c, d>> : <<c, d>>[j].event = event /\ <<c, d>>[j].accepted} = {2}
    BY <1>1, <1>3
  <2> QED BY <1>1, <1>2, <1>3, <2>1 DEF Decided
<1>4. CASE ~(d.event = event /\ d.accepted)
  <2>1. {j \in DOMAIN <<c, d>> : <<c, d>>[j].event = event /\ <<c, d>>[j].accepted} = {}
    BY <1>1, <1>4
  <2> QED BY <1>2, <1>4, <2>1 DEF Decided
<1> QED BY <1>3, <1>4

\* A client that follows the decision events knows the whitelist.
THEOREM EventsAlwaysTellWhitelist == Spec => EventsTellWhitelist
<1> DEFINE Told(logs) ==
             Members' = (Members \cup Decided(logs, "NomineeDecision"))
                           \ Decided(logs, "EvictionDecision")
<1>1. ASSUME WhiteListInv, Next PROVE Told(receipt'.logs)
  <2>1. CASE Members' = Members /\ NoVoteLogged(receipt'.logs)
    <3>1. /\ Decided(receipt'.logs, "NomineeDecision") = {}
          /\ Decided(receipt'.logs, "EvictionDecision") = {}
      BY <2>1 DEF NoVoteLogged, Decided
    <3> QED BY <2>1, <3>1
  <2>2. ASSUME NEW sender \in Account, NEW a \in Address, NEW accepted \in BOOLEAN,
               NomineeVoteLogged(sender, a, accepted)
        PROVE  Told(receipt'.logs)
    <3> DEFINE e == RecordVote(nomineeList[a], sender, accepted)
               c == NomineeVoteCast(a, sender, e.yesVotes, e.noVotes, accepted)
               d(r) == NomineeDecision(a, e.yesVotes, e.noVotes, r)
    <3>1. c.event = "NomineeVoteCast"
      BY DEF NomineeVoteCast
    <3>2. /\ d(TRUE).event = "NomineeDecision" /\ d(TRUE).nominee = a /\ d(TRUE).accepted
          /\ d(FALSE).event = "NomineeDecision" /\ ~d(FALSE).accepted
      BY DEF NomineeDecision
    <3>3. \/ receipt'.logs \in {<<c>>, <<c, d(FALSE)>>} /\ Members' = Members
          \/ receipt'.logs = <<c, d(TRUE)>> /\ Members' = Members \cup {a}
      BY <2>2 DEF NomineeVoteLogged
    <3> HIDE DEF c, d
    <3>4. /\ Decided(<<c>>, "NomineeDecision") = {} /\ Decided(<<c>>, "EvictionDecision") = {}
          /\ Decided(<<c, d(FALSE)>>, "NomineeDecision") = {}
          /\ Decided(<<c, d(FALSE)>>, "EvictionDecision") = {}
          /\ Decided(<<c, d(TRUE)>>, "NomineeDecision") = {a}
          /\ Decided(<<c, d(TRUE)>>, "EvictionDecision") = {}
      BY <3>1, <3>2, DecidedInLog
    <3> QED BY <3>3, <3>4
  <2>3. ASSUME NEW sender \in Account, NEW a \in Address, NEW accepted \in BOOLEAN,
               EvictionVoteLogged(sender, a, accepted)
        PROVE  Told(receipt'.logs)
    <3> DEFINE e == RecordVote(evictionList[a], sender, accepted)
               c == EvictionVoteCast(a, sender, e.yesVotes, nomineeList[a].noVotes, accepted)
               d(r) == EvictionDecision(a, e.yesVotes, e.noVotes, r)
    <3>1. c.event = "EvictionVoteCast"
      BY DEF EvictionVoteCast
    <3>2. /\ d(TRUE).event = "EvictionDecision" /\ d(TRUE).nominee = a /\ d(TRUE).accepted
          /\ d(FALSE).event = "EvictionDecision" /\ ~d(FALSE).accepted
      BY DEF EvictionDecision
    <3>3. \/ receipt'.logs \in {<<c>>, <<c, d(FALSE)>>} /\ Members' = Members
          \/ receipt'.logs = <<c, d(TRUE)>> /\ Members' = Members \ {a}
      BY <2>3 DEF EvictionVoteLogged
    <3> HIDE DEF c, d
    <3>4. /\ Decided(<<c>>, "NomineeDecision") = {} /\ Decided(<<c>>, "EvictionDecision") = {}
          /\ Decided(<<c, d(FALSE)>>, "NomineeDecision") = {}
          /\ Decided(<<c, d(FALSE)>>, "EvictionDecision") = {}
          /\ Decided(<<c, d(TRUE)>>, "NomineeDecision") = {}
          /\ Decided(<<c, d(TRUE)>>, "EvictionDecision") = {a}
      BY <3>1, <3>2, DecidedInLog
    <3> QED BY <3>3, <3>4
  <2> HIDE DEF Told
  <2> QED BY <1>1, <2>1, <2>2, <2>3, TransactionEvents
<1> QED BY <1>1, WhiteListInvariant, PTL DEF Spec, EventsTellWhitelist

\* The moniker of a member or of a nominee is not changed by anyone submitting
\* the address again.
THEOREM MonikersStaySettled == Spec => MonikerSettled
<1> DEFINE Kept == \A a \in Members \cup Nominees : monikerList'[a] = monikerList[a]
<1>1. ASSUME WhiteListInv, Next PROVE Kept
  <2>1. CASE UNCHANGED monikerList
    BY <2>1
  <2>2. ASSUME NEW sender \in Account, NEW a \in Address, NEW m \in Moniker,
               submitNominee(sender, a, m)
        PROVE  Kept
    <3>1. CASE ~isWhitelisted(a) /\ ~isNominee(a) /\ monikerList' = [monikerList EXCEPT ![a] = m]
      <4>1. a \notin Members \cup Nominees /\ Members \cup Nominees \subseteq Address
        BY <3>1 DEF Members, Nominees
      <4>2. monikerList \in [Address -> Moniker \cup {NoMoniker}]
        BY <1>1 DEF WhiteListInv, TypeOK, MonikerType
      <4> QED BY <3>1, <4>1, <4>2
    <3> QED BY <2>1, <2>2, <3>1 DEF submitNominee, mayBeNominated, storage
  <2> HIDE DEF Kept
  <2> QED BY <1>1, <2>1, <2>2 DEF Next, init, Reverts, submitEviction, castNomineeVote,
             castEvictionVote, storage
<1> QED BY <1>1, WhiteListInvariant, PTL DEF Spec, MonikerSettled

\* The counts of one event are right.
EventCounts(log) ==
    LET Yes(e) == Cardinality({v \in Account : v \in e.vote \/ (log.accepted /\ v = log.voter)})
    IN  /\ log.event = "NomineeVoteCast" =>
              /\ log.yesVotes = Yes(nomineeList[log.nominee])
              /\ log.noVotes = IF log.accepted THEN 0 ELSE 1
        /\ log.event = "EvictionVoteCast" =>
              log.yesVotes = Yes(evictionList[log.nominee])

\* A new vote in a legal ballot counts the voters to date.
LEMMA NewVoteCounts ==
    ASSUME NEW e \in ElectionType, BallotOK(e), NEW v \in Account, v \notin e.vote,
           NEW accepted \in BOOLEAN
    PROVE  LET f == RecordVote(e, v, accepted)
           IN  /\ f.yesVotes = Cardinality({u \in Account : u \in e.vote \/ (accepted /\ u = v)})
               /\ f.noVotes = IF accepted THEN 0 ELSE 1
<1>1. /\ e.vote \in SUBSET Account /\ e.yesVotes = Cardinality(e.vote) /\ e.noVotes = 0
  BY DEF ElectionType, BallotOK, BallotCounted
<1>2. CASE accepted
  <2>1. {u \in Account : u \in e.vote \/ (accepted /\ u = v)} = e.vote \cup {v}
    BY <1>1, <1>2
  <2>2. IsFiniteSet(e.vote)
    <3>1. IsFiniteSet(Account)
      BY AddressAssumption, FS_RemoveElement DEF Account
    <3> QED BY <3>1, <1>1, FS_Subset
  <2>3. Cardinality(e.vote \cup {v}) = Cardinality(e.vote) + 1
    BY <2>2, FS_AddElement
  <2>4. LET f == RecordVote(e, v, accepted) IN f.yesVotes = e.yesVotes + 1 /\ f.noVotes = 0
    BY <1>1, <1>2 DEF RecordVote, ElectionType
  <2> QED BY <1>1, <1>2, <2>1, <2>3, <2>4
<1>3. CASE ~accepted
  <2>1. {u \in Account : u \in e.vote \/ (accepted /\ u = v)} = e.vote
    BY <1>1, <1>3
  <2>2. LET f == RecordVote(e, v, accepted) IN f.yesVotes = e.yesVotes /\ f.noVotes = 1
    BY <1>1, <1>3 DEF RecordVote, ElectionType
  <2> QED BY <1>1, <1>3, <2>1, <2>2
<1> QED BY <1>2, <1>3

\* The counts in a vote's event are those of the voters to date.
THEOREM VoteEventsAlwaysCount == Spec => VoteEventsCount
<1> DEFINE Right(logs) == \A i \in DOMAIN logs : EventCounts(logs[i])
<1>1. ASSUME WhiteListInv, BallotInv, Next PROVE Right(receipt'.logs)
  <2>1. CASE NoVoteLogged(receipt'.logs)
    BY <2>1 DEF NoVoteLogged, EventCounts
  <2>2. ASSUME NEW c, NEW d, EventCounts(c), d.event \in {"NomineeDecision", "EvictionDecision"}
        PROVE  Right(<<c>>) /\ Right(<<c, d>>)
    <3>1. /\ \A i \in DOMAIN <<c>> : <<c>>[i] = c
          /\ \A i \in DOMAIN <<c, d>> : <<c, d>>[i] \in {c, d}
      BY EventsOfLog
    <3>2. EventCounts(d)
      BY <2>2 DEF EventCounts
    <3> QED BY <2>2, <3>1, <3>2
  <2> HIDE DEF Right
  <2>3. /\ nomineeList \in [Address -> ElectionType]
        /\ evictionList \in [Address -> ElectionType]
        /\ \A b \in Address : BallotOK(nomineeList[b]) /\ BallotOK(evictionList[b])
    BY <1>1, BallotInvParts DEF WhiteListInv, TypeOK, NomineeType, EvictionType
  <2>4. ASSUME NEW sender \in Account, NEW a \in Address, NEW accepted \in BOOLEAN,
               sender \notin nomineeList[a].vote, NomineeVoteLogged(sender, a, accepted)
        PROVE  Right(receipt'.logs)
    <3> DEFINE e == RecordVote(nomineeList[a], sender, accepted)
               c == NomineeVoteCast(a, sender, e.yesVotes, e.noVotes, accepted)
               d(r) == NomineeDecision(a, e.yesVotes, e.noVotes, r)
    <3>1. /\ d(TRUE).event = "NomineeDecision" /\ d(FALSE).event = "NomineeDecision"
          /\ c.event = "NomineeVoteCast" /\ c.nominee = a /\ c.voter = sender
          /\ c.accepted = accepted /\ c.yesVotes = e.yesVotes /\ c.noVotes = e.noVotes
      BY DEF NomineeVoteCast, NomineeDecision
    <3>2. /\ e.yesVotes = Cardinality({u \in Account :
                              u \in nomineeList[a].vote \/ (accepted /\ u = sender)})
          /\ e.noVotes = IF accepted THEN 0 ELSE 1
      BY <2>3, <2>4, NewVoteCounts
    <3>3. receipt'.logs \in {<<c>>, <<c, d(FALSE)>>, <<c, d(TRUE)>>}
      BY <2>4 DEF NomineeVoteLogged
    <3> HIDE DEF c, d, e
    <3>4. EventCounts(c)
      BY <3>1, <3>2 DEF EventCounts
    <3> QED BY <3>1, <3>3, <3>4, <2>2
  <2>5. ASSUME NEW sender \in Account, NEW a \in Address, NEW accepted \in BOOLEAN,
               sender \notin evictionList[a].vote, EvictionVoteLogged(sender, a, accepted)
        PROVE  Right(receipt'.logs)
    <3> DEFINE e == RecordVote(evictionList[a], sender, accepted)
               c == EvictionVoteCast(a, sender, e.yesVotes, nomineeList[a].noVotes, accepted)
               d(r) == EvictionDecision(a, e.yesVotes, e.noVotes, r)
    <3>1. /\ d(TRUE).event = "EvictionDecision" /\ d(FALSE).event = "EvictionDecision"
          /\ c.event = "EvictionVoteCast" /\ c.nominee = a /\ c.voter = sender
          /\ c.accepted = accepted /\ c.yesVotes = e.yesVotes
      BY DEF EvictionVoteCast, EvictionDecision
    <3>2. e.yesVotes = Cardinality({u \in Account :
                          u \in evictionList[a].vote \/ (accepted /\ u = sender)})
      BY <2>3, <2>5, NewVoteCounts
    <3>3. receipt'.logs \in {<<c>>, <<c, d(FALSE)>>, <<c, d(TRUE)>>}
      BY <2>5 DEF EvictionVoteLogged
    <3> HIDE DEF c, d, e
    <3>4. EventCounts(c)
      BY <3>1, <3>2 DEF EventCounts
    <3> QED BY <3>1, <3>3, <3>4, <2>2
  <2> QED BY <1>1, <2>1, <2>4, <2>5, TransactionEvents
<1>2. VoteEventsCount <=> [][Right(receipt'.logs)]_vars
  BY DEF VoteEventsCount, EventCounts
<1> QED BY <1>1, <1>2, WhiteListInvariant, BallotInvariant, PTL DEF Spec

\* The events of a transaction, and whether what it returns is what they say.
Logged(logs, events) == {i \in DOMAIN logs : logs[i].event \in events}
Decisions(logs) == Logged(logs, {"NomineeDecision", "EvictionDecision"})
Answered(logs) ==
    Logged(logs, {"NomineeVoteCast", "EvictionVoteCast"}) # {} =>
       /\ receipt'.decided <=> Decisions(logs) # {}
       /\ receipt'.voteresult <=> \E i \in Decisions(logs) : logs[i].accepted

\* A vote and, if it decides, its decision, with the answer that belongs to them.
LEMMA AnswerOfLog ==
    ASSUME NEW c, NEW d, c.event \notin {"NomineeDecision", "EvictionDecision"},
           d.event \in {"NomineeDecision", "EvictionDecision"}
    PROVE  /\ receipt'.decided = FALSE /\ receipt'.voteresult = FALSE => Answered(<<c>>)
           /\ receipt'.decided = TRUE /\ receipt'.voteresult = d.accepted
                 => Answered(<<c, d>>)
<1>1. Decisions(<<c>>) = {} /\ Decisions(<<c, d>>) = {2}
  BY EventsOfLog DEF Decisions, Logged
<1>2. <<c, d>>[2] = d
  BY EventsOfLog
<1> QED BY <1>1, <1>2 DEF Answered

\* What a counted vote returns is what it logs.
THEOREM VotesAlwaysAnswered == Spec => VotesAnswered
<1>1. ASSUME WhiteListInv, Next PROVE Answered(receipt'.logs)
  <2>1. CASE NoVoteLogged(receipt'.logs)
    BY <2>1 DEF NoVoteLogged, Answered, Logged
  <2>2. ASSUME NEW sender \in Account, NEW a \in Address, NEW accepted \in BOOLEAN,
               NomineeVoteLogged(sender, a, accepted)
        PROVE  Answered(receipt'.logs)
    <3> DEFINE e == RecordVote(nomineeList[a], sender, accepted)
               c == NomineeVoteCast(a, sender, e.yesVotes, e.noVotes, accepted)
               d(r) == NomineeDecision(a, e.yesVotes, e.noVotes, r)
    <3>1. /\ c.event = "NomineeVoteCast"
          /\ d(TRUE).event = "NomineeDecision" /\ d(TRUE).accepted = TRUE
          /\ d(FALSE).event = "NomineeDecision" /\ d(FALSE).accepted = FALSE
      BY DEF NomineeVoteCast, NomineeDecision
    <3>2. \/ receipt'.logs = <<c>> /\ Answer(FALSE, FALSE)
          \/ receipt'.logs = <<c, d(FALSE)>> /\ Answer(TRUE, FALSE)
          \/ receipt'.logs = <<c, d(TRUE)>> /\ Answer(TRUE, TRUE)
      BY <2>2 DEF NomineeVoteLogged
    <3> HIDE DEF c, d
    <3> QED BY <3>1, <3>2, AnswerOfLog DEF Answer
  <2>3. ASSUME NEW sender \in Account, NEW a \in Address, NEW accepted \in BOOLEAN,
               EvictionVoteLogged(sender, a, accepted)
        PROVE  Answered(receipt'.logs)
    <3> DEFINE e == RecordVote(evictionList[a], sender, accepted)
               c == EvictionVoteCast(a, sender, e.yesVotes, nomineeList[a].noVotes, accepted)
               d(r) == EvictionDecision(a, e.yesVotes, e.noVotes, r)
    <3>1. /\ c.event = "EvictionVoteCast"
          /\ d(TRUE).event = "EvictionDecision" /\ d(TRUE).accepted = TRUE
          /\ d(FALSE).event = "EvictionDecision" /\ d(FALSE).accepted = FALSE
      BY DEF EvictionVoteCast, EvictionDecision
    <3>2. \/ receipt'.logs = <<c>> /\ Answer(FALSE, FALSE)
          \/ receipt'.logs = <<c, d(FALSE)>> /\ Answer(TRUE, FALSE)
          \/ receipt'.logs = <<c, d(TRUE)>> /\ Answer(TRUE, TRUE)
      BY <2>3 DEF EvictionVoteLogged
    <3> HIDE DEF c, d
    <3> QED BY <3>1, <3>2, AnswerOfLog DEF Answer
  <2> QED BY <1>1, <2>1, <2>2, <2>3, TransactionEvents
<1>2. VotesAnswered <=> [][Answered(receipt'.logs)]_vars
  BY DEF VotesAnswered, Answered, Decisions, Logged
<1> QED BY <1>1, <1>2, WhiteListInvariant, PTL DEF Spec

-----------------------------------------------------------------------------
(* The contract implements Governance.                                     *)

\* Who said yes, under the refinement mapping.
votesIn  == [a \in Account |-> nomineeList[a].vote]
votesOut == [a \in Account |-> evictionList[a].vote]

\* The abstract variables under the refinement mapping.
LEMMA MappingDef ==
    /\ Gov!govVars = <<Members, Nominees, votesIn, Evictees, votesOut>>
    /\ Gov!govVars' = <<Members', Nominees', votesIn', Evictees', votesOut'>>
BY DEF Gov!govVars, votesIn, votesOut

\* Replacing the record of an account replaces its votes, and nothing else.
LEMMA ReplaceVotes ==
    ASSUME NEW F, NEW G, NEW a \in Account, NEW votes,
           F = [b \in Account |-> F[b]], G = [b \in Account |-> G[b]],
           G[a] = votes, \A b \in Account : b # a => G[b] = F[b]
    PROVE  G = [F EXCEPT ![a] = votes]
OBVIOUS

\* The refinement mapping yields functions on accounts.
LEMMA VotesFunctions ==
    /\ votesIn = [b \in Account |-> votesIn[b]] /\ votesIn' = [b \in Account |-> votesIn'[b]]
    /\ votesOut = [b \in Account |-> votesOut[b]] /\ votesOut' = [b \in Account |-> votesOut'[b]]
    /\ \A b \in Account : /\ votesIn[b] = nomineeList[b].vote
                          /\ votesIn'[b] = nomineeList'[b].vote
                          /\ votesOut[b] = evictionList[b].vote
                          /\ votesOut'[b] = evictionList'[b].vote
BY DEF votesIn, votesOut

\* Governance counts as the contract does.
LEMMA SameCardinality == \A S : Gov!Cardinality(S) = Cardinality(S)
BY DEF Gov!Cardinality, Cardinality

\* The initial storage is Governance's initial state.
LEMMA GovInit == Init => Gov!Init
<1> SUFFICES ASSUME Init PROVE Gov!Init
  OBVIOUS
<1>1. Members = Genesis
  BY GenesisAssumption DEF Init, Members, isWhitelisted
<1>2. \A b \in Address : /\ nomineeList[b].nominee = Zero /\ nomineeList[b].vote = {}
                         /\ evictionList[b].nominee = Zero /\ evictionList[b].vote = {}
  BY DEF Init, Election
<1>3. Nominees = {} /\ Evictees = {}
  BY <1>2 DEF Nominees, Evictees, isNominee, isEvictee
<1>4. /\ [a \in Account |-> nomineeList[a].vote] = [a \in Account |-> {}]
      /\ [a \in Account |-> evictionList[a].vote] = [a \in Account |-> {}]
  BY <1>2 DEF Account
<1> QED BY <1>1, <1>3, <1>4 DEF Gov!Init

GovInv == WhiteListInv /\ BallotInv

\* A transaction that is reverted or refused is not seen by Governance.
LEMMA StorageStutter ==
    ASSUME UNCHANGED storage
    PROVE  UNCHANGED Gov!govVars
BY DEF storage, whiteListVars, nomineeVars, evictionVars, Gov!govVars, Members, Nominees,
   Evictees, isWhitelisted, isNominee, isEvictee

\* submitNominee is Nominate, or nothing for address(0) and in its error cases.
LEMMA GovSubmitNominee ==
    ASSUME GovInv, NEW sender \in Account, NEW a \in Address, NEW m \in Moniker,
           submitNominee(sender, a, m)
    PROVE  [Gov!Next]_(Gov!govVars)
<1>1. CASE UNCHANGED storage
  BY <1>1, StorageStutter
<1>2. CASE /\ ~isWhitelisted(a) /\ ~isNominee(a)
           /\ nomineeList' = [nomineeList EXCEPT ![a] = Election(a, @.vote)]
           /\ UNCHANGED <<whiteListVars, evictionVars>>
  <2>1. nomineeList \in [Address -> ElectionType]
    BY DEF GovInv, WhiteListInv, TypeOK, NomineeType
  <2>2. Members' = Members /\ Evictees' = Evictees /\ votesOut' = votesOut
    BY <1>2 DEF Members, Evictees, votesOut, isWhitelisted, isEvictee, whiteListVars,
       evictionVars
  <2>3. \A b \in Address : /\ nomineeList'[b].vote = nomineeList[b].vote
                           /\ b # a => nomineeList'[b] = nomineeList[b]
                           /\ b = a => nomineeList'[b].nominee = a
    BY <1>2, <2>1 DEF Election
  <2>4. votesIn' = votesIn
    BY <2>3 DEF votesIn, Account
  <2>5. CASE a = Zero
    <3>1. Nominees' = Nominees
      BY <1>2, <2>3, <2>5 DEF Nominees, isNominee
    <3> QED BY <2>2, <2>4, <3>1, MappingDef
  <2>6. CASE a # Zero
    <3>1. Nominees' = Nominees \cup {a}
      BY <2>3, <2>6 DEF Nominees, isNominee
    <3>2. a \notin Members \cup Nominees /\ a \in Account
      BY <1>2, <2>6 DEF Members, Nominees, Account
    <3>3. Gov!Nominate(a)
      BY <2>2, <2>4, <3>1, <3>2 DEF Gov!Nominate, votesIn, votesOut
    <3> QED BY <3>2, <3>3 DEF Gov!Next
  <2> QED BY <2>5, <2>6
<1> QED BY <1>1, <1>2 DEF submitNominee, mayBeNominated

\* submitEviction is ProposeEviction.
LEMMA GovSubmitEviction ==
    ASSUME GovInv, NEW sender \in Account, NEW a \in Address,
           submitEviction(sender, a)
    PROVE  [Gov!Next]_(Gov!govVars)
<1>1. CASE UNCHANGED storage
  BY <1>1, StorageStutter
<1>2. CASE /\ isWhitelisted(a) /\ ~isEvictee(a)
           /\ evictionList' = [evictionList EXCEPT ![a] = Election(a, @.vote)]
           /\ UNCHANGED <<whiteListVars, nomineeVars>>
  <2>1. evictionList \in [Address -> ElectionType]
    BY DEF GovInv, WhiteListInv, TypeOK, EvictionType
  <2>2. Members' = Members /\ Nominees' = Nominees /\ votesIn' = votesIn
    BY <1>2 DEF Members, Nominees, votesIn, isWhitelisted, isNominee, whiteListVars,
       nomineeVars
  <2>3. \A b \in Address : /\ evictionList'[b].vote = evictionList[b].vote
                           /\ b # a => evictionList'[b] = evictionList[b]
                           /\ b = a => evictionList'[b].nominee = a
    BY <1>2, <2>1 DEF Election
  <2>4. votesOut' = votesOut
    BY <2>3 DEF votesOut, Account
  <2>5. a \in Account
    BY <1>2 DEF GovInv, WhiteListInv, WhiteListConsistent, isWhitelisted, Account
  <2>6. Evictees' = Evictees \cup {a} /\ a \in Members \ Evictees
    BY <1>2, <2>3, <2>5 DEF Evictees, isEvictee, Members, Account
  <2>7. Gov!ProposeEviction(a)
    BY <2>2, <2>4, <2>6 DEF Gov!ProposeEviction, votesIn, votesOut
  <2> QED BY <2>5, <2>7 DEF Gov!Next
<1> QED BY <1>1, <1>2 DEF submitEviction, Reverts

\* What a counted vote leaves in the record it was cast in.
LEMMA VoteRecorded ==
    ASSUME NEW e \in ElectionType, BallotOK(e), e.nominee # Zero,
           NEW v \in Account, v \notin e.vote, NEW accepted \in BOOLEAN
    PROVE  LET f == RecordVote(e, v, accepted)
           IN  /\ f \in ElectionType
               /\ f.nominee = e.nominee
               /\ f.vote = e.vote \cup {v}
               /\ f.noVotes = 0 => f.yesVotes = Cardinality(e.vote \cup {v})
               /\ VotesCleared(f) = {}
<1> DEFINE f == RecordVote(e, v, accepted)
<1>1. f \in ElectionType /\ f.nominee = e.nominee
  BY ElectionTypes, AddressAssumption
<1>2. f.vote = e.vote \cup {v}
  <2>1. CASE accepted
    BY <2>1 DEF RecordVote, ElectionType
  <2>2. CASE ~accepted
    BY <2>2 DEF RecordVote, ElectionType
  <2> QED BY <2>1, <2>2
<1>3. (f.noVotes = 0 => BallotOK(f)) /\ VotesCleared(f) = {}
  BY VoteBallot
<1> HIDE DEF f
<1>4. f.noVotes = 0 => f.yesVotes = Cardinality(e.vote \cup {v})
  BY <1>2, <1>3 DEF BallotOK, BallotCounted
<1> QED BY <1>1, <1>2, <1>3, <1>4 DEF f

\* castNomineeVote is Reject, Admit or Approve when the vote counts.
LEMMA GovCastNomineeVote ==
    ASSUME GovInv, NEW sender \in Account, NEW a \in Address,
           NEW accepted \in BOOLEAN, castNomineeVote(sender, a, accepted)
    PROVE  [Gov!Next]_(Gov!govVars)
<1>1. CASE UNCHANGED storage
  BY <1>1, StorageStutter
<1> DEFINE e == RecordVote(nomineeList[a], sender, accepted)
           cast == NomineeVoteCast(a, sender, e.yesVotes, e.noVotes, accepted)
<1>2. CASE /\ isWhitelisted(sender) /\ isNominee(a) /\ sender \notin nomineeList[a].vote
           /\ checkForNomineeVoteDecision(sender, a, e, cast)
           /\ UNCHANGED evictionVars
  <2>1. /\ nomineeList \in [Address -> ElectionType]
        /\ \A b \in Address : BallotOK(nomineeList[b])
        /\ ElectionsLegal
    BY BallotInvParts DEF GovInv, WhiteListInv, TypeOK, NomineeType
  <2>2. /\ e \in ElectionType /\ e.nominee = nomineeList[a].nominee
        /\ e.vote = nomineeList[a].vote \cup {sender}
        /\ e.noVotes = 0 => e.yesVotes = Cardinality(nomineeList[a].vote \cup {sender})
        /\ VotesCleared(e) = {}
    BY <1>2, <2>1, VoteRecorded DEF isNominee
  <2> HIDE DEF e, cast
  <2>3. a \in Account /\ nomineeList[a].nominee = a /\ a # Zero
    BY <1>2, <2>1, ElectedIsAccount DEF Account
  <2>4. Evictees' = Evictees /\ votesOut' = votesOut
    BY <1>2 DEF Evictees, votesOut, isEvictee, evictionVars
  <2>5. votesIn[a] = nomineeList[a].vote
    BY <2>3 DEF votesIn
  <2>6. Gov!MayVoteIn(sender, a)
    BY <1>2, <2>3, <2>5 DEF Gov!MayVoteIn, Members, Nominees, votesIn, Account
  <2>7. whiteListCount = Cardinality(Members) /\ a \notin Members
    BY <1>2 DEF GovInv, WhiteListInv, WhiteListConsistent, ElectionsLegal, Nominees, Members
  <2>8. ASSUME removeNominee(a, e)
        PROVE  Nominees' = Nominees \ {a} /\ votesIn' = [votesIn EXCEPT ![a] = {}]
    <3>1. Election(Zero, {}) \in ElectionType /\ Election(Zero, {}).vote = {}
          /\ Election(Zero, {}).nominee = Zero
      BY AddressAssumption DEF Election, ElectionType
    <3>2. nomineeList' = [nomineeList EXCEPT ![a] = Election(Zero, {})]
      BY <2>2, <2>8 DEF removeNominee
    <3>3. votesIn' = [votesIn EXCEPT ![a] = {}]
      <4>1. /\ nomineeList'[a].vote = {}
            /\ \A b \in Account : b # a => nomineeList'[b] = nomineeList[b]
        BY <2>1, <2>3, <3>1, <3>2 DEF Account
      <4>2. votesIn'[a] = {} /\ \A b \in Account : b # a => votesIn'[b] = votesIn[b]
        BY <2>3, <4>1, VotesFunctions
      <4> QED BY <2>3, <4>2, VotesFunctions, ReplaceVotes
    <3>4. Nominees' = Nominees \ {a}
      BY <2>1, <3>1, <3>2 DEF Nominees, isNominee
    <3> QED BY <3>3, <3>4
  <2>9. CASE removeNominee(a, e) /\ UNCHANGED whiteListVars
    <3>1. Members' = Members
      BY <2>9 DEF whiteListVars, Members, isWhitelisted
    <3>2. Gov!Reject(sender, a)
      BY <2>4, <2>6, <2>8, <2>9, <3>1
      DEF Gov!Reject, Gov!CloseNomination, votesIn, votesOut
    <3> QED BY <2>3, <3>2 DEF Gov!Next
  <2>10. CASE e.noVotes = 0 /\ e.yesVotes >= whiteListCount /\ acceptNominee(a, e)
    <3>1. Members' = Members \cup {a}
      BY <2>3, <2>7, <2>10, AcceptStep DEF GovInv, WhiteListInv, TypeOK, Members
    <3>2. Cardinality(votesIn[a] \cup {sender}) >= Cardinality(Members)
      BY <2>2, <2>5, <2>7, <2>10
    <3>3. removeNominee(a, e)
      BY <2>10 DEF acceptNominee
    <3>4. Gov!Admit(sender, a)
      BY <2>4, <2>6, <2>8, <3>1, <3>2, <3>3, SameCardinality
      DEF Gov!Admit, Gov!CloseNomination, votesIn, votesOut
    <3> QED BY <2>3, <3>4 DEF Gov!Next
  <2>11. CASE /\ e.noVotes = 0 /\ e.yesVotes < whiteListCount
              /\ nomineeList' = [nomineeList EXCEPT ![a] = e]
              /\ UNCHANGED <<whiteListVars, nomineeArray>>
    <3>1. Members' = Members
      BY <2>11 DEF whiteListVars, Members, isWhitelisted
    <3>2. votesIn' = [votesIn EXCEPT ![a] = @ \cup {sender}]
      <4>1. votesIn' = [votesIn EXCEPT ![a] = e.vote]
        <5>1. /\ nomineeList'[a].vote = e.vote
              /\ \A b \in Account : b # a => nomineeList'[b] = nomineeList[b]
          BY <2>1, <2>3, <2>11 DEF Account
        <5>2. votesIn'[a] = e.vote /\ \A b \in Account : b # a => votesIn'[b] = votesIn[b]
          BY <2>3, <5>1, VotesFunctions
        <5> QED BY <2>3, <5>2, VotesFunctions, ReplaceVotes
      <4> QED BY <4>1, <2>2, <2>5
    <3>3. Nominees' = Nominees
      BY <2>1, <2>2, <2>11 DEF Nominees, isNominee
    <3>4. Cardinality(votesIn[a] \cup {sender}) < Cardinality(Members)
      BY <2>2, <2>5, <2>7, <2>11
    <3>5. Gov!Approve(sender, a)
      BY <2>4, <2>6, <3>1, <3>2, <3>3, <3>4, SameCardinality DEF Gov!Approve, votesIn, votesOut
    <3> QED BY <2>3, <3>5 DEF Gov!Next
  <2> QED BY <1>2, <2>9, <2>10, <2>11 DEF checkForNomineeVoteDecision
<1> QED BY <1>1, <1>2 DEF castNomineeVote, Reverts, hasVoted

\* castEvictionVote is Keep, Expel or Condemn when the vote counts.
LEMMA GovCastEvictionVote ==
    ASSUME GovInv, NEW sender \in Account, NEW a \in Address,
           NEW accepted \in BOOLEAN, castEvictionVote(sender, a, accepted)
    PROVE  [Gov!Next]_(Gov!govVars)
<1>1. CASE UNCHANGED storage
  BY <1>1, StorageStutter
<1> DEFINE e == RecordVote(evictionList[a], sender, accepted)
           cast == EvictionVoteCast(a, sender, e.yesVotes, nomineeList[a].noVotes, accepted)
<1>2. CASE /\ isWhitelisted(sender) /\ isEvictee(a) /\ sender \notin evictionList[a].vote
           /\ checkForEvictionVoteDecision(sender, a, e, cast)
           /\ UNCHANGED nomineeVars
  <2>1. /\ evictionList \in [Address -> ElectionType]
        /\ \A b \in Address : BallotOK(evictionList[b])
        /\ ElectionsLegal
    BY BallotInvParts DEF GovInv, WhiteListInv, TypeOK, EvictionType
  <2>2. /\ e \in ElectionType /\ e.nominee = evictionList[a].nominee
        /\ e.vote = evictionList[a].vote \cup {sender}
        /\ e.noVotes = 0 => e.yesVotes = Cardinality(evictionList[a].vote \cup {sender})
        /\ VotesCleared(e) = {}
    BY <1>2, <2>1, VoteRecorded DEF isEvictee
  <2> HIDE DEF e, cast
  <2>3. a \in Account /\ evictionList[a].nominee = a /\ a # Zero
    BY <1>2, <2>1, ElectedIsAccount DEF Account
  <2>4. Nominees' = Nominees /\ votesIn' = votesIn
    BY <1>2 DEF Nominees, votesIn, isNominee, nomineeVars
  <2>5. votesOut[a] = evictionList[a].vote
    BY <2>3 DEF votesOut
  <2>6. Gov!MayVoteOut(sender, a)
    BY <1>2, <2>3, <2>5 DEF Gov!MayVoteOut, Members, Evictees, votesOut, Account
  <2>7. a \in Members /\ Decrement(whiteListCount) = Cardinality(Members \ {a})
    <3>1. whiteListCount = Cardinality(Members) /\ a \in Members
      BY <1>2 DEF GovInv, WhiteListInv, WhiteListConsistent, ElectionsLegal, Evictees, Members
    <3>2. /\ Cardinality(Members \ {a}) = Cardinality(Members) - 1
          /\ IsFiniteSet(Members \ {a})
      BY <3>1, MembersFinite, FS_RemoveElement
    <3>3. Cardinality(Members \ {a}) \in Nat /\ Cardinality(Members) \in Nat
      BY <3>2, MembersFinite, FS_CardinalityType
    <3> QED BY <3>1, <3>2, <3>3 DEF Decrement
  <2>8. ASSUME removeEviction(a, e)
        PROVE  Evictees' = Evictees \ {a} /\ votesOut' = [votesOut EXCEPT ![a] = {}]
    <3>1. Election(Zero, {}) \in ElectionType /\ Election(Zero, {}).vote = {}
          /\ Election(Zero, {}).nominee = Zero
      BY AddressAssumption DEF Election, ElectionType
    <3>2. evictionList' = [evictionList EXCEPT ![a] = Election(Zero, {})]
      BY <2>2, <2>8 DEF removeEviction
    <3>3. votesOut' = [votesOut EXCEPT ![a] = {}]
      <4>1. /\ evictionList'[a].vote = {}
            /\ \A b \in Account : b # a => evictionList'[b] = evictionList[b]
        BY <2>1, <2>3, <3>1, <3>2 DEF Account
      <4>2. votesOut'[a] = {} /\ \A b \in Account : b # a => votesOut'[b] = votesOut[b]
        BY <2>3, <4>1, VotesFunctions
      <4> QED BY <2>3, <4>2, VotesFunctions, ReplaceVotes
    <3>4. Evictees' = Evictees \ {a}
      BY <2>1, <3>1, <3>2 DEF Evictees, isEvictee
    <3> QED BY <3>3, <3>4
  <2>9. CASE removeEviction(a, e) /\ UNCHANGED whiteListVars
    <3>1. Members' = Members
      BY <2>9 DEF whiteListVars, Members, isWhitelisted
    <3>2. Gov!Keep(sender, a)
      BY <2>4, <2>6, <2>8, <2>9, <3>1
      DEF Gov!Keep, Gov!CloseEviction, votesIn, votesOut
    <3> QED BY <2>3, <3>2 DEF Gov!Next
  <2>10. CASE /\ e.noVotes = 0 /\ e.yesVotes >= Decrement(whiteListCount)
              /\ acceptEviction(a, e)
    <3>1. Members' = Members \ {a}
      BY <2>3, <2>7, <2>10, DeWhiteListStep
      DEF GovInv, WhiteListInv, TypeOK, Members, acceptEviction
    <3>2. Cardinality(votesOut[a] \cup {sender}) >= Cardinality(Members \ {a})
      BY <2>2, <2>5, <2>7, <2>10
    <3>3. removeEviction(a, e)
      BY <2>10 DEF acceptEviction
    <3>4. Gov!Expel(sender, a)
      BY <2>4, <2>6, <2>8, <3>1, <3>2, <3>3, SameCardinality
      DEF Gov!Expel, Gov!CloseEviction, votesIn, votesOut
    <3> QED BY <2>3, <3>4 DEF Gov!Next
  <2>11. CASE /\ e.noVotes = 0 /\ e.yesVotes < Decrement(whiteListCount)
              /\ evictionList' = [evictionList EXCEPT ![a] = e]
              /\ UNCHANGED <<whiteListVars, evictionArray>>
    <3>1. Members' = Members
      BY <2>11 DEF whiteListVars, Members, isWhitelisted
    <3>2. votesOut' = [votesOut EXCEPT ![a] = @ \cup {sender}]
      <4>1. /\ evictionList'[a].vote = e.vote
            /\ \A b \in Account : b # a => evictionList'[b] = evictionList[b]
        BY <2>1, <2>3, <2>11 DEF Account
      <4>2. votesOut'[a] = e.vote /\ \A b \in Account : b # a => votesOut'[b] = votesOut[b]
        BY <2>3, <4>1, VotesFunctions
      <4>3. votesOut' = [votesOut EXCEPT ![a] = e.vote]
        BY <2>3, <4>2, VotesFunctions, ReplaceVotes
      <4> QED BY <4>3, <2>2, <2>5
    <3>3. Evictees' = Evictees
      BY <2>1, <2>2, <2>11 DEF Evictees, isEvictee
    <3>4. Cardinality(votesOut[a] \cup {sender}) < Cardinality(Members \ {a})
      BY <2>2, <2>5, <2>7, <2>11
    <3>5. Gov!Condemn(sender, a)
      BY <2>4, <2>6, <3>1, <3>2, <3>3, <3>4, SameCardinality DEF Gov!Condemn, votesIn, votesOut
    <3> QED BY <2>3, <3>5 DEF Gov!Next
  <2> QED BY <1>2, <2>9, <2>10, <2>11 DEF checkForEvictionVoteDecision
<1> QED BY <1>1, <1>2 DEF castEvictionVote, Reverts, hasVoted

\* Every transaction is a Governance step or leaves Governance's state alone.
LEMMA GovStep == GovInv /\ [Next]_vars => [Gov!Next]_(Gov!govVars)
<1> SUFFICES ASSUME GovInv, [Next]_vars PROVE [Gov!Next]_(Gov!govVars)
  OBVIOUS
<1>1. CASE UNCHANGED vars
  <2>1. UNCHANGED storage
    BY <1>1 DEF vars, storage
  <2> QED BY <2>1, StorageStutter
<1>2. ASSUME NEW sender \in Account, init(sender) PROVE [Gov!Next]_(Gov!govVars)
  BY <1>2, StorageStutter DEF init, Reverts
<1>3. ASSUME NEW sender \in Account, NEW a \in Address, NEW m \in Moniker,
             submitNominee(sender, a, m)
      PROVE  [Gov!Next]_(Gov!govVars)
  BY <1>3, GovSubmitNominee
<1>4. ASSUME NEW sender \in Account, NEW a \in Address, submitEviction(sender, a)
      PROVE  [Gov!Next]_(Gov!govVars)
  BY <1>4, GovSubmitEviction
<1>5. ASSUME NEW sender \in Account, NEW a \in Address, NEW accepted \in BOOLEAN,
             castNomineeVote(sender, a, accepted)
      PROVE  [Gov!Next]_(Gov!govVars)
  BY <1>5, GovCastNomineeVote
<1>6. ASSUME NEW sender \in Account, NEW a \in Address, NEW accepted \in BOOLEAN,
             castEvictionVote(sender, a, accepted)
      PROVE  [Gov!Next]_(Gov!govVars)
  BY <1>6, GovCastEvictionVote
<1> QED BY <1>1, <1>2, <1>3, <1>4, <1>5, <1>6 DEF Next

\* For every set of addresses and every genesis whitelist, the contract's
\* storage layout implements the membership rules of Governance.
THEOREM RefinesGovernance == Spec => ImplementsGovernance
<1>1. Init => Gov!Init
  BY GovInit
<1>2. WhiteListInv /\ BallotInv /\ [Next]_vars => [Gov!Next]_(Gov!govVars)
  BY GovStep DEF GovInv
<1> QED BY <1>1, <1>2, WhiteListInvariant, BallotInvariant, PTL
        DEF Spec, ImplementsGovernance, Gov!Spec
=============================================================================
