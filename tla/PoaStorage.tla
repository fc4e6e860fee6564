----------------------------- MODULE PoaStorage -----------------------------
(***************************************************************************)
(* The "poa.storage" section of a genesis file: a map from storage slots of *)
(* the POA contract to hexadecimal values, as GetStorage writes it for the  *)
(* initial peers (src/genesis/storage.go) and as "giverny parse" reads it   *)
(* back (cmd/giverny/commands/parse/parse.go).                              *)
(*                                                                          *)
(* A slot is the place the contract's layout gives it: hashes are taken to  *)
(* be collision-free, and some begin with a zero digit.  A number is a row  *)
(* of one pair of hexadecimal digits; an address is written with its length *)
(* in front, in exported files without its leading zero bytes; a moniker is *)
(* 32 bytes, in exported files behind a length prefix of one byte.          *)
(***************************************************************************)
EXTENDS Integers, Sequences, FiniteSets, Functions

CONSTANTS
    ZeroLed,          \* the slots of elections whose hexadecimal form begins with 0
    UnknownAddress    \* the address whose slots are looked up for one that is not
                      \* understood: HexToHash makes zero of "Unknown Address"

MaxNumber == 127      \* bound: largest number that is one byte in the state

(* The contract's variables by their slot number. *)
whiteListSlot      == 0
whiteListCountSlot == 1
whiteListArraySlot == 2
nomineeListSlot    == 3
nomineeArraySlot   == 4
monikerListSlot    == 5
evictionListSlot   == 6
evictionArraySlot  == 7

Slot(n)    == <<"slot", n>>          \* variable n, or the length of array n
Elem(n, i) == <<"elem", n, i>>       \* entry i, from 0, of array n
Key(n, a)  == <<"key", n, a>>        \* entry a of mapping n

(* A NomineeElection under address a of mapping n: its fields by offset, the *)
(* entry of a voter in field 4, and entry k of the array in field f.         *)
Field(n, a, f)   == <<"field", n, a, f>>
Vote(n, a, v)    == <<"vote", n, a, v>>
Voter(n, a, f, k) == <<"voter", n, a, f, k>>

\* The map with these rows.
FileOf(rows) ==
    [s \in {r[1] : r \in rows} |-> (CHOOSE r \in rows : r[1] = s)[2]]

\* The value of an address.
AddressValue(a, trimmed) == [address |-> a, trimmed |-> trimmed]

-----------------------------------------------------------------------------
(* GetStorage.  A moniker is a name and its length in bytes.               *)

\* More than 64 bytes are cut to 63.  The hexadecimal form of more than 32 does
\* not fit in the 64 digits it is padded to, and the padding panics.
PaddingPanics(moniker) ==
    LET kept == IF moniker.bytes > 64 THEN 63 ELSE moniker.bytes
    IN  2 * kept > 64

\* Mutant: the counter is written in decimal.
hexLength_Decimal(n) == <<n \div 10, n % 10>>

\* A length as a pair of hexadecimal digits.
hexLength(n) == <<n \div 16, n % 16>>

GetStorage(peers) ==
    FileOf({<<Slot(whiteListCountSlot), hexLength(Len(peers))>>,
            <<Slot(whiteListArraySlot), hexLength(Len(peers))>>}
      \cup {<<Elem(whiteListArraySlot, i - 1), AddressValue(peers[i].address, FALSE)>> :
               i \in DOMAIN peers}
      \cup {<<Key(whiteListSlot, peers[i].address), AddressValue(peers[i].address, FALSE)>> :
               i \in DOMAIN peers}
      \cup {<<Key(monikerListSlot, peers[i].address),
              [moniker |-> peers[i].moniker, prefixed |-> FALSE]>> : i \in DOMAIN peers})

-----------------------------------------------------------------------------
(* parseGenesis.                                                           *)

\* strconv.Atoi on a pair of hexadecimal digits: their decimal reading, and 0
\* when one of them is a letter.
Atoi(pair) ==
    IF pair[1] > 9 \/ pair[2] > 9 THEN 0 ELSE 10 * pair[1] + pair[2]

\* The number in a slot; a slot without a row counts as 0.
Number(file, s) == IF s \in DOMAIN file THEN Atoi(file[s]) ELSE 0

WhiteListCount(file) == Number(file, Slot(whiteListCountSlot))

\* whitelistCount and the length of whiteListArray differ.
Refused(file) == WhiteListCount(file) # Number(file, Slot(whiteListArraySlot))

\* The address in a value: only one of full length is understood.
parseAddress(value) == IF value.trimmed THEN UnknownAddress ELSE value.address

\* The entries of array n that are looked up, those without a row included.
Entries(file, n) == {Elem(n, i) : i \in 0 .. Number(file, Slot(n)) - 1}

\* The addresses found in array n.
Listed(file, n) == {parseAddress(file[s]) : s \in Entries(file, n) \cap DOMAIN file}

\* addressMap: the addresses whose mappings are looked up.
Known(file) ==
    UNION {Listed(file, n) : n \in {whiteListArraySlot, nomineeArraySlot, evictionArraySlot}}

\* The row of a whitelisted address without a moniker is described with the
\* moniker's row, which is nil.
NilMoniker(file) ==
    \E a \in Listed(file, whiteListArraySlot) : Key(monikerListSlot, a) \notin DOMAIN file

\* Text(16) of the number of a slot has no leading zeros, and a row under its 64
\* digits is not found by it.
Text16(slots) == slots \ ZeroLed

\* The slots of election a of mapping n that are looked up: by Text(16), but for
\* the election's own and those of the votes.  The voters of an array are looked
\* up if its length is found.
ElectionSlots(file, n, a) ==
    LET fields == Text16({Field(n, a, f) : f \in {1, 2, 3, 5, 6}})
        arrays == {f \in {5, 6} : Field(n, a, f) \in fields}
        voters(f) == {Voter(n, a, f, k) : k \in 0 .. Number(file, Field(n, a, f)) - 1}
    IN  {Key(n, a)} \cup {Vote(n, a, v) : v \in Known(file)}
          \cup fields \cup Text16(UNION {voters(f) : f \in arrays})

\* Mutant: the eviction elections are not looked up.
Elections_NomineesOnly == {nomineeListSlot}

\* The mappings of elections that are looked up.
Elections == {nomineeListSlot, evictionListSlot}

\* The rows parse can explain.
Explained(file) ==
    DOMAIN file \cap
      ({Slot(n) : n \in {whiteListCountSlot, whiteListArraySlot,
                         nomineeArraySlot, evictionArraySlot}}
         \cup (UNION {Entries(file, n) :
                         n \in {whiteListArraySlot, nomineeArraySlot, evictionArraySlot}})
         \cup {Key(n, a) : n \in {whiteListSlot, monikerListSlot}, a \in Known(file)}
         \cup (UNION {ElectionSlots(file, n, a) : n \in Elections, a \in Known(file)}))

\* The peer list parse extracts: the address in each entry, with its moniker,
\* from which a byte is taken for the length prefix whether it is there or not.
ParsedPeer(file, i) ==
    LET s == Elem(whiteListArraySlot, i - 1)
        a == parseAddress(file[s])
        m == file[Key(monikerListSlot, a)]
    IN  IF s \notin DOMAIN file THEN [set |-> FALSE]
        ELSE [set |-> TRUE, address |-> a, moniker |-> m.moniker, whole |-> m.prefixed]

\* Mutant: one entry too many is read.
ParsedPeers_OneMore(file) == [i \in 1 .. WhiteListCount(file) + 1 |-> ParsedPeer(file, i)]

ParsedPeers(file) == [i \in 1 .. WhiteListCount(file) |-> ParsedPeer(file, i)]
=============================================================================
