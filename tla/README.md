# TLA+ development for monetd

monetd (rebranded Botcoin in this repository) is a validator daemon. It joins
three parts: Babble, a library, orders transactions into blocks and keeps the
set of validators; EVM-Lite, a library, executes the transactions; a
Proof-of-Authority contract in the EVM's state decides which peers may
validate. `giverny`, in the same repository, creates, operates and inspects
networks. Paths below are relative to the repository; `PROJECT.json` gives the
source lines of every definition.

## 1. Inventory

| Component | State | Operations | Interacts with |
|---|---|---|---|
| POA contract, `poa/poa.sol` | whitelist (mapping, counter, array), nominee and eviction elections with their voters, monikers | `init`, `submitNominee`, `submitEviction`, `castNomineeVote`, `castEvictionVote`, getters | called by the transactions of a block and by the proxy's `CheckAuthorised` |
| Babble proxy, `src/babble` | the block being committed; the EVM state it writes to | `CommitBlock`: coinbase, transactions, commit, join receipts, eviction receipts | Babble calls it; it calls the EVM state, the contract and Babble's `GetValidatorSet` |
| Genesis files, `src/genesis`, `cmd/giverny/commands/network/build.go` | `peers.json`, `peers.genesis.json`, `genesis.json` | `buildNetwork`, `GenerateGenesisJSON`, `GetStorage` | read by Babble and EVM-Lite when a chain starts |
| `giverny parse` | none | reads the contract's storage in a genesis file | files written by giverny or exported by EVM-Lite |
| File helpers, `src/files` | the configuration tree | write with prompt or backup, download, copy, rename | used by every command |
| Keys, `src/crypto`, `src/keystore`, `cmd/*/keys` | encrypted keyfiles | new, update, inspect, import, generate | configuration and network commands |
| Configuration, `cmd/monetd/commands/config` | a node's private key, peers, genesis and TOML files | build, pull, clear | files, keys, genesis, HTTP |
| Networks, `cmd/giverny/commands/network`, `src/docker` | network directories, Docker networks and containers | new, build, start, push, stop, aws | genesis, keys, files, the Docker daemon |
| Transactions, `cmd/giverny/commands/transactions` | generated transfers and expected balances, their files and backups | generate, solo | networks |
| End-to-end tools, `e2e/tools` | balances noted before a replay | fund, sign, send, check totals | `solo`, whose file they replay against a network |

**What makes each correct, and what makes it hard.**

* *Contract.* Three representations of the whitelist and two of each list of
  elections must agree; one election is decided by numbers other elections
  change; `delete` leaves a mapping inside a struct alone; address(0) marks
  absence and is also a legal argument. Long legal sequences of transactions by
  several accounts are needed to reach trouble.
* *Proxy and validator-set.* The whitelist changes at once, the validator-set
  rounds later. A peer may be voted in, start to join and be voted out while
  its receipt is on its way; queries and commits may fail in between. Nobody may
  enter unauthorised, and who is voted out must leave in the end.
* *Genesis files and parse.* Babble and the contract start from different files
  that one command writes one after the other and that a failure may leave half
  written. Counts are hexadecimal strings.
* *Commands.* Each is a sequence of file, network or Docker calls; stopping
  between two of them, running the command again afterwards, or running another
  one in a second shell is what a test hardly covers. Several errors are dropped
  on the way. What counts is that no key and no generated file is lost, that a
  node never starts between two networks, that nodes that run together started
  from the same files, and that a command that reports success has done its work.
  Where an error is dropped the last of these cannot hold, and the properties
  say which failures they except (section 4).
* *Transactions.* A replay must be covered and end in the balances the files say,
  for every order in which the accounts' transactions are sent.

`PROJECT.json` lists the hazards at their lines, with the properties that would
catch them, or a note where none does.

## 2. Plan

Done, in the order they were built: `POA`, `Governance`, `POA_proofs`;
`InmemProxy`, `InmemProxy_proofs`; `Node`, `Node_proofs`; `PoaStorage`,
`GenesisFile`, `ExportedFile`; `Files`, `Keystore`, `ConfigFiles`,
`ConfigFiles_proofs`; `DockerNetwork`; `Transactions`; then the proofs of the
contract's arrays, events and monikers, of `OnlyUnauthorisedEvicted`, and
`DockerNetwork_proofs`, `Transactions_proofs`, `GenesisFile_proofs`,
`ExportedFile_proofs`.

Every invariant and every action property of a passing run is a theorem, two of
them (`UnexplainedIsStaleOrLost`, `NilIfNoMonikerFound`) while each exported list
has at most nine entries. Not proved are the liveness property `EvictedLeave` and
`DeltaFileRight`, which speaks of sums (section 5).

To do:

1. Composition: what is proved of the proxy, restated for a node (the proxy's
   properties under `Node`'s mapping), as theorems beside `NodeImplementsProxy`.
2. `validators` keeps the order of `network.toml`: the lemmas in
   `GenesisFile_proofs` say which nodes become peers, not yet in which order.

## 3. Modules

| Module | Models | Composes |
|---|---|---|
| `POA` | the contract: one action per public function, private functions as operators on the storage they change | |
| `Governance` | what the contract promises: members, open elections and who said yes | refined by `POA` |
| `InmemProxy` | `CommitBlock` split where it calls out, and Babble's validator-sets | |
| `Node` | the contract inside the proxy | `POA`, `InmemProxy` |
| `PoaStorage` | the rows of a genesis file's storage section, as `GetStorage` writes and `parse` reads them | |
| `GenesisFile` | `giverny network build` and `giverny parse` on the files of a network | `PoaStorage` |
| `ExportedFile` | `giverny parse` on the export of a running contract | `POA`, `PoaStorage` |
| `Files` | the file helpers of `src/files`, each as the set of its outcomes | |
| `Keystore` | key commands in several shells | `Files` |
| `ConfigFiles` | `monetd config build`, `pull`, `clear` and the start of a node, beside the key commands | `Keystore` |
| `DockerNetwork` | `giverny network new`, `build`, `start`, `push`, `stop`, `aws` on a Docker daemon | `Files` |
| `Transactions` | `giverny transactions generate` and `solo`, and the replay of solo's file by `e2e/tools` | `Files` |
| `MC*` | small instances | the module they are named after |
| `*_proofs` | theorems | the module they are named after |

**POA.** Each variable is a storage slot, in slot order; `receipt` is what a
transaction leaves outside storage (status, return values, events). An address
maps to itself or `Zero`, as the structs' `person` and `nominee` fields do. The
vote mapping of an election is the set of its voters. `flags`, `accept` and
`proposer` are left out: no function decides anything by them (`ExportedFile`
brings `accept` and `proposer` back, because a file shows them). A guard that fails in a modifier
reverts: storage is unchanged, there are no events. `Init` is the storage
`GetStorage` writes for the founders. A uint wraps at `MaxUint`.

**InmemProxy.** `pc` says where `CommitBlock` is: a block arrives and its
coinbase is looked up (`BeginBlock`, or `CoinbaseFails`), its transactions are
applied one by one (`ApplyTransaction`), the state is committed and both kinds
of receipts are computed (`CommitBlock`, or `CommitFails`), and Babble processes
them (`ProcessReceipts`). `peerSets` is Babble's view: the validators of the
last block's round and of each of the `Delay` rounds after it. Babble is
external: the module assumes that rounds increase, that `GetValidatorSet`
answers for the block's round, and that the accepted receipts of a block hold
`Delay` rounds later (Babble uses 6). `Faults` lets the calls into EVM-Lite and
Babble fail, for any set of peers.

**Node.** `CheckAuthorised` is the contract's `checkAuthorised`; a transaction
is any call of the contract while a block is applied.

**PoaStorage, GenesisFile, ExportedFile.** A storage section is a function from
slots to values; Keccak is taken to be collision-free. What begins with zeros is
kept apart, because `giverny parse` drops leading zeros in one place and meets
dropped ones in another: `ZeroLed` are the slots of elections whose hexadecimal
form begins with 0, which are looked up by `Text(16)` and not found (`Text16`,
`parse.go:419` to `525`); `ShortAddress` are the addresses whose first byte is
zero, which the export's RLP encoding trims (`RLP`) and `parseAddress` reads as
"Unknown Address", whose slots are those of address(0). Files that giverny writes
hold addresses of full length. The nodes of a network come from its options or
from a names file, whose lines may say who validates and who does not run
(`createNodes`, `generateKeys`, `NodeList`). Numbers are pairs of hexadecimal
digits, so that reading them in base 10 is visible. A build writes three files in
order; each write may fail, leaving the file as it was or truncated, and the
failure to write `genesis.json` goes unnoticed. `ExportedFile` builds the file
EVM-Lite exports (external: every slot that is not zero) from a reachable state
of the contract, the `accept` flags of past votes included, which closing an
election does not clear.

**Files.** A file is its content, `NoFile` or `Bad`; `Bad` is what no reader
accepts, a file cut short or an error page saved under its name. A write
truncates first, so it may leave the old content, the new one, or `Bad`. A
download does not look at the HTTP status. `SafeRename` tries the suffixes below
`MaxLoops` (100 in the code).

**Keystore.** `command[s]` is what shell `s` is running: every key command looks
at its keyfile, asks for a passphrase, and writes, so it is two actions, and
other shells may act in between. A keyfile is the key in it, since a wrong
passphrase only makes the command fail. `made` and `excused` are history: the
keys ever written, and those lost to the two things nothing protects from, a
write cut short and a write over a file that changed since it was looked at.

**ConfigFiles.** The five files of a configuration; `build` and `pull` read the
keyfile and ask for its passphrase (`Begin`), make the folders
(`CreateMonetConfigFolders`, after whatever other shells did during the prompt),
and are then one action per file, in the order of the code, with the outcomes of
each write, the answers to prompts, and interrupts. A file of a network is the network it is of.
`unsettled` says that the last command to write has not written all it meant
to. Build and pull do not run beside each other; key commands and `clear` run
beside both.

**DockerNetwork.** A command is a sequence of steps (`cmd`), one per call to the
file system or to Docker, each of which may fail (`Call`); commands run one at a
time. Docker is external: containers and networks by name, no second of a name,
no removal of a network in use. `network.toml` is a version with a list of nodes
(`Nodes`); the operator edits it (`editNetwork`) and may add nodes that `new` made
no key for. The chain files are the version they were built from. A node's
exported folder has its chain files and maybe its private key; a container has
what was exported when it was pushed. `aws` writes to a folder that may hold an
earlier export. `settled` is history: the nodes the last complete `start` of a
network exported, none if it failed, missed a copy or found nodes running. Others
use the same daemon (`runForeign`).

**Transactions.** Transfers are drawn one by one, then the files are written one
by one; a directory of an earlier run, even an empty one, is moved aside
(`SafeRename`). Random numbers are choices. Solo's file has for each account its
transactions, credits, debits and Delta (`soloAccounts`). The tools of `e2e`
replay it against a chain whose accounts may have been used before: the faucet's
transactions, any of which may fail (`processFaucet`), the check that each account
has what it will spend (`processAccounts`), the sending of the accounts'
transactions side by side, any of which may get lost (`runTrans`), and
`checkTotals`. Nothing in the repository replays the files of `generate`.

## 4. Runs

Each finishes in about two and a half minutes, or less.

| Run | Checks | Shows |
|---|---|---|
| `poa_members` | `TypeOK`, `WhiteListConsistent`, `ElectionsLegal`, `ArraysListElections`, `NoStaleVotes`, `VotesCounted`, `EventsTellWhitelist`, `VoteEventsCount`, `VotesAnswered`, `NeverAlreadyWhitelisted`, `ImplementsGovernance` | whitelist, elections, arrays, events and return values agree through every order of transactions, with several elections open and address(0) among the nominees; the storage implements the membership rules |
| `proxy` | `TypeOK`, `EvictionScheduled`, `JoinersAuthorised`, `OnlyUnauthorisedEvicted`, `EvictedLeave` | the validator-set follows the whitelist, with joins, leaves and evictions in one block and failing calls, and evicted validators leave in the end |
| `node` | `ImplementsProxy` | the contract in the proxy is the set of members `InmemProxy` takes it for |
| `genesis_founders` | `FoundersAgree`, `ParseInventsNothing` | Babble and the contract start from the same founders; parse lists no others |
| `export_stale` | `UnexplainedIsStaleOrLost`, `NilIfNoMonikerFound`, `ElectionsLegal`, `ArraysListElections`, `MonikerSettled` | parse misses of an exported contract only what is stale or what its reading of leading zeros loses, and stops exactly at a member for whom it finds no moniker; the contract under it keeps its records with two evictions open, and the monikers of members and nominees |
| `config` | `TypeOK`, `KeysKept`, `NodeOnOneNetwork` | no order of key commands, builds, pulls and clears loses a key or starts a node between two networks |
| `docker_network` | `TypeOK`, `ExportsAgree`, `NodesAgree`, `NodesHaveKeys`, `StartedNodesRun`, `StopClears` | nodes that run together have the same files and their keys, and a command that reports success has done what it says |
| `transactions` | `NeverOverdrawn`, `DeltasRight`, `DeltaFileRight`, `TransfersWritten`, `EarlierKept` | every replay is covered and ends in the differences solo's file gives; the files of generate agree with each other; no file is lost |

Every property has a mutant, a plausible bug in one definition, under which TLC
finds it violated; mutants stand next to the definitions they change.

**Bounds.** Contract: `poa_members` has three founders, one account more and
address(0), so that elections of one to four voters happen and a vote counted
twice leaves its election open; three entries in the nominee array, so that every
kind of removal (first, middle, last, only) happens and an election is decided
while others are open, and one in that of evictions. `export_stale` has two
entries in each, two founders, one account more, and moniker texts with and without
a name. Only the
length of the arrays is bounded, never the number of transactions. Proxy:
`Delay` 2 (1 in `node`) and `MaxSkip` up to `Delay` let receipts overlap, be
skipped over and meet; two internal transactions let a join and a leave of one
peer meet in one block. Genesis: sizes 1, 3, 9, 10, 16 and 20 are on both sides
of every place where decimal and hexadecimal part; moniker lengths 32, 33 and 65
are the ones at which `GetStorage` changes its behaviour; `MaxNumber` keeps
numbers to one byte, as their encoding in the file assumes. Export: an address
that begins with a zero byte among the founders, and slots that begin with a zero
digit in an eviction and among the voters of a nomination (`MCZeroLed`). `MaxAccepts` bounds
the `accept` flags that past votes leave, at three: the founders admit a third
account and vote on, or one is evicted by two and comes back by the vote of the
other.

Configuration: two shells, monikers and keys, so that one command may disturb
another; one network to pull from beside those that `build` makes; `MaxLoops` 2,
one backup, so that the limit is met; `MaxFaults` 1 (failed calls, prompts
declined, interrupts) beside any number of cut keyfile writes. Docker: one
network, two versions of `network.toml`, with one node and with two, and a moniker
that does not run; a foreign container under the name of a node, one failing call;
the number of commands is not bounded. Transactions: three accounts, one called
`trans`, two transfers of 1 or 2, two commands (`MaxRuns`), one fault, one
backup. The constraint `SecondRun` lets the second command draw amounts of 1
only: what it is there for is to meet the files of the first.

**Views and symmetry.** `storage` (with the proxy's state, or the accept flags,
where they exist) is the view of the contract runs: no step reads `receipt`, and
a property that speaks of `receipt'` is checked on every step TLC generates.
Founders are interchangeable, as are the other accounts: `Init` starts from
every order of the genesis array. Symmetry is not used where liveness is checked.

**Deadlock** is checked except where the chain may stop: without validators
Babble makes no more blocks. `transactions` ends when its
commands are used up.

**Fairness** (`proxy`). Blocks keep coming while the round has
validators, as Babble produces them; every `CommitBlock` that starts ends, since
it is a loop over a finite block; a scan of the validators that fails in some
blocks does not fail in all of them (strong fairness of a commit without scan
errors). Nothing is assumed of transactions or of joining peers. That blocks keep
coming lets empty ones come, while Babble makes a block only when there is
something to commit: `EvictedLeave` says that whoever is off the whitelist is gone
after enough blocks, not that blocks are made for it.

### Where the code and its documentation part

| Run | Property | What happens |
|---|---|---|
| `poa_eviction_no_votes` | `EvictionNoVotesToDate` | `EvictionVoteCast` reports the no votes of a nomination of the address (`poa.sol:334`), that is 0, where its comment (`poa.sol:59`) speaks of the no votes cast to date |
| `poa_admission_unanimous` | `AdmissionUnanimous` | a vote of a member evicted since counts in the place of a member's who has not voted |
| `genesis_parse_lists_peers` | `ParseListsPeers` | the hexadecimal number of peers is read as decimal: ten peers are read as none |
| `docker_stop_only_network` | `StopsOnlyItsNetwork` | `stop` stops, and with `--remove` deletes, every container of the daemon (`stop.go:31`), where `docs/giverny.rst:282` speaks of a network and the nodes within it |

`Governance` states the rule the code follows in the second case: a vote goes on
counting while the election is open, and membership changes only when a vote is
cast. By the same rule an election stays open when the only member who has not
voted is evicted: everyone left has said yes, and nobody left may vote again.
More places where the code is surprising are stated as what it does, or as an
exception of a property:

* Anybody may nominate: the modifier of `submitNominee` is commented out
  (`poa.sol:207`), where `docs/poa_overview.rst:38` speaks of someone already on
  the whitelist.
* `ArraysListElections` excepts address(0), which anybody may nominate any
  number of times and which nobody can remove.
* `UnexplainedIsStaleOrLost` says which rows of an export `giverny parse` leaves
  unexplained. Rows of an open election are among them when a slot begins with a
  zero digit, since `Text(16)` drops it (`parse.go:419` to `517`), or when an
  address begins with a zero byte, which makes it an "Unknown Address"
  (`parse.go:583`).
* `NilIfNoMonikerFound`: parse dereferences nil (`parse.go:180`) exactly when a
  member has an empty moniker, or has an address it does not understand while
  address(0) was never nominated under a moniker.
* `FoundersAgree` is about builds whose write of `genesis.json` did not fail
  unnoticed (`genesis.go:98`).
* `NodeOnOneNetwork` excepts commands that missed a file. `build` drops the
  errors of three writes and `pull` saves error pages, so such a command may
  report success. `pull` ignores `--address` and leaves the moniker as it was. A
  `monetd.toml` that was cut short may make every command fail (`root.go:87`).
* `KeysKept` excepts cut writes (`keys.go:315`) and stale ones, over a file that
  changed during a prompt (`keys.go:109`). A keyfile that `update` has to create
  anew gets the decimal mode 600 (`keys.go:315`), which its owner cannot read.
* A network whose `new` stopped half-way has a directory, which `new` refuses and
  no other command can use (`new.go:86`). A `network.toml` that does not parse ends
  `start`, `aws` and `generate` without an error (`ParseFails`).
* `ExportsAgree` and `NodesAgree` except an export that missed a copy, whose error
  is dropped (`start.go:221`), and `StartedNodesRun` a push whose listing of
  networks failed (`push.go:101`). A container that a failed push leaves behind is
  in the way of every retry (`push.go:114`).
* `EarlierKept` excepts a file whose own backup fails (`files.go:56`).
* A line of a names file that does not run still takes one of the places of
  `--initial-peers` (`NodeList`).
* `soloFaucet`: `solo` ignores `--surplus`. `generateTransactions` panics on a
  network without nodes (`generate.go:211`). `TransfersWritten`: an account
  called faucet, trans or delta shares a file name with an output, and one is
  moved aside for the other.

## 5. Proofs

All theorems are checked by TLAPS for every value of the constants that meets
the named assumptions, which TLC evaluates on every run:

* `POA`: `Address` is finite and holds `Zero`, founders are not `Zero`, `MaxUint`
  is at least the number of addresses, bounds are natural numbers;
* `InmemProxy`: founders are peers, `Delay` and `MaxSkip` are positive;
* `Keystore`, `ConfigFiles`: a key, a network and a moniker are none of the marks
  for no file and an unreadable one;
* `DockerNetwork`: the nodes of a network are a list of names, and the marks for
  no file and no container are neither;
* `ExportedFile`: "Unknown Address" has the slots of address(0);
* `Transactions`: the accounts are a list without repetition, amounts are positive,
  no file of an account is the mark for none;
* `GenesisFile`: options are integers, the lines of a names file are a list with
  different monikers, and a network has at most `MaxNumber` nodes.

* `POA_proofs`. The inductive invariant is `WhiteListInv`, that is `TypeOK`,
  `WhiteListConsistent` and `ElectionsLegal` together. None is inductive alone:
  that the counter is the number of members needs that an admitted nominee was
  not one (`ElectionsLegal`), which needs that the array and mapping removed the
  same address (`WhiteListConsistent`), and both need types. Lemmas say what a
  push and a swap-with-last removal do to the length, the range and the
  injectivity of an array of any length; each private function has a lemma on
  the part it changes, each transaction one on the invariant. From it follow
  `TypeCorrect`, `WhiteListAlwaysConsistent` and `ElectionsAlwaysLegal`. A second
  invariant, `BallotInv`, inductive relative to the first, gives `NeverStaleVotes`
  and `VotesAlwaysCounted`: a vote clears exactly because the arrays list every
  entry of the mapping. `ArraysAlwaysListElections` is inductive relative to the
  first; its lemmas `ListPush` and `ListRemove` allow address(0) to be in the
  array any number of times. The properties of events come from one lemma on what
  each branch of each transaction logs (`TransactionEvents`), split by the kind of
  event: `EventsAlwaysTellWhitelist`, `NeverAdmitsMember` (from `ElectionsLegal`:
  a nominee is never a member), `VoteEventsAlwaysCount` (from `VotesCounted`),
  `VotesAlwaysAnswered` (the answer is read from the whitelist after the decision,
  which is the decision's because a nominee was not on it and an evictee was) and
  `MonikersStaySettled`.

  `RefinesGovernance`: initial storage maps to the
  initial state of `Governance`, and under both invariants each branch of each
  transaction maps to one of its actions or to a stutter. The invariants are
  needed to turn counters into cardinalities.
* `InmemProxy_proofs`. The inductive invariant `ProxyInv` adds to `TypeOK` and
  `EvictionScheduled` the fact `ResponseRight` about a response Babble has not
  processed yet: the joins it accepts are of members and, without faults, its
  evictions are the validators that are not members. `ProxyTypeCorrect`,
  `EvictionsAlwaysScheduled` and `JoinersAlwaysAuthorised` follow, for any delay.
  `OnlyUnauthorisedAreEvicted` is about the last accepted receipt for a peer; that
  there is a last one is `LastPosition`, from the well-founded order on naturals.
* `Node_proofs`. `NodeImplementsProxy`: a node runs the contract's
  specification, so `WhiteListInvariant` holds in it; from its mapping part a
  transaction changes the membership of one account at most, which is the
  proxy's `ApplyTransaction`.

* `ConfigFiles_proofs`. `ConfigTypeCorrect`, `KeysAlwaysKept` and
  `NodeAlwaysOnOneNetwork`, for any number of shells, keys, networks, backups and
  faults. `KeysKept` needs what a shell saw before its prompt (`SeenRight`: `new`
  saw no file, `update` a key). `NodeOnOneNetwork` needs, for each step of a
  build or a pull, which files are already of its network (`WrittenSoFar`), that
  one of them runs at a time (`OneWriter`), and that files which no command is
  writing are of one network (`Settled`). A `clear` under a running command is
  the delicate case: during the passphrase prompt the folders are made anew, and
  later the directory is gone, so every later write fails and the command does not
  count as complete. Lemmas say what each helper may leave in a
  file; one lemma (`WriterStep`) reduces each file's action to what it wrote.

* `DockerNetwork_proofs`, for any networks, lists of nodes (also lists that name a
  node twice), versions, foreign containers and number of failing calls. The
  invariant `Inv` says, of the command under way, what it has done to the nodes it
  has passed: `new` made their keys (`KeysSoFar`), `start` and `aws` gave them the
  chain files and `start` their keys (`ExportsSoFar`), `start --start-nodes` runs
  them (`RunsSoFar`), `stop --remove` has only what is still on its list
  (`StopsSoFar`), and a push fills the container it has made, which does not run
  (`PushRight`). Of the daemon it says that nothing runs on a network that does not
  exist (`NetworksRight`), and of the nodes of a complete start that they were
  exported with keys and with the same chain files, and run from what was exported
  (`SettledAgrees`). One lemma per action; `TypeCorrect`, `NodesAlwaysHaveKeys`,
  `ExportsAlwaysAgree`, `NodesAlwaysAgree`, `StartedNodesAlwaysRun` and
  `StopAlwaysClears` follow.
* `Transactions_proofs`, for any accounts, amounts and number of transfers. The
  properties speak of sums over sequences, which would need induction over data.
  The invariant `BooksRight` says instead that there are functions for what the
  first j transactions of an account spend and for what an account gets from any
  number of transactions of each of the others; drawing a transfer extends them
  at one argument, and a replay step moves along them, in any order of the
  accounts. With it, `balance + spent = pre + got` throughout the replay, and
  `debits <= pre` from the check before it; `OutputRight` says that the file
  replayed is the one just drawn. Hence `TransactionsNeverOverdraw` and, when all
  transactions have taken effect, `DeltasAlwaysRight`. `FilesSoFar` (what is
  written before the file generate is at) gives `TransfersAlwaysWritten` and, with
  what each write does to the directory (`WriteStep`, `DiskKept`),
  `EarlierAlwaysKept`.
* `GenesisFile_proofs`. Invariant: `peers.json` of a build under way is the peers
  of some network, the second file is its copy, and a genesis file of whatever
  build is the storage of the peers of some network, of those of `peers.json` when
  the build ended well. Lemmas: what `validators` keeps is in the list
  (numbering positions is a bijection), peers with one address are one peer,
  `GetStorage` can be read back row by row, and a hexadecimal number is read by
  the contract as itself and by parse as one that is not larger. Hence
  `FoundersAlwaysAgree` and `ParseNeverInvents`.
* `ExportedFile_proofs`, for any set of short addresses and of slots that begin
  with a zero. No invariant of its own: the contract's (`ContractInv`) hold
  whenever a file is exported. Lemmas give the rows of the file by kind and what
  parse reads in them. Both properties are false from ten entries on, where parse
  misreads a number, so they are proved while each list has at most nine
  (`FewEntries`): `UnexplainedIsAlwaysStaleOrLost`, `NilExactlyIfNoMonikerFound`.
  `SmallNetworksParsed` removes the condition for at most nine accounts and nine
  open nominations, whose lists cannot grow longer: there both hold in every
  state. `NeverListsStrangers` is what holds at any length: parse lists members,
  nominees and evictees, or "Unknown Address" for one of them.

Each inductive invariant was model-checked on the instances of section 4 before
it was proved.

**Only model-checked.** `EvictedLeave`: liveness under fairness, and the ENABLED
in it, are out of the prover's reach. `DeltaFileRight`: it sums what stands in
three files, and a sum over a set of any size needs induction. What `SelectSeq` computes cannot be proved
either (it is recursive), so `validators` is defined by the places of the nodes
it keeps. The four runs that show where code and documentation part are
counterexamples, not theorems.

## 6. Not modelled

Babble's consensus, EVM-Lite's execution and the Docker daemon, which are
libraries and services: they are modelled as the code here uses them. The
compiled contract, which is generated from `poa.sol`. Encryption of keyfiles,
addresses, the balances of a genesis file's alloc section, paths and default
values of the configuration objects, flag parsing, logging and output: they keep
no state that a later step reads. Commands that change nothing: list, inspect,
dump, location, status, whitelist. The getters of the contract change nothing
either, and `addToWhitelist` is never called.

The public key of a join request that cannot be parsed (`inmem_proxy.go:135`),
after which the code would use a nil key: Babble is taken to verify the request's
signature with that key before it is in a block.

Hazards without a property have a note in `PROJECT.json`. Two promise nothing: an
election that only an eviction could have closed stays open, and a query that
fails on one node only gives that node other receipts than its peers
(`inmem_proxy.go:186`): the code neither retries nor compares, so no agreement of
several replicas holds, and there is nothing in this repository to model beyond
the single node of `InmemProxy`. In the others the code loses or mixes up
something when a call fails, and drops the error: the failure is an outcome in
the model, and the property beside it excepts it. They are the write of
`genesis.json` and of monetd's peers files, error pages and interrupts of `pull`,
cut and stale keyfile writes, a file's backup, a half-made network, and the
container of a failed push.
