---------------------------- MODULE Transactions ----------------------------
(***************************************************************************)
(* "giverny transactions": generate draws random transfers between the      *)
(* accounts of a network and writes a file per account, one for the faucet, *)
(* one with all transfers and one with the balances to expect; solo does it *)
(* for accounts named on the command line, numbers the transactions and     *)
(* writes one file.  The tools of e2e replay solo's file against a network: *)
(* the faucet's transactions first, then those of the accounts, signed      *)
(* beforehand and sent side by side.  Nothing in the repository replays the *)
(* files of generate.                                                       *)
(*                                                                          *)
(* Random numbers are choices.  Amounts are small numbers, and gas is free. *)
(***************************************************************************)
EXTENDS Files
LOCAL INSTANCE FiniteSetsExt

CONSTANTS
    Accounts,          \* the accounts, in the order of network.toml or --accounts
    Amounts,           \* the amounts of a transfer
    TotalTransactions, \* --count
    SurplusCredit,     \* --surplus
    MaxRuns,           \* bound: commands run
    MaxFaults          \* bound: renames, writes and requests that fail

Account == {Accounts[i] : i \in DOMAIN Accounts}

\* The files of generate that are not an account's.
Reserved == {"faucet", "trans", "delta"}

\* A transaction in the file of an account, and what such a file has.
Transaction == [to : Account, amount : Nat, nonce : Nat]
AccountFile == {"account"} \X Account \X Seq(Transaction)

ASSUME AccountsAssumption ==
    /\ Accounts \in Seq(Account) /\ NoFile \notin AccountFile
    /\ \A i, j \in DOMAIN Accounts : Accounts[i] = Accounts[j] => i = j
    /\ Amounts \subseteq Nat \ {0} /\ SurplusCredit \in Nat /\ TotalTransactions \in Nat
    /\ {MaxRuns, MaxFaults} \subseteq Nat

VARIABLES
    phase,           \* where the command or the replay is
    mode,            \* "generate", "random" (solo) or "round-robin" (solo)
    fulltrans,       \* the transfers drawn
    nodeTrans,       \* nodeTrans[a]: those of account a
    credits, debits,
    faucettrans,     \* what the faucet gives to the accounts
    dirExists,       \* whether the directory of generate is there
    transDir,        \* transDir[f]: the file f.json in it
    saved,           \* the contents of its files moved aside under .~n~
    outputfile,      \* the file of solo
    backups,         \* backups[n]: the contents in the backup of transDir with suffix n
    next,            \* the number of the file to write
    missed,          \* history: a write or a backup failed, and the error was dropped
    runs, faults,
    balance,         \* the chain's balances
    pre,             \* the replay: the balances after the faucet's transactions,
    sent, taken      \* and how many transactions of each account are sent, and take effect

plan  == <<mode, fulltrans, nodeTrans, credits, debits, faucettrans>>
disk  == <<dirExists, transDir, saved, outputfile, backups>>
chain == <<balance, pre, sent, taken>>
tvars == <<phase, plan, disk, next, missed, runs, faults, chain>>

NoFiles == [f \in Account \cup Reserved |-> NoFile]
Zero    == [a \in Account |-> 0]

\* A step that may fail.
Fault(err) == faults' = faults + (IF err THEN 1 ELSE 0) /\ faults' <= MaxFaults

\* A command starts with nothing drawn.
Begin(m) ==
    /\ phase \in {"idle", "written"} /\ runs < MaxRuns /\ runs' = runs + 1
    /\ mode' = m /\ next' = 1 /\ missed' = FALSE
    /\ fulltrans' = <<>> /\ faucettrans' = <<>>
    /\ nodeTrans' = [a \in Account |-> <<>>]
    /\ credits' = Zero /\ debits' = Zero
    /\ UNCHANGED chain

-----------------------------------------------------------------------------
(* generate: the plan.                                                     *)

\* What is in the directory of the transactions.
Contents == ({transDir[f] : f \in DOMAIN transDir} \ {NoFile}) \cup saved

\* Mutant: the directory of an earlier run is emptied.
SafeRename_Empties == UNCHANGED backups

\* The directory of an earlier run, even an empty one, is renamed to the first
\* suffix that is free.
SafeRename ==
    IF ~dirExists THEN UNCHANGED backups
    ELSE \E n \in FreeSuffixes(DOMAIN backups) :
            /\ \A i \in FreeSuffixes(DOMAIN backups) : n <= i
            /\ backups' = [i \in DOMAIN backups \cup {n} |-> IF i = n THEN Contents ELSE backups[i]]

\* Without a free suffix, or if the rename fails, the command ends.
RenameFails ==
    /\ dirExists
    /\ \/ FreeSuffixes(DOMAIN backups) = {} /\ Fault(FALSE)
       \/ Fault(TRUE)
    /\ phase' = "idle" /\ UNCHANGED disk

\* Otherwise the directory is made anew.  It stays empty if network.toml cannot
\* be used: it does not parse, or it has no faucet or fewer than two accounts, or
\* no nodes, for which the draw of one panics.
DirectoryMade(usable) ==
    /\ SafeRename
    /\ transDir' = NoFiles /\ saved' = {} /\ UNCHANGED outputfile
    /\ dirExists' \in BOOLEAN /\ Fault(~dirExists')
    /\ phase' = IF dirExists' /\ usable /\ Len(Accounts) >= 2 THEN "draw" ELSE "idle"

generateTransactions(usable) ==
    /\ Begin("generate")
    /\ RenameFails \/ DirectoryMade(usable)

\* Mutant: the debit is booked on the receiver.
transfer_Debits(from, to, amt) ==
    /\ phase = "draw" /\ Len(fulltrans) < TotalTransactions
    /\ from # to
    /\ fulltrans' = Append(fulltrans, [from |-> from, to |-> to, amount |-> amt])
    /\ nodeTrans' = [nodeTrans EXCEPT ![from] =
                       Append(@, [to |-> to, amount |-> amt, nonce |-> Len(@) + 1])]
    /\ credits' = [credits EXCEPT ![to] = @ + amt]
    /\ debits'  = [debits EXCEPT ![to] = @ + amt]
    /\ UNCHANGED <<phase, mode, faucettrans, disk, next, missed, runs, faults, chain>>

\* One transfer between two accounts.
transfer(from, to, amt) ==
    /\ phase = "draw" /\ Len(fulltrans) < TotalTransactions
    /\ from # to
    /\ fulltrans' = Append(fulltrans, [from |-> from, to |-> to, amount |-> amt])
    /\ nodeTrans' = [nodeTrans EXCEPT ![from] =
                       Append(@, [to |-> to, amount |-> amt, nonce |-> Len(@) + 1])]
    /\ credits' = [credits EXCEPT ![to] = @ + amt]
    /\ debits'  = [debits EXCEPT ![from] = @ + amt]
    /\ UNCHANGED <<phase, mode, faucettrans, disk, next, missed, runs, faults, chain>>

generateDraw(from, to, amt) == mode = "generate" /\ transfer(from, to, amt)

\* The faucet gives each account the amount of what it will spend and surplus.
faucetGives(surplus) ==
    /\ phase = "draw" /\ Len(fulltrans) = TotalTransactions
    /\ faucettrans' = [i \in DOMAIN Accounts |->
                         [to |-> Accounts[i], amount |-> debits[Accounts[i]] + surplus, nonce |-> i]]
    /\ phase' = "write"
    /\ UNCHANGED <<mode, fulltrans, nodeTrans, credits, debits, disk, next, missed, runs, faults, chain>>

generateFaucet == mode = "generate" /\ faucetGives(SurplusCredit)

\* Mutant: the surplus is not in the total.
deltas_NoSurplus == [a \in Account |-> [faucet |-> debits[a] + SurplusCredit, total |-> credits[a]]]

\* delta.json: what each account gets from the faucet and has in the end.
deltas == [a \in Account |-> [faucet |-> debits[a] + SurplusCredit, total |-> credits[a] + SurplusCredit]]

-----------------------------------------------------------------------------
(* generate: the files, one after the other.                               *)

accountFile(a) == <<"account", a, nodeTrans[a]>>

fileNames == Accounts \o <<"faucet", "trans", "delta">>

content(i) ==
    IF i <= Len(Accounts) THEN accountFile(Accounts[i])
    ELSE <<fileNames[i], CASE fileNames[i] = "faucet" -> faucettrans
                           [] fileNames[i] = "trans"  -> fulltrans
                           [] fileNames[i] = "delta"  -> deltas>>

\* An error that is dropped.
Miss(err) == missed' = (missed \/ err) /\ Fault(err)

\* Mutant: a file that is there is overwritten.
writeFile_Overwrites(f, new) ==
    \E w \in WriteToFile(transDir[f], new, {}) :
        /\ transDir' = [transDir EXCEPT ![f] = w.file]
        /\ Miss(w.err)
        /\ UNCHANGED saved

\* A file that is there, of an account with a reserved name, is moved aside
\* first.  The errors of both steps are dropped.
writeFile(f, new) ==
    \E backup \in {CheckIfExists(transDir[f]), FALSE} :
        \E w \in WriteToFile(IF backup THEN NoFile ELSE transDir[f], new, {}) :
            /\ saved' = IF backup THEN saved \cup {transDir[f]} ELSE saved
            /\ transDir' = [transDir EXCEPT ![f] = w.file]
            /\ Miss(w.err \/ (CheckIfExists(transDir[f]) /\ ~backup))

generateFiles ==
    /\ phase = "write" /\ mode = "generate"
    /\ writeFile(fileNames[next], content(next))
    /\ next' = next + 1
    /\ phase' = IF next = Len(fileNames) THEN "written" ELSE "write"
    /\ UNCHANGED <<plan, dirExists, outputfile, backups, runs, chain>>

-----------------------------------------------------------------------------
(* solo.                                                                   *)

\* An output file that exists is refused.  The tools of e2e name a fresh one.
soloTransactions(roundRobin, fresh) ==
    /\ fresh \/ ~CheckIfExists(outputfile)
    /\ Begin(IF roundRobin THEN "round-robin" ELSE "random")
    /\ phase' = IF Len(Accounts) < 2 THEN "idle" ELSE "draw"
    /\ outputfile' = NoFile
    /\ UNCHANGED <<dirExists, transDir, saved, backups, faults>>

\* The transactions of an account have the nonces 1, 2, ...
soloDraw(from, to, amt) ==
    /\ mode # "generate"
    /\ mode = "round-robin" => from = Accounts[(Len(fulltrans) % Len(Accounts)) + 1]
    /\ transfer(from, to, amt)

\* The surplus is not given.
soloFaucet == mode # "generate" /\ faucetGives(0)

\* Mutant: the difference counts what the faucet gives.
soloDelta_Given == credits

\* What the transfers change of the balance of each account.
soloDelta == [a \in Account |-> credits[a] - debits[a]]

soloAccounts == [trans |-> nodeTrans, credits |-> credits, debits |-> debits, delta |-> soloDelta,
                 faucet |-> faucettrans]

\* The error of writing is dropped.
soloFile ==
    /\ phase = "write" /\ mode # "generate"
    /\ \E w \in WriteToFile(outputfile, soloAccounts, {}) : outputfile' = w.file /\ Miss(w.err)
    /\ phase' = "written"
    /\ UNCHANGED <<plan, dirExists, transDir, saved, backups, next, runs, chain>>

-----------------------------------------------------------------------------
(* The replay of solo's file, which is read anew by each step.             *)

faucetAmount(a) ==
    outputfile.faucet[CHOOSE i \in DOMAIN outputfile.faucet : outputfile.faucet[i].to = a].amount

\* The faucet's transactions are sent, any of which may fail, and the balances
\* noted.  Without a file that can be read there are none, and the tools end.
processFaucet ==
    /\ phase = "written" /\ mode # "generate" /\ outputfile \notin {NoFile, Bad}
    /\ \E arrived \in SUBSET Account :
          balance' = [a \in Account |-> balance[a] + (IF a \in arrived THEN faucetAmount(a) ELSE 0)]
    /\ pre' = balance'
    /\ phase' = "funded"
    /\ UNCHANGED <<plan, disk, next, missed, runs, faults, sent, taken>>

\* Then the transactions of the accounts are signed, with nonces that follow each
\* account's last.  An account that has less than it will spend ends the replay.
processAccounts ==
    /\ phase = "funded"
    /\ phase' = IF \A a \in Account : outputfile.debits[a] <= balance[a] THEN "replay" ELSE "idle"
    /\ sent' = Zero /\ taken' = Zero
    /\ UNCHANGED <<plan, disk, next, missed, runs, faults, balance, pre>>

\* The next transaction of an account is sent.  It takes effect if it arrives, is
\* the next by its nonce and is covered; if not, the tools go on with those behind.
runTrans(a, arrives) ==
    /\ phase = "replay" /\ sent[a] < Len(outputfile.trans[a])
    /\ LET t == outputfile.trans[a][sent[a] + 1]
       IN  IF arrives /\ t.nonce = taken[a] + 1 /\ t.amount <= balance[a]
           THEN /\ balance' = [balance EXCEPT ![a] = @ - t.amount, ![t.to] = @ + t.amount]
                /\ taken' = [taken EXCEPT ![a] = @ + 1]
           ELSE UNCHANGED <<balance, taken>>
    /\ sent' = [sent EXCEPT ![a] = @ + 1]
    /\ Fault(~arrives)
    /\ UNCHANGED <<phase, plan, disk, next, missed, runs, pre>>

Replayed(done) == \A a \in Account : done[a] = Len(outputfile.trans[a])

\* When all are sent, the balances are compared with those noted.
checkTotals ==
    /\ phase = "replay" /\ Replayed(sent)
    /\ phase' = "idle" /\ pre' = Zero /\ sent' = Zero /\ taken' = Zero
    /\ UNCHANGED <<plan, disk, next, missed, runs, faults, balance>>

-----------------------------------------------------------------------------
Init ==
    /\ phase = "idle" /\ mode = "generate"
    /\ fulltrans = <<>> /\ faucettrans = <<>> /\ nodeTrans = [a \in Account |-> <<>>]
    /\ credits = Zero /\ debits = Zero
    /\ dirExists = FALSE /\ transDir = NoFiles /\ saved = {} /\ outputfile = NoFile
    /\ \E k \in 0 .. MaxLoops - 1 : backups = [n \in 1 .. k |-> {}]   \* of earlier runs
    /\ next = 1 /\ missed = FALSE /\ runs = 0 /\ faults = 0
    /\ balance = Zero /\ pre = Zero /\ sent = Zero /\ taken = Zero

Next ==
    \/ \E usable \in BOOLEAN : generateTransactions(usable)
    \/ \E roundRobin, fresh \in BOOLEAN : soloTransactions(roundRobin, fresh)
    \/ \E from, to \in Account, amt \in Amounts :
          generateDraw(from, to, amt) \/ soloDraw(from, to, amt)
    \/ generateFaucet \/ soloFaucet
    \/ generateFiles \/ soloFile
    \/ processFaucet \/ processAccounts
    \/ \E a \in Account, arrives \in BOOLEAN : runTrans(a, arrives)
    \/ checkTotals

Spec == Init /\ [][Next]_tvars

-----------------------------------------------------------------------------
(* Properties.                                                             *)

\* Whatever transfers are drawn, whichever of the faucet's transactions arrive and
\* in whatever order the accounts' are sent, no account is ever short of its next
\* transaction: the faucet gives what is spent (solo.go:187), and an account that
\* has less is found before any transaction is sent (index.js:116).
NeverOverdrawn ==
    phase = "replay" =>
        \A a \in Account : taken[a] < Len(outputfile.trans[a]) =>
            outputfile.trans[a][taken[a] + 1].amount <= balance[a]

\* When all transactions of solo's file have taken effect, each balance has
\* changed, since the faucet's, by the Delta of the account in the file: the test
\* of index.js:236 does not fail on a network that has lost nothing, even if the
\* accounts had been used before.
DeltasRight ==
    phase = "replay" /\ Replayed(taken) =>
        \A a \in Account : balance[a] - pre[a] = outputfile.delta[a]

\* What generate has written agrees: an account that gets what faucet.json gives it
\* and takes part in the transfers of trans.json has the total of delta.json in
\* the end, also if an account has the name of one of these files (generate.go:247).
DeltaFileRight ==
    phase = "written" /\ mode = "generate" /\ ~missed =>
        LET gifts == transDir["faucet"][2]
            trans == transDir["trans"][2]
            given(a)    == MapThenSumSet(LAMBDA i : gifts[i].amount, {i \in DOMAIN gifts : gifts[i].to = a})
            received(a) == MapThenSumSet(LAMBDA i : trans[i].amount, {i \in DOMAIN trans : trans[i].to = a})
            spent(a)    == MapThenSumSet(LAMBDA i : trans[i].amount, {i \in DOMAIN trans : trans[i].from = a})
        IN  \A a \in Account : transDir["delta"][2][a].total = given(a) + received(a) - spent(a)

\* When generate ends and nothing was missed, the transfers of every account are
\* in the directory: in its own file or, if an account is called faucet, trans or
\* delta, in the file moved aside for it (generate.go:255, files.go:56).
TransfersWritten ==
    phase = "written" /\ mode = "generate" /\ ~missed =>
        /\ \A a \in Account \ Reserved : transDir[a] = accountFile(a)
        /\ \A a \in Account : accountFile(a) \in Contents

\* No run of generate loses what an earlier one, or itself, has written: a file
\* stays in the directory, under its name or moved aside, or in a backup of the
\* directory, and a backup stays as it is.  A file is lost only where its own
\* backup fails and the error is dropped (files.go:56); when the directory cannot
\* be moved aside the command ends (generate.go:73).
EarlierKept ==
    [][/\ \A c \in Contents :
             missed' \/ c \in Contents' \/ \E n \in DOMAIN backups' : c \in backups'[n]
       /\ \A n \in DOMAIN backups : n \in DOMAIN backups' /\ backups'[n] = backups[n]
      ]_tvars
=============================================================================
