------------------------- MODULE Transactions_proofs -------------------------
(***************************************************************************)
(* Proofs about module Transactions, for any accounts, amounts, number of   *)
(* transfers and surplus, and any number of writes and requests that fail.  *)
(*                                                                          *)
(* The balances are sums over the transfers.  The proofs do without sums:   *)
(* the invariant says that there are functions spent and got, what the      *)
(* first transactions of an account spend and what an account gets from the *)
(* first transactions of each, which grow by one transaction at a time and  *)
(* end in the debits and credits booked.  A transfer that is drawn extends  *)
(* them by one argument, and the replay moves along them, in any order of   *)
(* the accounts: balance + spent = pre + got.                               *)
(***************************************************************************)
EXTENDS Transactions, SequenceTheorems, TLAPS

File == Account \cup Reserved

PlanType ==
    /\ nodeTrans \in [Account -> Seq(Transaction)]
    /\ credits \in [Account -> Nat] /\ debits \in [Account -> Nat]
ReplayType ==
    /\ balance \in [Account -> Nat] /\ pre \in [Account -> Nat]
    /\ sent \in [Account -> Nat] /\ taken \in [Account -> Nat]
DiskType == DOMAIN transDir = File /\ missed \in BOOLEAN

\* The transactions of an account are numbered.
NoncesRight == \A a \in Account : \A j \in 1 .. Len(nodeTrans[a]) : nodeTrans[a][j].nonce = j

\* How many transactions the accounts have.
Sizes == [a \in Account |-> Len(nodeTrans[a])]

\* One more transaction of account b takes effect.
More(s, b) == [s EXCEPT ![b] = @ + 1]

\* spent[a][j] is what the first j transactions of account a spend, and got[s][a]
\* what account a gets from the first s[b] transactions of each account b: the
\* debits and credits booked are those of all transactions.
Booked(spent, got) ==
    /\ \A a \in Account :
          /\ spent[a][0] = 0 /\ spent[a][Len(nodeTrans[a])] = debits[a]
          /\ \A j \in 1 .. Len(nodeTrans[a]) :
                /\ spent[a][j] = spent[a][j - 1] + nodeTrans[a][j].amount
                /\ spent[a][j] <= debits[a]
    /\ got[Zero] = Zero /\ got[Sizes] = credits
    /\ \A s \in [Account -> Nat], b \in Account :
          s[b] < Len(nodeTrans[b]) =>
              \A a \in Account :
                  got[More(s, b)][a] = got[s][a] + (IF nodeTrans[b][s[b] + 1].to = a
                                                    THEN nodeTrans[b][s[b] + 1].amount ELSE 0)

\* During the replay an account has what it had before and what it got, less what
\* it spent; and it had what it will spend.
BalanceRight(spent, got) ==
    phase = "replay" =>
        \A a \in Account : /\ debits[a] <= pre[a]
                          /\ balance[a] + spent[a][taken[a]] = pre[a] + got[taken][a]

Spent == [Account -> [Nat -> Nat]]
Got   == [[Account -> Nat] -> [Account -> Nat]]
BooksRight == \E spent \in Spent, got \in Got : Booked(spent, got) /\ BalanceRight(spent, got)

\* No account sends more transactions than it has, and at most these take effect.
SentRight == phase = "replay" => \A a \in Account : taken[a] <= sent[a] /\ sent[a] <= Len(nodeTrans[a])

\* The faucet of solo gives what is debited, and the balances are noted after that.
FaucetRight ==
    /\ phase \in {"write", "written"} /\ mode # "generate" =>
          faucettrans = [i \in DOMAIN Accounts |->
                           [to |-> Accounts[i], amount |-> debits[Accounts[i]] + 0, nonce |-> i]]
    /\ phase = "funded" => balance = pre

\* The file of solo that is replayed is the one just written.
OutputRight ==
    /\ phase \in {"draw", "write"} /\ mode # "generate" => outputfile = NoFile
    /\ phase = "written" /\ mode # "generate" => outputfile \in {NoFile, Bad, soloAccounts}
    /\ phase \in {"funded", "replay"} => mode # "generate" /\ outputfile = soloAccounts

\* Account a's transfers are in the directory.
IsWritten(a) == (a \notin Reserved => transDir[a] = accountFile(a)) /\ accountFile(a) \in Contents

\* generate has written the files before the one it is at.
FilesSoFar ==
    mode = "generate" =>
      /\ phase = "draw" => next = 1
      /\ phase = "write" =>
            /\ next \in 1 .. Len(fileNames)
            /\ missed \/ \A i \in DOMAIN Accounts : i < next => IsWritten(Accounts[i])
      /\ phase = "written" => missed \/ \A a \in Account : IsWritten(a)

\* Without its directory generate has no files.
NoDirectory ==
    ~dirExists => /\ transDir = NoFiles /\ saved = {}
                  /\ mode = "generate" => phase \notin {"draw", "write"}

Inv == /\ PlanType /\ NoncesRight /\ ReplayType /\ DiskType /\ BooksRight /\ SentRight
       /\ FaucetRight /\ OutputRight /\ FilesSoFar

-----------------------------------------------------------------------------
(* Files.                                                                  *)

\* The names of the files: those of the accounts, then the reserved ones.
LEMMA FileNames ==
    /\ Len(Accounts) \in Nat /\ DOMAIN Accounts = 1 .. Len(Accounts)
    /\ Len(fileNames) = Len(Accounts) + 3
    /\ \A i \in DOMAIN Accounts : Accounts[i] \in Account /\ fileNames[i] = Accounts[i]
    /\ \A i \in 1 .. Len(fileNames) :
          /\ fileNames[i] \in File
          /\ i > Len(Accounts) => fileNames[i] \in Reserved
<1>1. Accounts \in Seq(Account)
  BY AccountsAssumption
<1>2. Len(Accounts) \in Nat /\ DOMAIN Accounts = 1 .. Len(Accounts)
  BY <1>1
<1> DEFINE r == <<"faucet", "trans", "delta">>
<1>3. /\ r \in Seq(Reserved) /\ Len(r) = 3
      /\ \A i \in 1 .. 3 : r[i] \in Reserved
  BY DEF Reserved
<1> HIDE DEF r
<1>4. /\ Len(Accounts \o r) = Len(Accounts) + 3
      /\ \A i \in 1 .. Len(Accounts) : (Accounts \o r)[i] = Accounts[i]
      /\ \A i \in 1 .. 3 : (Accounts \o r)[Len(Accounts) + i] = r[i]
  <2>1. Accounts \in Seq(File) /\ r \in Seq(File)
    BY <1>1, <1>3 DEF File
  <2>2. /\ Len(Accounts \o r) = Len(Accounts) + Len(r)
        /\ \A i \in 1 .. Len(Accounts) + Len(r) :
              (Accounts \o r)[i] = IF i <= Len(Accounts) THEN Accounts[i] ELSE r[i - Len(Accounts)]
    BY <2>1, ConcatProperties
  <2>3. ASSUME NEW i \in 1 .. 3 PROVE (Accounts \o r)[Len(Accounts) + i] = r[i]
    <3>1. /\ Len(Accounts) + i \in 1 .. Len(Accounts) + 3 /\ ~(Len(Accounts) + i <= Len(Accounts))
          /\ Len(Accounts) + i - Len(Accounts) = i
      BY <1>2
    <3> QED BY <1>3, <2>2, <3>1
  <2>4. \A i \in 1 .. Len(Accounts) : i \in 1 .. Len(Accounts) + 3 /\ i <= Len(Accounts)
    BY <1>2
  <2> QED BY <1>3, <2>2, <2>3, <2>4
<1>5. fileNames = Accounts \o r
  BY DEF fileNames, r
<1>6. \A i \in DOMAIN Accounts : Accounts[i] \in Account
  BY DEF Account
<1>7. ASSUME NEW i \in 1 .. Len(fileNames), i > Len(Accounts)
      PROVE  fileNames[i] \in Reserved
  <2>1. i - Len(Accounts) \in 1 .. 3 /\ i = Len(Accounts) + (i - Len(Accounts))
    BY <1>2, <1>4, <1>5, <1>7
  <2> QED BY <1>3, <1>4, <1>5, <2>1
<1>8. \A i \in 1 .. Len(fileNames) : i \in 1 .. Len(Accounts) \/ i > Len(Accounts)
  BY <1>2, <1>4, <1>5
<1> QED BY <1>2, <1>4, <1>5, <1>6, <1>7, <1>8 DEF File

\* A file is written, or an error is noted: then everything that was in the
\* directory still is, and so is the new file.
LEMMA WriteStep ==
    ASSUME DiskType, NEW f \in File, NEW new, writeFile(f, new)
    PROVE  /\ DiskType'
           /\ missed' \/ ( /\ ~missed /\ transDir' = [transDir EXCEPT ![f] = new]
                           /\ Contents \subseteq Contents' /\ {new} \ {NoFile} \subseteq Contents')
           /\ missed' \/ Contents \subseteq Contents'
<1>1. PICK backup \in {CheckIfExists(transDir[f]), FALSE} :
        \E w \in WriteToFile(IF backup THEN NoFile ELSE transDir[f], new, {}) :
            /\ saved' = IF backup THEN saved \cup {transDir[f]} ELSE saved
            /\ transDir' = [transDir EXCEPT ![f] = w.file]
            /\ Miss(w.err \/ (CheckIfExists(transDir[f]) /\ ~backup))
  BY DEF writeFile
<1>2. PICK w \in WriteToFile(IF backup THEN NoFile ELSE transDir[f], new, {}) :
            /\ saved' = IF backup THEN saved \cup {transDir[f]} ELSE saved
            /\ transDir' = [transDir EXCEPT ![f] = w.file]
            /\ Miss(w.err \/ (CheckIfExists(transDir[f]) /\ ~backup))
  BY <1>1
<1>3. w.err \in BOOLEAN /\ (w.err \/ w.file = new)
  <2>1. w = Outcome(new, FALSE) \/ \E old : w = Outcome(old, TRUE)
    BY DEF WriteToFile, WriteFile, ProcessFileOptions, PromptIfExisting
  <2>2. CASE w = Outcome(new, FALSE)
    BY <2>2 DEF Outcome
  <2>3. CASE \E old : w = Outcome(old, TRUE)
    BY <2>3 DEF Outcome
  <2> QED BY <2>1, <2>2, <2>3
<1>4. DiskType' /\ transDir'[f] = w.file /\ \A g \in File \ {f} : transDir'[g] = transDir[g]
  BY <1>2 DEF DiskType, Miss
<1>5. CASE w.err \/ (CheckIfExists(transDir[f]) /\ ~backup)
  <2>1. missed'
    BY <1>2, <1>5 DEF Miss
  <2> QED BY <1>4, <2>1
<1>6. CASE ~(w.err \/ (CheckIfExists(transDir[f]) /\ ~backup))
  <2>1. missed' = missed
    BY <1>2, <1>6 DEF Miss, DiskType
  <2>2. w.file = new /\ (transDir[f] # NoFile => backup)
    BY <1>3, <1>6 DEF CheckIfExists
  <2>3. transDir[f] = NoFile \/ transDir[f] \in saved'
    BY <1>2, <2>2
  <2>4. saved \subseteq saved'
    BY <1>2
  <2>5. Contents \subseteq Contents'
    BY <1>4, <2>3, <2>4 DEF Contents, DiskType
  <2>6. {new} \ {NoFile} \subseteq Contents'
    BY <1>4, <2>2 DEF Contents, DiskType
  <2> QED BY <1>2, <1>4, <2>1, <2>2, <2>5, <2>6 DEF DiskType
<1> QED BY <1>5, <1>6

-----------------------------------------------------------------------------
(* The books.                                                              *)

\* The plan and the replay are left alone.
LEMMA BooksUnchanged ==
    ASSUME PlanType, NoncesRight, ReplayType, BooksRight,
           UNCHANGED <<mode, nodeTrans, credits, debits, chain>>,
           phase' = "replay" => phase = "replay"
    PROVE  PlanType' /\ NoncesRight' /\ ReplayType' /\ BooksRight'
<1> UNCHANGED <<balance, pre, sent, taken>>
  BY DEF chain
<1>1. PlanType' /\ NoncesRight' /\ ReplayType'
  BY DEF PlanType, NoncesRight, ReplayType
<1>2. PICK spent \in Spent, got \in Got : Booked(spent, got) /\ BalanceRight(spent, got)
  BY DEF BooksRight
<1>3. Sizes' = Sizes
  BY DEF Sizes
<1>4. Booked(spent, got)'
  BY <1>2, <1>3 DEF Booked
<1>5. BalanceRight(spent, got)'
  BY <1>2 DEF BalanceRight
<1> QED BY <1>1, <1>4, <1>5 DEF BooksRight

NothingDrawn == nodeTrans = [a \in Account |-> <<>>] /\ credits = Zero /\ debits = Zero

\* With nothing drawn the books are right.
LEMMA BooksEmpty ==
    NothingDrawn /\ phase # "replay" => PlanType /\ NoncesRight /\ BooksRight
<1> SUFFICES ASSUME nodeTrans = [a \in Account |-> <<>>], credits = Zero, debits = Zero,
                    phase # "replay"
             PROVE  PlanType /\ NoncesRight /\ BooksRight
  BY DEF NothingDrawn
<1> DEFINE spent == [a \in Account |-> [j \in Nat |-> 0]]
           got == [s \in [Account -> Nat] |-> Zero]
<1>1. Zero \in [Account -> Nat] /\ \A a \in Account : Zero[a] = 0
  BY DEF Zero
<1>2. <<>> \in Seq(Transaction) /\ Len(<<>>) = 0
  OBVIOUS
<1>3. \A a \in Account : nodeTrans[a] = <<>> /\ Len(nodeTrans[a]) = 0
  BY <1>2
<1>4. PlanType /\ NoncesRight
  BY <1>1, <1>2, <1>3 DEF PlanType, NoncesRight
<1>5. spent \in Spent /\ got \in Got
  BY <1>1 DEF Spent, Got
<1>6. Sizes = Zero
  BY <1>3 DEF Sizes, Zero
<1>7. /\ \A a \in Account : \A j \in Nat : spent[a][j] = 0
      /\ \A s \in [Account -> Nat] : got[s] = Zero
  OBVIOUS
<1> HIDE DEF spent, got
<1>8. \A a \in Account : /\ spent[a][0] = 0 /\ spent[a][Len(nodeTrans[a])] = debits[a]
                         /\ 1 .. Len(nodeTrans[a]) = {}
  BY <1>1, <1>3, <1>7
<1>9. got[Zero] = Zero /\ got[Sizes] = credits
  BY <1>1, <1>6, <1>7
<1>10. \A s \in [Account -> Nat], b \in Account : ~(s[b] < Len(nodeTrans[b]))
  BY <1>3
<1>11. Booked(spent, got)
  BY <1>8, <1>9, <1>10 DEF Booked
<1> QED BY <1>4, <1>5, <1>11 DEF BooksRight, BalanceRight

\* One more transaction of an account, and what is booked for it.
LEMMA TransactionAdded ==
    ASSUME PlanType, NEW from \in Account, NEW t \in Transaction,
           nodeTrans' = [nodeTrans EXCEPT ![from] = Append(@, t)]
    PROVE  /\ nodeTrans' \in [Account -> Seq(Transaction)]
           /\ Len(nodeTrans[from]) \in Nat
           /\ Len(nodeTrans'[from]) = Len(nodeTrans[from]) + 1
           /\ nodeTrans'[from][Len(nodeTrans[from]) + 1] = t
           /\ \A j \in 1 .. Len(nodeTrans[from]) : nodeTrans'[from][j] = nodeTrans[from][j]
           /\ \A a \in Account \ {from} : nodeTrans'[a] = nodeTrans[a]
<1>1. nodeTrans \in [Account -> Seq(Transaction)] /\ nodeTrans[from] \in Seq(Transaction)
  BY DEF PlanType
<1>2. /\ Append(nodeTrans[from], t) \in Seq(Transaction)
      /\ Len(nodeTrans[from]) \in Nat
      /\ Len(Append(nodeTrans[from], t)) = Len(nodeTrans[from]) + 1
      /\ Append(nodeTrans[from], t)[Len(nodeTrans[from]) + 1] = t
      /\ \A j \in 1 .. Len(nodeTrans[from]) : Append(nodeTrans[from], t)[j] = nodeTrans[from][j]
  BY <1>1, AppendProperties
<1>3. /\ nodeTrans'[from] = Append(nodeTrans[from], t)
      /\ \A a \in Account \ {from} : nodeTrans'[a] = nodeTrans[a]
  BY <1>1
<1> QED BY <1>1, <1>2, <1>3

\* What the accounts spend: the new transaction is behind those of its account.
LEMMA SpentStep ==
    ASSUME PlanType, NEW spent \in Spent, NEW got, Booked(spent, got),
           NEW from \in Account, NEW t \in Transaction,
           nodeTrans' = [nodeTrans EXCEPT ![from] = Append(@, t)],
           debits' = [debits EXCEPT ![from] = @ + t.amount]
    PROVE  \E sp \in Spent : \A a \in Account :
              /\ sp[a][0] = 0 /\ sp[a][Len(nodeTrans'[a])] = debits'[a]
              /\ \A j \in 1 .. Len(nodeTrans'[a]) :
                    /\ sp[a][j] = sp[a][j - 1] + nodeTrans'[a][j].amount
                    /\ sp[a][j] <= debits'[a]
<1> DEFINE L == Len(nodeTrans[from])
           d == debits[from] + t.amount
           row == [spent[from] EXCEPT ![L + 1] = d]
           sp == [spent EXCEPT ![from] = row]
<1>1. /\ L \in Nat /\ Len(nodeTrans'[from]) = L + 1
      /\ nodeTrans'[from][L + 1] = t
      /\ \A j \in 1 .. L : nodeTrans'[from][j] = nodeTrans[from][j]
      /\ \A a \in Account \ {from} : nodeTrans'[a] = nodeTrans[a]
  BY TransactionAdded
<1>2. debits \in [Account -> Nat] /\ debits[from] \in Nat /\ t.amount \in Nat /\ d \in Nat
  BY DEF PlanType, Transaction
<1>3. debits'[from] = d /\ \A a \in Account \ {from} : debits'[a] = debits[a]
  BY <1>2
<1>4. spent[from] \in [Nat -> Nat]
  BY DEF Spent
<1> HIDE DEF d
<1>5. row \in [Nat -> Nat] /\ row[L + 1] = d /\ \A j \in Nat : j <= L => row[j] = spent[from][j]
  <2>1. L + 1 \in Nat /\ \A j \in Nat : j <= L => j # L + 1
    BY <1>1
  <2> HIDE DEF L
  <2> QED BY <1>2, <1>4, <2>1
<1> HIDE DEF row, L
<1>6. sp \in Spent /\ sp[from] = row /\ \A a \in Account \ {from} : sp[a] = spent[a]
  BY <1>5 DEF Spent
<1> HIDE DEF sp
<1>7. /\ spent[from][0] = 0 /\ spent[from][L] = debits[from]
      /\ \A j \in 1 .. L : /\ spent[from][j] = spent[from][j - 1] + nodeTrans[from][j].amount
                           /\ spent[from][j] <= debits[from]
  BY DEF Booked, L
<1>8. row[0] = 0 /\ row[L] = debits[from]
  <2>1. 0 \in Nat /\ 0 <= L /\ L <= L
    BY <1>1
  <2> QED BY <1>1, <1>5, <1>7, <2>1
<1>9. ASSUME NEW j \in 1 .. L + 1
      PROVE  row[j] = row[j - 1] + nodeTrans'[from][j].amount /\ row[j] <= d
  <2>1. CASE j \in 1 .. L
    <3>1. j \in Nat /\ j - 1 \in Nat /\ j <= L /\ j - 1 <= L
      BY <1>1, <2>1
    <3>2. row[j] = spent[from][j] /\ row[j - 1] = spent[from][j - 1] /\ row[j] \in Nat
      BY <1>5, <3>1
    <3>3. row[j] <= debits[from]
      BY <1>7, <2>1, <3>2
    <3>4. row[j] <= d
      BY <1>2, <3>2, <3>3 DEF d
    <3> QED BY <1>1, <1>7, <2>1, <3>2, <3>4
  <2>2. CASE j = L + 1
    <3>1. j - 1 = L
      BY <1>1, <2>2
    <3>2. row[j] = d /\ row[j - 1] = debits[from] /\ nodeTrans'[from][j] = t
      BY <1>1, <1>5, <1>8, <2>2, <3>1
    <3>3. d <= d /\ d = debits[from] + t.amount
      BY <1>2 DEF d
    <3> QED BY <3>2, <3>3
  <2> QED BY <1>1, <2>1, <2>2
<1>10. ASSUME NEW a \in Account
       PROVE  /\ sp[a][0] = 0 /\ sp[a][Len(nodeTrans'[a])] = debits'[a]
              /\ \A j \in 1 .. Len(nodeTrans'[a]) :
                    /\ sp[a][j] = sp[a][j - 1] + nodeTrans'[a][j].amount
                    /\ sp[a][j] <= debits'[a]
  <2>1. CASE a = from
    BY <1>1, <1>3, <1>5, <1>6, <1>8, <1>9, <2>1
  <2>2. CASE a # from
    BY <1>1, <1>3, <1>6, <2>2 DEF Booked
  <2> QED BY <2>1, <2>2
<1> QED BY <1>6, <1>10

\* Of account from, at most L transactions are sent.
Cut(s, from, L) == [s EXCEPT ![from] = IF @ <= L THEN @ ELSE L]

\* What the accounts get: the new transaction is counted when all of its account
\* are.
LEMMA GotStep ==
    ASSUME PlanType, NEW spent, NEW got \in Got, Booked(spent, got),
           NEW from \in Account, NEW t \in Transaction,
           nodeTrans' = [nodeTrans EXCEPT ![from] = Append(@, t)],
           credits' = [credits EXCEPT ![t.to] = @ + t.amount]
    PROVE  \E g \in Got :
              /\ g[Zero] = Zero /\ g[Sizes'] = credits'
              /\ \A s \in [Account -> Nat], b \in Account :
                    s[b] < Len(nodeTrans'[b]) =>
                       \A a \in Account :
                          g[More(s, b)][a] = g[s][a] + (IF nodeTrans'[b][s[b] + 1].to = a
                                                        THEN nodeTrans'[b][s[b] + 1].amount ELSE 0)
<1> DEFINE L == Len(nodeTrans[from])
           V == [Account -> Nat]
           cut(s) == Cut(s, from, L)
           extra(s, a) == IF s[from] > L /\ a = t.to THEN t.amount ELSE 0
           row(s) == [a \in Account |-> got[cut(s)][a] + extra(s, a)]
           g == [s \in V |-> row(s)]
<1>1. /\ L \in Nat /\ Len(nodeTrans'[from]) = L + 1 /\ nodeTrans'[from][L + 1] = t
      /\ \A j \in 1 .. L : nodeTrans'[from][j] = nodeTrans[from][j]
      /\ \A a \in Account \ {from} : nodeTrans'[a] = nodeTrans[a]
      /\ nodeTrans' \in [Account -> Seq(Transaction)] /\ nodeTrans \in [Account -> Seq(Transaction)]
  BY TransactionAdded DEF PlanType
<1>2. t.amount \in Nat /\ t.to \in Account /\ credits \in [Account -> Nat]
  BY DEF Transaction, PlanType
<1> HIDE DEF L
<1>3. ASSUME NEW s \in V
      PROVE  /\ cut(s) \in V /\ (s[from] <= L => cut(s) = s) /\ (s[from] > L => cut(s)[from] = L)
             /\ \A a \in Account \ {from} : cut(s)[a] = s[a]
  <2>1. s[from] \in Nat
    OBVIOUS
  <2>2. CASE s[from] <= L
    BY <2>1, <2>2, <1>1 DEF Cut
  <2>3. CASE s[from] > L
    BY <2>1, <2>3, <1>1 DEF Cut
  <2> QED BY <2>1, <2>2, <2>3, <1>1
<1>4. ASSUME NEW s \in V, NEW a \in Account
      PROVE  got[s][a] \in Nat /\ extra(s, a) \in Nat /\ got[cut(s)][a] \in Nat
  BY <1>2, <1>3 DEF Got
<1>5. g \in Got /\ \A s \in V : \A a \in Account : g[s][a] = got[cut(s)][a] + extra(s, a)
  <2>1. ASSUME NEW s \in V
        PROVE  row(s) \in V /\ \A a \in Account : row(s)[a] = got[cut(s)][a] + extra(s, a)
    BY <1>4
  <2> HIDE DEF row
  <2>2. g \in [V -> V] /\ \A s \in V : g[s] = row(s)
    BY <2>1
  <2> QED BY <2>1, <2>2 DEF Got
<1> HIDE DEF g
<1>6. g[Zero] = Zero
  <2>1. Zero \in V /\ \A a \in Account : Zero[a] = 0
    BY DEF Zero
  <2>2. cut(Zero) = Zero /\ \A a \in Account : extra(Zero, a) = 0
    BY <1>1, <1>3, <2>1
  <2>3. \A a \in Account : g[Zero][a] = 0
    BY <1>5, <2>1, <2>2 DEF Booked
  <2>4. g[Zero] \in V
    BY <1>5, <2>1 DEF Got
  <2> QED BY <2>1, <2>3, <2>4
<1>7. g[Sizes'] = credits'
  <2>1. PICK n : n = Sizes'
    OBVIOUS
  <2>2. /\ Sizes \in V /\ n \in V /\ Sizes[from] = L /\ n[from] = L + 1 /\ L + 1 > L
        /\ \A a \in Account \ {from} : n[a] = Sizes[a]
    BY <1>1, <2>1 DEF Sizes, L
  <2>3. cut(n) = Sizes
    <3>1. cut(n) \in V /\ \A a \in Account : cut(n)[a] = Sizes[a]
      BY <1>3, <2>2
    <3> HIDE DEF cut
    <3> QED BY <2>2, <3>1
  <2>4. /\ credits' \in [Account -> Nat]
        /\ \A a \in Account : credits'[a] = credits[a] + (IF a = t.to THEN t.amount ELSE 0)
    BY <1>2
  <2>5. \A a \in Account : g[n][a] = credits[a] + (IF a = t.to THEN t.amount ELSE 0)
    BY <1>5, <2>2, <2>3 DEF Booked
  <2>6. g[n] \in V
    BY <1>5, <2>2 DEF Got
  <2> QED BY <2>1, <2>4, <2>5, <2>6
<1>8. ASSUME NEW s \in V, NEW b \in Account, s[b] < Len(nodeTrans'[b]), NEW a \in Account
      PROVE  g[More(s, b)][a] = g[s][a] + (IF nodeTrans'[b][s[b] + 1].to = a
                                           THEN nodeTrans'[b][s[b] + 1].amount ELSE 0)
  <2> DEFINE m == More(s, b)
             u == nodeTrans'[b][s[b] + 1]
             inc == IF u.to = a THEN u.amount ELSE 0
  <2> SUFFICES g[m][a] = g[s][a] + inc
    OBVIOUS
  <2>1. m \in V /\ m[b] = s[b] + 1 /\ (\A c \in Account \ {b} : m[c] = s[c]) /\ s[b] \in Nat
    BY DEF More
  <2>2. inc \in Nat
    <3>1. s[b] + 1 \in 1 .. Len(nodeTrans'[b]) /\ nodeTrans'[b] \in Seq(Transaction)
      BY <1>1, <1>8, <2>1
    <3>2. u \in Transaction
      BY <3>1
    <3> QED BY <3>2 DEF Transaction
  <2>3. g[m][a] = got[cut(m)][a] + extra(m, a) /\ g[s][a] = got[cut(s)][a] + extra(s, a)
    BY <1>5, <2>1
  <2>4. /\ got[cut(s)][a] \in Nat /\ got[cut(m)][a] \in Nat /\ got[s][a] \in Nat
        /\ extra(s, a) \in Nat /\ extra(m, a) \in Nat
    BY <1>4, <2>1
  <2>5. CASE b # from
    <3>1. cut(s) \in V /\ cut(s)[b] = s[b]
      BY <1>3, <2>5
    <3>2. cut(m) = More(cut(s), b)
      <4> DEFINE c == cut(s)
      <4>1. More(c, b) \in V /\ More(c, b)[b] = c[b] + 1 /\ \A e \in Account \ {b} : More(c, b)[e] = c[e]
        <5> HIDE DEF c
        <5> QED BY <3>1 DEF More, c
      <4>2. cut(m)[from] = c[from]
        BY <2>1, <2>5 DEF Cut
      <4>3. cut(m) \in V /\ \A e \in Account \ {from} : cut(m)[e] = m[e] /\ c[e] = s[e]
        BY <1>3, <2>1
      <4>4. \A e \in Account : cut(m)[e] = More(c, b)[e]
        BY <2>1, <2>5, <4>1, <4>2, <4>3
      <4> HIDE DEF c, cut, m
      <4> QED BY <4>1, <4>3, <4>4 DEF c
    <3>3. extra(m, a) = extra(s, a)
      BY <2>1, <2>5
    <3>4. got[More(cut(s), b)][a] = got[cut(s)][a] + inc
      <4> DEFINE c == cut(s)
      <4>1. c \in V /\ c[b] = s[b] /\ s[b] < Len(nodeTrans[b]) /\ nodeTrans'[b] = nodeTrans[b]
        BY <1>1, <1>8, <2>5, <3>1
      <4> HIDE DEF c, cut
      <4>2. got[More(c, b)][a] = got[c][a] + (IF nodeTrans[b][c[b] + 1].to = a
                                              THEN nodeTrans[b][c[b] + 1].amount ELSE 0)
        BY <4>1 DEF Booked
      <4> QED BY <4>1, <4>2 DEF c
    <3> HIDE DEF inc, extra, m, cut
    <3> QED BY <2>2, <2>3, <2>4, <3>2, <3>3, <3>4
  <2>6. CASE b = from /\ s[from] < L
    <3>1. s[from] + 1 \in 1 .. L /\ s[from] + 1 <= L /\ s[from] <= L
      BY <1>1, <2>1, <2>6
    <3>2. cut(m) = m /\ cut(s) = s
      BY <1>3, <2>1, <2>6, <3>1
    <3>3. extra(m, a) = 0 /\ extra(s, a) = 0
      BY <1>1, <2>1, <2>6, <3>1
    <3>4. got[m][a] = got[s][a] + inc
      BY <1>1, <2>6, <3>1 DEF Booked, L
    <3> HIDE DEF inc, extra, m, cut
    <3> QED BY <2>2, <2>3, <2>4, <3>2, <3>3, <3>4
  <2>7. CASE b = from /\ s[from] = L
    <3>1. m[from] > L /\ s[from] <= L
      BY <1>1, <2>1, <2>7
    <3>2. cut(s) = s /\ cut(m) = s
      <4>1. cut(m) \in V /\ \A e \in Account : cut(m)[e] = s[e]
        BY <1>3, <2>1, <2>7, <3>1
      <4>2. cut(s) = s
        BY <1>3, <3>1
      <4> HIDE DEF cut, m
      <4> QED BY <4>1, <4>2
    <3>3. extra(s, a) = 0 /\ extra(m, a) = inc
      BY <1>1, <2>1, <2>7, <3>1
    <3> HIDE DEF inc, extra, m, cut
    <3> QED BY <2>2, <2>3, <2>4, <3>2, <3>3
  <2>8. b = from => s[from] < L \/ s[from] = L
    BY <1>1, <1>8, <2>1
  <2> QED BY <2>5, <2>6, <2>7, <2>8
<1> QED BY <1>5, <1>6, <1>7, <1>8

\* One transfer is drawn.
LEMMA TransferStep ==
    ASSUME Inv, NEW from \in Account, NEW to \in Account, NEW amt \in Amounts, transfer(from, to, amt)
    PROVE  Inv'
<1> DEFINE t == [to |-> to, amount |-> amt, nonce |-> Len(nodeTrans[from]) + 1]
<1>1. PlanType /\ NoncesRight /\ ReplayType /\ DiskType /\ BooksRight
  BY DEF Inv
<1>2. /\ t \in Transaction /\ t.to = to /\ t.amount = amt /\ amt \in Nat
      /\ t.nonce = Len(nodeTrans[from]) + 1
  <2>1. nodeTrans[from] \in Seq(Transaction)
    BY <1>1 DEF PlanType
  <2>2. Len(nodeTrans[from]) + 1 \in Nat
    BY <2>1
  <2> QED BY <2>2, AccountsAssumption DEF Transaction
<1>3. /\ nodeTrans' = [nodeTrans EXCEPT ![from] = Append(@, t)]
      /\ credits' = [credits EXCEPT ![t.to] = @ + t.amount]
      /\ debits' = [debits EXCEPT ![from] = @ + t.amount]
      /\ phase = "draw" /\ phase' = "draw" /\ UNCHANGED <<mode, disk, next, missed, chain>>
  BY <1>2 DEF transfer
<1> HIDE DEF t
<1>4. PICK spent \in Spent, got \in Got : Booked(spent, got)
  BY <1>1 DEF BooksRight
<1>5. PICK sp \in Spent : \A a \in Account :
              /\ sp[a][0] = 0 /\ sp[a][Len(nodeTrans'[a])] = debits'[a]
              /\ \A j \in 1 .. Len(nodeTrans'[a]) :
                    /\ sp[a][j] = sp[a][j - 1] + nodeTrans'[a][j].amount
                    /\ sp[a][j] <= debits'[a]
  BY <1>1, <1>2, <1>3, <1>4, SpentStep
<1>6. PICK g \in Got :
              /\ g[Zero] = Zero /\ g[Sizes'] = credits'
              /\ \A s \in [Account -> Nat], b \in Account :
                    s[b] < Len(nodeTrans'[b]) =>
                       \A a \in Account :
                          g[More(s, b)][a] = g[s][a] + (IF nodeTrans'[b][s[b] + 1].to = a
                                                        THEN nodeTrans'[b][s[b] + 1].amount ELSE 0)
  BY <1>1, <1>2, <1>3, <1>4, GotStep
<1>7. Booked(sp, g)'
  BY <1>5, <1>6 DEF Booked, Zero
<1>8. BooksRight'
  BY <1>3, <1>7 DEF BooksRight, BalanceRight
<1>9. PlanType'
  <2>1. nodeTrans' \in [Account -> Seq(Transaction)]
    BY <1>1, <1>2, <1>3, TransactionAdded
  <2>2. credits' \in [Account -> Nat] /\ debits' \in [Account -> Nat]
    BY <1>1, <1>2, <1>3 DEF PlanType
  <2> QED BY <2>1, <2>2 DEF PlanType
<1>10. NoncesRight'
  <2>1. ASSUME NEW a \in Account, NEW j \in 1 .. Len(nodeTrans'[a]) PROVE nodeTrans'[a][j].nonce = j
    <3>1. CASE a = from
      <4>1. /\ Len(nodeTrans[a]) \in Nat /\ Len(nodeTrans'[a]) = Len(nodeTrans[a]) + 1
            /\ nodeTrans'[a][Len(nodeTrans[a]) + 1] = t
            /\ \A i \in 1 .. Len(nodeTrans[a]) : nodeTrans'[a][i] = nodeTrans[a][i]
        BY <1>1, <1>2, <1>3, <3>1, TransactionAdded
      <4>2. j \in 1 .. Len(nodeTrans[a]) \/ j = Len(nodeTrans[a]) + 1
        BY <4>1
      <4> QED BY <1>1, <1>2, <3>1, <4>1, <4>2 DEF NoncesRight
    <3>2. CASE a # from
      <4>1. nodeTrans'[a] = nodeTrans[a]
        BY <1>1, <1>2, <1>3, <3>2, TransactionAdded
      <4> QED BY <1>1, <4>1 DEF NoncesRight
    <3> QED BY <3>1, <3>2
  <2> QED BY <2>1 DEF NoncesRight
<1>11. ReplayType' /\ DiskType'
  BY <1>1, <1>3 DEF ReplayType, DiskType, chain, disk
<1>12. FilesSoFar' /\ OutputRight'
  BY <1>3 DEF Inv, FilesSoFar, OutputRight, disk
<1> QED BY <1>3, <1>8, <1>9, <1>10, <1>11, <1>12 DEF Inv, SentRight, FaucetRight

\* A command begins with nothing drawn.
LEMMA BeginsRight ==
    ASSUME Inv, NEW m, Begin(m), phase' \in {"idle", "draw"}, DOMAIN transDir' = File,
           m # "generate" => outputfile' = NoFile
    PROVE  Inv'
<1>1. /\ nodeTrans' = [a \in Account |-> <<>>] /\ credits' = Zero /\ debits' = Zero
      /\ missed' = FALSE /\ next' = 1 /\ mode' = m /\ UNCHANGED <<balance, pre, sent, taken>>
  BY DEF Begin, chain
<1>2. PlanType' /\ NoncesRight' /\ BooksRight'
  <2>1. (NothingDrawn /\ phase # "replay" => PlanType /\ NoncesRight /\ BooksRight)'
    BY BooksEmpty, PTL
  <2>2. Zero' = Zero
    BY DEF Zero
  <2>3. NothingDrawn'
    BY <1>1, <2>2 DEF NothingDrawn
  <2> QED BY <2>1, <2>3
<1>3. ReplayType' /\ DiskType'
  BY <1>1 DEF Inv, ReplayType, DiskType
<1>4. OutputRight'
  BY <1>1 DEF OutputRight
<1> QED BY <1>1, <1>2, <1>3, <1>4 DEF Inv, SentRight, FaucetRight, FilesSoFar

\* generate begins: an earlier directory is moved aside, or the command ends.
LEMMA GenerateStep ==
    ASSUME Inv, NEW usable, generateTransactions(usable)
    PROVE  Inv'
<1>1. Begin("generate") /\ phase' \in {"idle", "draw"} /\ transDir' \in {transDir, NoFiles}
  BY DEF generateTransactions, RenameFails, DirectoryMade, disk
<1>2. DOMAIN transDir' = File
  BY <1>1 DEF Inv, DiskType, NoFiles, File
<1> QED BY <1>1, <1>2, BeginsRight

\* solo begins.
LEMMA SoloStep ==
    ASSUME Inv, NEW roundRobin, NEW fresh, soloTransactions(roundRobin, fresh)
    PROVE  Inv'
<1>1. /\ Begin(IF roundRobin THEN "round-robin" ELSE "random")
      /\ phase' \in {"idle", "draw"} /\ transDir' = transDir /\ outputfile' = NoFile
  BY DEF soloTransactions
<1> QED BY <1>1, BeginsRight DEF Inv, DiskType

\* The faucet's transactions are those of the debits, and the files come next.
LEMMA FaucetStep ==
    ASSUME Inv, generateFaucet \/ soloFaucet
    PROVE  Inv'
<1>1. /\ phase = "draw" /\ phase' = "write" /\ UNCHANGED <<mode, nodeTrans, credits, debits>>
      /\ UNCHANGED <<disk, next, missed, chain>>
  BY DEF generateFaucet, soloFaucet, faucetGives
<1>2. PlanType' /\ NoncesRight' /\ ReplayType' /\ BooksRight'
  BY <1>1, BooksUnchanged DEF Inv
<1>3. DiskType' /\ SentRight' /\ OutputRight'
  BY <1>1 DEF Inv, DiskType, disk, SentRight, OutputRight
<1>4. FaucetRight'
  BY <1>1 DEF FaucetRight, generateFaucet, soloFaucet, faucetGives
<1>5. FilesSoFar'
  <2>1. 1 \in 1 .. Len(fileNames) /\ \A i \in DOMAIN Accounts : ~(i < 1)
    BY FileNames
  <2> QED BY <1>1, <2>1 DEF Inv, FilesSoFar
<1> QED BY <1>2, <1>3, <1>4, <1>5 DEF Inv

-----------------------------------------------------------------------------
(* Writing and replaying the files.                                        *)

\* generate writes one file.
LEMMA GenerateFilesStep ==
    ASSUME Inv, generateFiles
    PROVE  Inv'
<1> DEFINE f == fileNames[next]
           n == Len(Accounts)
<1>1. /\ phase = "write" /\ mode = "generate" /\ writeFile(f, content(next)) /\ next' = next + 1
      /\ phase' = (IF next = Len(fileNames) THEN "written" ELSE "write")
      /\ UNCHANGED <<mode, fulltrans, nodeTrans, credits, debits, faucettrans, chain>>
  BY DEF generateFiles, plan
<1>2. PlanType' /\ NoncesRight' /\ ReplayType' /\ BooksRight'
  BY <1>1, BooksUnchanged DEF Inv
<1>3. SentRight' /\ FaucetRight' /\ OutputRight'
  BY <1>1 DEF SentRight, FaucetRight, OutputRight
<1>4. next \in 1 .. Len(fileNames) /\ Len(fileNames) = n + 3 /\ n \in Nat /\ f \in File
  BY <1>1, FileNames DEF Inv, FilesSoFar
<1>5. /\ DiskType'
      /\ missed' \/ ( /\ ~missed /\ transDir' = [transDir EXCEPT ![f] = content(next)]
                      /\ Contents \subseteq Contents'
                      /\ {content(next)} \ {NoFile} \subseteq Contents')
  BY <1>1, <1>4, WriteStep DEF Inv
<1>6. /\ DOMAIN transDir = File /\ DOMAIN Accounts = 1 .. n
      /\ \A i \in DOMAIN Accounts : Accounts[i] \in Account /\ fileNames[i] = Accounts[i]
  BY FileNames DEF Inv, DiskType
<1>7. \A a \in Account : accountFile(a)' = accountFile(a) /\ accountFile(a) # NoFile
  <2>1. \A a \in Account : accountFile(a) \in AccountFile
    BY DEF Inv, PlanType, accountFile, AccountFile
  <2> QED BY <1>1, <2>1, AccountsAssumption DEF accountFile
<1>8. ASSUME ~missed', NEW i \in DOMAIN Accounts, i < next + 1
      PROVE  IsWritten(Accounts[i])'
  <2> DEFINE a == Accounts[i]
  <2>1. a \in Account /\ a \in File
    BY <1>6 DEF File
  <2>2. CASE i = next
    <3>1. content(next) = accountFile(a) /\ f = a
      BY <1>6, <2>2 DEF content
    <3> QED BY <1>5, <1>6, <1>7, <1>8, <2>1, <3>1 DEF IsWritten
  <2>3. CASE i < next
    <3>1. IsWritten(a)
      BY <1>1, <1>5, <1>8, <2>3 DEF Inv, FilesSoFar
    <3>2. a \notin Reserved => a # f
      <4>1. CASE next <= n
        <5>1. next \in DOMAIN Accounts /\ f = Accounts[next] /\ i # next
          BY <1>4, <1>6, <2>3, <4>1
        <5> QED BY <5>1, AccountsAssumption
      <4>2. CASE next > n
        BY <1>4, <4>2, FileNames
      <4> QED BY <1>4, <4>1, <4>2
    <3>3. a \notin Reserved => transDir'[a] = accountFile(a)
      BY <1>5, <1>6, <1>8, <2>1, <3>1, <3>2 DEF IsWritten
    <3>4. accountFile(a) \in Contents'
      BY <1>5, <1>8, <3>1 DEF IsWritten
    <3> QED BY <1>7, <2>1, <3>3, <3>4 DEF IsWritten
  <2> QED BY <1>4, <1>6, <1>8, <2>2, <2>3
<1>9. CASE next # Len(fileNames)
  <2>1. phase' = "write" /\ next' \in 1 .. Len(fileNames)
    BY <1>1, <1>4, <1>9
  <2>2. missed' \/ \A i \in DOMAIN Accounts : i < next' => IsWritten(Accounts[i])'
    BY <1>1, <1>8
  <2>3. FilesSoFar'
    BY <2>1, <2>2 DEF FilesSoFar
  <2> QED BY <1>2, <1>3, <1>5, <2>3 DEF Inv
<1>10. CASE next = Len(fileNames)
  <2>1. phase' = "written" /\ next = n + 3
    BY <1>1, <1>4, <1>10
  <2>2. ASSUME ~missed', NEW a \in Account PROVE IsWritten(a)'
    <3>1. PICK i \in DOMAIN Accounts : a = Accounts[i]
      BY DEF Account
    <3>2. i < next + 1
      BY <1>4, <1>6, <2>1, <3>1
    <3> QED BY <1>8, <2>2, <3>1, <3>2
  <2>3. FilesSoFar'
    BY <2>1, <2>2 DEF FilesSoFar
  <2> QED BY <1>2, <1>3, <1>5, <2>3 DEF Inv
<1> QED BY <1>9, <1>10

\* solo writes its file.
LEMMA SoloFileStep ==
    ASSUME Inv, soloFile
    PROVE  Inv'
<1>1. /\ phase = "write" /\ phase' = "written" /\ mode # "generate"
      /\ UNCHANGED <<mode, nodeTrans, credits, debits, faucettrans, transDir, chain>>
  BY DEF soloFile, plan
<1>2. missed' \in BOOLEAN /\ outputfile' \in {NoFile, Bad, soloAccounts'}
  <2>1. PICK w \in WriteToFile(outputfile, soloAccounts, {}) : outputfile' = w.file /\ Miss(w.err)
    BY DEF soloFile
  <2>2. outputfile = NoFile
    BY <1>1 DEF Inv, OutputRight
  <2>3. w.file \in {NoFile, Bad, soloAccounts}
    BY <2>1, <2>2 DEF WriteToFile, WriteFile, ProcessFileOptions, CheckIfExists, Outcome
  <2>4. soloAccounts' = soloAccounts
    BY <1>1 DEF soloAccounts, soloDelta
  <2> QED BY <2>1, <2>3, <2>4 DEF Miss
<1>3. PlanType' /\ NoncesRight' /\ ReplayType' /\ BooksRight'
  BY <1>1, BooksUnchanged DEF Inv
<1>4. DiskType' /\ SentRight' /\ FaucetRight' /\ OutputRight' /\ FilesSoFar'
  BY <1>1, <1>2 DEF Inv, DiskType, SentRight, FaucetRight, OutputRight, FilesSoFar
<1> QED BY <1>3, <1>4 DEF Inv

\* What the replay leaves alone.
LEMMA Replaying ==
    ASSUME Inv, UNCHANGED <<plan, disk, missed>>, mode # "generate",
           phase' \in {"idle", "funded", "replay"}
    PROVE  /\ PlanType' /\ NoncesRight' /\ DiskType' /\ FilesSoFar'
           /\ outputfile' = outputfile /\ soloAccounts' = soloAccounts
           /\ UNCHANGED <<mode, nodeTrans, credits, debits>>
           /\ \A spent, got : Booked(spent, got) => Booked(spent, got)'
<1>1. UNCHANGED <<mode, nodeTrans, credits, debits, faucettrans, transDir, outputfile>>
  BY DEF plan, disk
<1>2. Sizes' = Sizes /\ Zero' = Zero
  BY <1>1 DEF Sizes, Zero
<1>3. \A spent, got : Booked(spent, got) => Booked(spent, got)'
  BY <1>1, <1>2 DEF Booked
<1>4. PlanType' /\ NoncesRight' /\ DiskType' /\ FilesSoFar'
  BY <1>1 DEF Inv, PlanType, NoncesRight, DiskType, FilesSoFar
<1> QED BY <1>1, <1>3, <1>4 DEF soloAccounts, soloDelta

\* What the file of solo has that is replayed.
LEMMA OnDisk ==
    ASSUME Inv, phase \in {"funded", "replay"}
    PROVE  /\ outputfile.trans = nodeTrans /\ outputfile.debits = debits
           /\ outputfile.delta = soloDelta
BY DEF Inv, OutputRight, soloAccounts

\* The faucet gives some accounts their debits.
LEMMA ProcessFaucetStep ==
    ASSUME Inv, processFaucet
    PROVE  Inv'
<1>1. /\ phase = "written" /\ phase' = "funded" /\ mode # "generate"
      /\ outputfile \notin {NoFile, Bad} /\ UNCHANGED <<plan, disk, missed, sent, taken>>
      /\ pre' = balance'
  BY DEF processFaucet
<1>2. outputfile = soloAccounts
  BY <1>1 DEF Inv, OutputRight
<1>3. ASSUME NEW a \in Account
      PROVE  faucetAmount(a) \in Nat
  <2>1. outputfile.faucet = faucettrans
    BY <1>2 DEF soloAccounts
  <2>2. faucettrans = [i \in DOMAIN Accounts |->
                         [to |-> Accounts[i], amount |-> debits[Accounts[i]] + 0, nonce |-> i]]
    BY <1>1 DEF Inv, FaucetRight
  <2>3. /\ DOMAIN faucettrans = DOMAIN Accounts
        /\ \A i \in DOMAIN Accounts : /\ faucettrans[i].to = Accounts[i]
                                      /\ faucettrans[i].amount = debits[Accounts[i]] + 0
    BY <2>2
  <2>4. \E i \in DOMAIN Accounts : faucettrans[i].to = a
    BY <2>3 DEF Account
  <2>5. PICK i \in DOMAIN Accounts : faucetAmount(a) = faucettrans[i].amount
    BY <2>1, <2>3, <2>4 DEF faucetAmount
  <2>6. Accounts[i] \in Account /\ debits \in [Account -> Nat]
    BY DEF Account, Inv, PlanType
  <2> QED BY <2>3, <2>5, <2>6
<1>4. balance' \in [Account -> Nat]
  <2>1. PICK arrived \in SUBSET Account :
          balance' = [a \in Account |-> balance[a] + (IF a \in arrived THEN faucetAmount(a) ELSE 0)]
    BY DEF processFaucet
  <2>2. balance \in [Account -> Nat]
    BY DEF Inv, ReplayType
  <2> QED BY <1>3, <2>1, <2>2
<1>5. PlanType' /\ NoncesRight' /\ DiskType' /\ FilesSoFar'
  BY <1>1, Replaying
<1>6. ReplayType' /\ SentRight' /\ FaucetRight'
  BY <1>1, <1>4 DEF Inv, ReplayType, SentRight, FaucetRight
<1>7. OutputRight'
  BY <1>1, <1>2, Replaying DEF OutputRight
<1>8. BooksRight'
  <2>1. PICK spent \in Spent, got \in Got : Booked(spent, got)
    BY DEF Inv, BooksRight
  <2> QED BY <1>1, <2>1, Replaying DEF BooksRight, BalanceRight
<1> QED BY <1>5, <1>6, <1>7, <1>8 DEF Inv

\* Every account has what it will spend, or the replay ends.
LEMMA ProcessAccountsStep ==
    ASSUME Inv, processAccounts
    PROVE  Inv'
<1>1. /\ phase = "funded" /\ phase' \in {"idle", "replay"} /\ sent' = Zero /\ taken' = Zero
      /\ phase' = "replay" => \A a \in Account : outputfile.debits[a] <= balance[a]
      /\ UNCHANGED <<plan, disk, missed, balance, pre>>
  BY DEF processAccounts
<1>2. mode # "generate" /\ outputfile = soloAccounts /\ balance = pre /\ outputfile.debits = debits
  BY <1>1, OnDisk DEF Inv, OutputRight, FaucetRight
<1>3. PlanType' /\ NoncesRight' /\ DiskType' /\ FilesSoFar'
  BY <1>1, <1>2, Replaying
<1>4. Zero \in [Account -> Nat] /\ \A a \in Account : Zero[a] = 0
  BY DEF Zero
<1>5. ReplayType' /\ FaucetRight'
  BY <1>1, <1>4 DEF Inv, ReplayType, FaucetRight
<1>6. SentRight'
  <2>1. \A a \in Account : Len(nodeTrans'[a]) \in Nat
    BY <1>3 DEF PlanType
  <2> QED BY <1>1, <1>4, <2>1 DEF SentRight
<1>7. OutputRight'
  BY <1>1, <1>2, Replaying DEF OutputRight
<1>8. BooksRight'
  <2>1. PICK spent \in Spent, got \in Got : Booked(spent, got)
    BY DEF Inv, BooksRight
  <2>2. ASSUME phase' = "replay", NEW a \in Account
        PROVE  debits'[a] <= pre'[a] /\ balance'[a] + spent[a][taken'[a]] = pre'[a] + got[taken'][a]
    <3>1. spent[a][taken'[a]] = 0 /\ got[taken'][a] = 0
      BY <1>1, <1>4, <2>1 DEF Booked
    <3>2. debits' = debits /\ debits[a] <= balance[a]
      BY <1>1, <1>2, <2>2, Replaying
    <3>3. balance[a] \in Nat
      BY DEF Inv, ReplayType
    <3> QED BY <1>1, <1>2, <3>1, <3>2, <3>3
  <2>3. BalanceRight(spent, got)'
    BY <2>2 DEF BalanceRight
  <2> QED BY <1>1, <1>2, <2>1, <2>3, Replaying DEF BooksRight
<1> QED BY <1>3, <1>5, <1>6, <1>7, <1>8 DEF Inv

\* The replay ends.
LEMMA CheckTotalsStep ==
    ASSUME Inv, checkTotals
    PROVE  Inv'
<1>1. /\ phase = "replay" /\ phase' = "idle" /\ pre' = Zero /\ sent' = Zero /\ taken' = Zero
      /\ UNCHANGED <<plan, disk, missed, balance>>
  BY DEF checkTotals
<1>2. mode # "generate"
  BY <1>1 DEF Inv, OutputRight
<1>3. PlanType' /\ NoncesRight' /\ DiskType' /\ FilesSoFar'
  BY <1>1, <1>2, Replaying
<1>4. ReplayType' /\ SentRight' /\ FaucetRight' /\ OutputRight'
  BY <1>1 DEF Inv, ReplayType, SentRight, FaucetRight, OutputRight, Zero
<1>5. BooksRight'
  <2>1. PICK spent \in Spent, got \in Got : Booked(spent, got)
    BY DEF Inv, BooksRight
  <2> QED BY <1>1, <1>2, <2>1, Replaying DEF BooksRight, BalanceRight
<1> QED BY <1>3, <1>4, <1>5 DEF Inv

\* The numbers of an account during the replay.
LEMMA ReplayNumbers ==
    ASSUME Inv, NEW spent \in Spent, NEW got \in Got, NEW a \in Account
    PROVE  /\ balance[a] \in Nat /\ pre[a] \in Nat /\ taken[a] \in Nat /\ debits[a] \in Nat
           /\ spent[a][taken[a]] \in Nat /\ got[taken][a] \in Nat
<1>1. /\ balance \in [Account -> Nat] /\ pre \in [Account -> Nat] /\ taken \in [Account -> Nat]
      /\ debits \in [Account -> Nat]
  BY DEF Inv, ReplayType, PlanType
<1>2. spent[a] \in [Nat -> Nat] /\ got[taken] \in [Account -> Nat]
  BY <1>1 DEF Spent, Got
<1> QED BY <1>1, <1>2

\* The next transaction of an account is covered: what is left of its balance is
\* at least what the rest of its transactions spend.
LEMMA Covered ==
    ASSUME Inv, phase = "replay", NEW spent \in Spent, NEW got \in Got, Booked(spent, got),
           BalanceRight(spent, got), NEW a \in Account, taken[a] < Len(nodeTrans[a])
    PROVE  /\ nodeTrans[a][taken[a] + 1] \in Transaction
           /\ spent[a][taken[a] + 1] = spent[a][taken[a]] + nodeTrans[a][taken[a] + 1].amount
           /\ nodeTrans[a][taken[a] + 1].amount <= balance[a]
<1> DEFINE k == taken[a]
           t == nodeTrans[a][k + 1]
<1>1. k \in Nat /\ k + 1 \in 1 .. Len(nodeTrans[a]) /\ k + 1 - 1 = k /\ nodeTrans[a] \in Seq(Transaction)
  <2>1. k \in Nat /\ nodeTrans[a] \in Seq(Transaction)
    BY DEF Inv, PlanType, ReplayType
  <2> QED BY <2>1
<1>2. t \in Transaction
  BY <1>1
<1>3. /\ spent[a][k] \in Nat /\ t.amount \in Nat /\ debits[a] \in Nat /\ balance[a] \in Nat
      /\ got[taken][a] \in Nat /\ pre[a] \in Nat
  BY <1>2, ReplayNumbers DEF Transaction
<1>4. spent[a][k + 1] = spent[a][k] + t.amount /\ spent[a][k + 1] <= debits[a]
  <2>1. \A j \in 1 .. Len(nodeTrans[a]) : /\ spent[a][j] = spent[a][j - 1] + nodeTrans[a][j].amount
                                           /\ spent[a][j] <= debits[a]
    BY DEF Booked
  <2> HIDE DEF k
  <2> QED BY <1>1, <2>1
<1>5. debits[a] <= pre[a] /\ balance[a] + spent[a][k] = pre[a] + got[taken][a]
  BY DEF BalanceRight
<1> HIDE DEF k, t
<1>6. t.amount <= balance[a]
  BY <1>3, <1>4, <1>5
<1> QED BY <1>2, <1>4, <1>6 DEF k, t

\* The next transaction of account a takes effect.
Takes(a, t) ==
    /\ taken[a] < Len(nodeTrans[a]) /\ t = nodeTrans[a][taken[a] + 1]
    /\ balance' = [balance EXCEPT ![a] = @ - t.amount, ![t.to] = @ + t.amount]
    /\ taken' = [taken EXCEPT ![a] = @ + 1]

\* A transaction that takes effect moves its amount.
LEMMA TakenStep ==
    ASSUME Inv, phase = "replay", NEW a \in Account, NEW t, Takes(a, t),
           NEW spent \in Spent, NEW got \in Got, Booked(spent, got), BalanceRight(spent, got)
    PROVE  /\ balance' \in [Account -> Nat]
           /\ \A x \in Account : balance'[x] + spent[x][taken'[x]] = pre[x] + got[taken'][x]
<1>1. taken' = More(taken, a) /\ taken[a] < Len(nodeTrans[a]) /\ t = nodeTrans[a][taken[a] + 1]
  BY DEF Takes, More
<1>2. /\ t \in Transaction /\ spent[a][taken[a] + 1] = spent[a][taken[a]] + t.amount
      /\ t.amount <= balance[a]
  BY <1>1, Covered
<1>3. balance \in [Account -> Nat] /\ taken \in [Account -> Nat] /\ taken[a] \in Nat
  BY DEF Inv, ReplayType
<1>4. t.amount \in Nat /\ t.to \in Account
  BY <1>2 DEF Transaction
<1>5. /\ taken' \in [Account -> Nat] /\ taken'[a] = taken[a] + 1
      /\ \A x \in Account \ {a} : taken'[x] = taken[x]
  BY <1>1, <1>3 DEF More
<1> DEFINE out(x) == IF x = a THEN t.amount ELSE 0
           in(x) == IF t.to = x THEN t.amount ELSE 0
<1>6. /\ balance' \in [Account -> Nat]
      /\ \A x \in Account : balance'[x] = balance[x] - out(x) + in(x)
  <2>1. balance' = [balance EXCEPT ![a] = @ - t.amount, ![t.to] = @ + t.amount]
    BY DEF Takes
  <2>2. balance[a] - t.amount \in Nat
    BY <1>2, <1>3, <1>4
  <2>3. ASSUME NEW x \in Account PROVE balance'[x] = balance[x] - out(x) + in(x)
    BY <1>3, <1>4, <2>1, <2>2
  <2>4. ASSUME NEW x \in Account PROVE balance[x] - out(x) + in(x) \in Nat
    BY <1>3, <1>4, <2>2
  <2>5. DOMAIN balance' = Account /\ balance' = [x \in Account |-> balance'[x]]
    BY <1>3, <2>1
  <2> HIDE DEF out, in
  <2> QED BY <2>3, <2>4, <2>5
<1>7. \A x \in Account : got[taken'][x] = got[taken][x] + in(x)
  BY <1>1, <1>3 DEF Booked
<1>8. \A x \in Account : spent[x][taken'[x]] = spent[x][taken[x]] + out(x)
  <2>1. \A x \in Account : spent[x][taken[x]] \in Nat
    BY <1>3 DEF Spent
  <2> QED BY <1>2, <1>5, <2>1
<1>9. ASSUME NEW x \in Account
      PROVE  balance'[x] + spent[x][taken'[x]] = pre[x] + got[taken'][x]
  <2> DEFINE b == balance[x]
             s == spent[x][taken[x]]
             p == pre[x]
             g == got[taken][x]
             o == out(x)
             i == in(x)
  <2>1. b + s = p + g
    BY DEF BalanceRight
  <2>2. b \in Nat /\ s \in Nat /\ p \in Nat /\ g \in Nat /\ o \in Nat /\ i \in Nat
    BY <1>4, ReplayNumbers
  <2>3. balance'[x] = b - o + i /\ spent[x][taken'[x]] = s + o /\ got[taken'][x] = g + i
    BY <1>6, <1>7, <1>8
  <2> HIDE DEF b, s, p, g, o, i
  <2>4. (b - o + i) + (s + o) = p + (g + i)
    BY <2>1, <2>2
  <2> QED BY <2>3, <2>4 DEF p
<1> QED BY <1>6, <1>9

\* A transaction is sent.
LEMMA RunTransStep ==
    ASSUME Inv, NEW a \in Account, NEW arrives \in BOOLEAN, runTrans(a, arrives)
    PROVE  Inv'
<1> DEFINE t == nodeTrans[a][sent[a] + 1]
           effect == arrives /\ t.nonce = taken[a] + 1 /\ t.amount <= balance[a]
<1>1. phase = "replay" /\ outputfile.trans = nodeTrans /\ outputfile = soloAccounts /\ mode # "generate"
  BY OnDisk DEF runTrans, Inv, OutputRight
<1>2. /\ phase' = "replay" /\ sent[a] < Len(nodeTrans[a])
      /\ sent' = [sent EXCEPT ![a] = @ + 1] /\ UNCHANGED <<plan, disk, missed, pre>>
      /\ IF effect
         THEN /\ balance' = [balance EXCEPT ![a] = @ - t.amount, ![t.to] = @ + t.amount]
              /\ taken' = [taken EXCEPT ![a] = @ + 1]
         ELSE UNCHANGED <<balance, taken>>
  BY <1>1 DEF runTrans
<1>3. /\ PlanType' /\ NoncesRight' /\ DiskType' /\ FilesSoFar' /\ outputfile' = outputfile
      /\ soloAccounts' = soloAccounts /\ UNCHANGED <<mode, nodeTrans, credits, debits>>
      /\ \A spent, got : Booked(spent, got) => Booked(spent, got)'
  BY <1>1, <1>2, Replaying
<1>4. OutputRight' /\ FaucetRight'
  BY <1>1, <1>2, <1>3 DEF OutputRight, FaucetRight
<1>5. /\ balance \in [Account -> Nat] /\ taken \in [Account -> Nat] /\ sent \in [Account -> Nat]
      /\ \A x \in Account : Len(nodeTrans[x]) \in Nat /\ taken[x] <= sent[x] /\ sent[x] <= Len(nodeTrans[x])
  BY <1>1 DEF Inv, ReplayType, PlanType, SentRight
<1>6. t.nonce = sent[a] + 1
  <2>1. sent[a] + 1 \in 1 .. Len(nodeTrans[a])
    BY <1>2, <1>5
  <2> QED BY <2>1 DEF Inv, NoncesRight
<1>7. effect => sent[a] = taken[a]
  BY <1>5, <1>6
<1>8. PICK spent \in Spent, got \in Got : Booked(spent, got) /\ BalanceRight(spent, got)
  BY DEF Inv, BooksRight
<1>9. /\ balance' \in [Account -> Nat]
      /\ \A x \in Account : balance'[x] + spent[x][taken'[x]] = pre[x] + got[taken'][x]
  <2>1. CASE effect
    <3>1. t = nodeTrans[a][taken[a] + 1]
      BY <1>7, <2>1
    <3>2. Takes(a, t)
      BY <1>2, <1>7, <2>1, <3>1 DEF Takes
    <3> QED BY <1>1, <1>8, <3>2, TakenStep
  <2>2. CASE ~effect
    BY <1>1, <1>2, <1>5, <1>8, <2>2 DEF BalanceRight
  <2> QED BY <2>1, <2>2
<1> HIDE DEF t
<1>10. /\ taken' \in [Account -> Nat] /\ sent' \in [Account -> Nat]
       /\ \A x \in Account : taken'[x] <= sent'[x] /\ sent'[x] <= Len(nodeTrans[x])
  <2>1. CASE effect
    <3> HIDE DEF effect
    <3> QED BY <1>2, <1>5, <1>7, <2>1
  <2>2. CASE ~effect
    <3> HIDE DEF effect
    <3> QED BY <1>2, <1>5, <2>2
  <2> QED BY <2>1, <2>2
<1>11. ReplayType' /\ SentRight'
  BY <1>2, <1>3, <1>9, <1>10 DEF Inv, ReplayType, SentRight
<1>12. BooksRight'
  <2>1. BalanceRight(spent, got)'
    BY <1>1, <1>2, <1>3, <1>8, <1>9 DEF BalanceRight
  <2> QED BY <1>3, <1>8, <2>1 DEF BooksRight
<1> QED BY <1>3, <1>4, <1>11, <1>12 DEF Inv

-----------------------------------------------------------------------------
(* The theorems.                                                           *)

\* Before the first command nothing is drawn or written.
LEMMA InitStep ==
    ASSUME Init
    PROVE  Inv
<1>1. PlanType /\ NoncesRight /\ BooksRight
  BY BooksEmpty DEF Init, NothingDrawn
<1>2. ReplayType /\ DiskType
  BY DEF Init, ReplayType, DiskType, Zero, NoFiles, File
<1> QED BY <1>1, <1>2 DEF Init, Inv, SentRight, FaucetRight, OutputRight, FilesSoFar

\* Every step keeps the invariant.
LEMMA NextStep ==
    ASSUME Inv, [Next]_tvars
    PROVE  Inv'
<1>1. CASE UNCHANGED tvars
  <2>1. /\ UNCHANGED <<phase, mode, nodeTrans, credits, debits, faucettrans, chain>>
        /\ UNCHANGED <<transDir, saved, outputfile, next, missed, balance, pre, sent, taken>>
    BY <1>1 DEF tvars, plan, disk, chain
  <2>2. PlanType' /\ NoncesRight' /\ ReplayType' /\ BooksRight'
    BY <2>1, BooksUnchanged DEF Inv
  <2>3. /\ soloAccounts' = soloAccounts /\ Contents' = Contents
        /\ \A a : accountFile(a)' = accountFile(a)
    BY <2>1 DEF soloAccounts, soloDelta, Contents, accountFile
  <2>4. \A a : IsWritten(a)' = IsWritten(a)
    BY <2>1, <2>3 DEF IsWritten
  <2>5. DiskType' /\ SentRight' /\ FaucetRight' /\ OutputRight' /\ FilesSoFar'
    BY <2>1, <2>3, <2>4 DEF Inv, DiskType, SentRight, FaucetRight, OutputRight, FilesSoFar
  <2> QED BY <2>2, <2>5 DEF Inv
<1>2. CASE \/ \E usable \in BOOLEAN : generateTransactions(usable)
           \/ \E roundRobin, fresh \in BOOLEAN : soloTransactions(roundRobin, fresh)
  BY <1>2, GenerateStep, SoloStep
<1>3. ASSUME NEW from \in Account, NEW to \in Account, NEW amt \in Amounts,
             generateDraw(from, to, amt) \/ soloDraw(from, to, amt)
      PROVE  Inv'
  BY <1>3, TransferStep DEF generateDraw, soloDraw
<1>4. CASE generateFaucet \/ soloFaucet
  BY <1>4, FaucetStep
<1>5. CASE generateFiles \/ soloFile
  BY <1>5, GenerateFilesStep, SoloFileStep
<1>6. CASE processFaucet \/ processAccounts \/ checkTotals
  BY <1>6, ProcessFaucetStep, ProcessAccountsStep, CheckTotalsStep
<1>7. ASSUME NEW a \in Account, NEW arrives \in BOOLEAN, runTrans(a, arrives) PROVE Inv'
  BY <1>7, RunTransStep
<1> QED BY <1>1, <1>2, <1>3, <1>4, <1>5, <1>6, <1>7 DEF Next

\* The invariant holds in every reachable state.
THEOREM Invariance == Spec => []Inv
<1>1. Init => Inv
  BY InitStep
<1>2. Inv /\ [Next]_tvars => Inv'
  BY NextStep
<1> QED BY <1>1, <1>2, PTL DEF Spec

\* Whatever is drawn, whatever of the faucet's transactions arrives and in whatever
\* order those of the accounts are sent, no account is short of its next one.
THEOREM TransactionsNeverOverdraw == Spec => []NeverOverdrawn
<1>1. Inv => NeverOverdrawn
  <2> SUFFICES ASSUME Inv, phase = "replay", NEW a \in Account, taken[a] < Len(outputfile.trans[a])
               PROVE  outputfile.trans[a][taken[a] + 1].amount <= balance[a]
    BY DEF NeverOverdrawn
  <2>1. PICK spent \in Spent, got \in Got : Booked(spent, got) /\ BalanceRight(spent, got)
    BY DEF Inv, BooksRight
  <2>2. outputfile.trans = nodeTrans
    BY OnDisk
  <2> QED BY <2>1, <2>2, Covered
<1> QED BY <1>1, Invariance, PTL

\* When all of solo's transactions have taken effect, every balance has changed by
\* the account's Delta in the file.
THEOREM DeltasAlwaysRight == Spec => []DeltasRight
<1>1. Inv => DeltasRight
  <2> SUFFICES ASSUME Inv, phase = "replay", Replayed(taken), NEW a \in Account
               PROVE  balance[a] - pre[a] = outputfile.delta[a]
    BY DEF DeltasRight
  <2>1. PICK spent \in Spent, got \in Got : Booked(spent, got) /\ BalanceRight(spent, got)
    BY DEF Inv, BooksRight
  <2>2. outputfile.trans = nodeTrans /\ outputfile.delta[a] = credits[a] - debits[a]
    BY OnDisk DEF soloDelta
  <2>3. taken = Sizes
    BY <2>2 DEF Inv, ReplayType, Replayed, Sizes
  <2>4. spent[a][taken[a]] = debits[a] /\ got[taken][a] = credits[a]
    BY <2>1, <2>2, <2>3 DEF Booked, Replayed
  <2>5. balance[a] + debits[a] = pre[a] + credits[a]
    BY <2>1, <2>4 DEF BalanceRight
  <2>6. balance[a] \in Nat /\ pre[a] \in Nat /\ debits[a] \in Nat /\ credits[a] \in Nat
    BY DEF Inv, ReplayType, PlanType
  <2> QED BY <2>2, <2>5, <2>6
<1> QED BY <1>1, Invariance, PTL

\* When generate ends and missed nothing, the transfers of every account are in
\* the directory.
THEOREM TransfersAlwaysWritten == Spec => []TransfersWritten
<1>1. Inv => TransfersWritten
  BY DEF Inv, FilesSoFar, TransfersWritten, IsWritten
<1> QED BY <1>1, Invariance, PTL

\* The directory and its backups are left alone.
LEMMA DiskKept ==
    ASSUME UNCHANGED <<transDir, saved, backups>>
    PROVE  /\ Contents' = Contents
           /\ \A n \in DOMAIN backups : n \in DOMAIN backups' /\ backups'[n] = backups[n]
BY DEF Contents

\* Files are written when the directory has been made.
LEMMA NoDirectoryStep ==
    ASSUME NoDirectory, [Next]_tvars
    PROVE  NoDirectory'
<1>1. CASE /\ UNCHANGED <<dirExists, transDir, saved, mode>>
           /\ phase' \in {"draw", "write"} => phase \in {"draw", "write"}
  <2>1. NoFiles' = NoFiles
    BY DEF NoFiles
  <2> QED BY <1>1, <2>1 DEF NoDirectory
<1>2. ASSUME NEW usable, generateTransactions(usable) PROVE NoDirectory'
  <2>1. CASE RenameFails
    BY <2>1 DEF NoDirectory, RenameFails, disk
  <2>2. CASE DirectoryMade(usable)
    <3>1. NoFiles' = NoFiles
      BY DEF NoFiles
    <3> QED BY <2>2, <3>1 DEF NoDirectory, DirectoryMade
  <2> QED BY <1>2, <2>1, <2>2 DEF generateTransactions
<1>3. ASSUME NEW roundRobin, NEW fresh, soloTransactions(roundRobin, fresh) PROVE NoDirectory'
  <2>1. mode' # "generate" /\ UNCHANGED <<dirExists, transDir, saved>> /\ NoFiles' = NoFiles
    BY <1>3 DEF soloTransactions, Begin, NoFiles
  <2> QED BY <2>1 DEF NoDirectory
<1>4. CASE generateFiles
  <2>1. dirExists /\ dirExists' = dirExists
    BY <1>4 DEF NoDirectory, generateFiles
  <2> QED BY <2>1 DEF NoDirectory
<1>5. CASE UNCHANGED tvars
  BY <1>1, <1>5 DEF tvars, disk, plan
<1>6. ASSUME NEW from \in Account, NEW to \in Account, NEW amt \in Amounts,
             generateDraw(from, to, amt) \/ soloDraw(from, to, amt)
      PROVE  NoDirectory'
  BY <1>1, <1>6 DEF generateDraw, soloDraw, transfer, disk
<1>7. CASE generateFaucet \/ soloFaucet
  BY <1>1, <1>7 DEF generateFaucet, soloFaucet, faucetGives, disk
<1>8. CASE soloFile
  BY <1>1, <1>8 DEF soloFile, plan
<1>9. CASE processFaucet \/ processAccounts \/ checkTotals
  BY <1>1, <1>9 DEF processFaucet, processAccounts, checkTotals, disk, plan
<1>10. ASSUME NEW a \in Account, NEW arrives \in BOOLEAN, runTrans(a, arrives) PROVE NoDirectory'
  BY <1>1, <1>10 DEF runTrans, disk, plan
<1> QED BY <1>2, <1>3, <1>4, <1>5, <1>6, <1>7, <1>8, <1>9, <1>10 DEF Next

\* No command loses what an earlier one, or itself, has written.
THEOREM EarlierAlwaysKept == Spec => EarlierKept
<1> DEFINE Kept == /\ \A c \in Contents :
                         missed' \/ c \in Contents' \/ \E n \in DOMAIN backups' : c \in backups'[n]
                   /\ \A n \in DOMAIN backups : n \in DOMAIN backups' /\ backups'[n] = backups[n]
<1>1. ASSUME Inv, NoDirectory, Next PROVE Kept
  <2>1. CASE UNCHANGED <<transDir, saved, backups>>
    BY <2>1, DiskKept
  <2>2. ASSUME NEW usable, generateTransactions(usable) PROVE Kept
    <3>1. CASE RenameFails
      BY <2>1, <3>1 DEF RenameFails, disk
    <3>2. CASE DirectoryMade(usable) /\ ~dirExists
      <4>1. Contents = {} /\ UNCHANGED backups
        BY <1>1, <3>2 DEF NoDirectory, NoFiles, Contents, DirectoryMade, SafeRename
      <4> QED BY <4>1
    <3>3. CASE DirectoryMade(usable) /\ dirExists
      <4>1. PICK n \in FreeSuffixes(DOMAIN backups) :
              backups' = [i \in DOMAIN backups \cup {n} |-> IF i = n THEN Contents ELSE backups[i]]
        BY <3>3 DEF DirectoryMade, SafeRename
      <4>2. n \notin DOMAIN backups
        BY DEF FreeSuffixes
      <4> QED BY <4>1, <4>2
    <3> QED BY <2>2, <3>1, <3>2, <3>3 DEF generateTransactions
  <2>3. CASE generateFiles
    <3>1. UNCHANGED backups /\ writeFile(fileNames[next], content(next))
          /\ phase = "write" /\ mode = "generate"
      BY <2>3 DEF generateFiles
    <3>2. fileNames[next] \in File
      BY <1>1, <3>1, FileNames DEF Inv, FilesSoFar
    <3>3. missed' \/ Contents \subseteq Contents'
      BY <1>1, <3>1, <3>2, WriteStep DEF Inv
    <3> QED BY <3>1, <3>3
  <2>4. CASE \/ \E roundRobin, fresh \in BOOLEAN : soloTransactions(roundRobin, fresh)
             \/ \E from, to \in Account, amt \in Amounts :
                   generateDraw(from, to, amt) \/ soloDraw(from, to, amt)
             \/ generateFaucet \/ soloFaucet \/ soloFile
             \/ processFaucet \/ processAccounts \/ checkTotals
             \/ \E a \in Account, arrives \in BOOLEAN : runTrans(a, arrives)
    <3>1. UNCHANGED <<transDir, saved, backups>>
      BY <2>4 DEF soloTransactions, generateDraw, soloDraw, transfer, generateFaucet, soloFaucet,
         faucetGives, soloFile, processFaucet, processAccounts, checkTotals, runTrans, disk
    <3> QED BY <2>1, <3>1
  <2> HIDE DEF Kept
  <2> QED BY <1>1, <2>2, <2>3, <2>4 DEF Next
<1>2. Inv /\ NoDirectory /\ [Next]_tvars => [Kept]_tvars
  BY <1>1
<1>3. Init => NoDirectory
  BY DEF Init, NoDirectory
<1>4. NoDirectory /\ [Next]_tvars => NoDirectory'
  BY NoDirectoryStep
<1> QED BY <1>2, <1>3, <1>4, Invariance, PTL DEF Spec, EarlierKept
=============================================================================
