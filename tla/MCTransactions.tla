-------------------------- MODULE MCTransactions ---------------------------
(* Small instances of sets of transfers. *)
EXTENDS Transactions, TLC

CONSTANTS noFile, bad

\* One account has the name of an output file.
ThreeAccounts == <<"alice", "bob", "trans">>

\* Bound: the second command draws transfers of 1 only.
SecondRun == runs = 2 => \A i \in DOMAIN fulltrans : fulltrans[i].amount = 1
=============================================================================
