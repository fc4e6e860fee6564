---------------------------- MODULE ConfigFiles ----------------------------
(***************************************************************************)
(* "monetd config": build makes the configuration of a network of one node, *)
(* pull downloads the configuration of a network that runs, clear moves     *)
(* everything to a backup, and "monetd run" starts a node from what is      *)
(* there.  build and pull write five files one after the other and may stop *)
(* between two: by an error, an answer "no" to a prompt, or an interrupt.   *)
(* Key commands and clear may run beside them in other shells.              *)
(*                                                                          *)
(* A file of a network is the network: a remote one, or the key of the node *)
(* that is alone in it.  monetd.toml is the moniker in it.                  *)
(***************************************************************************)
EXTENDS Keystore

CONSTANTS
    Remote,        \* the networks that can be pulled from
    NoMoniker,     \* the default moniker
    MaxFaults      \* bound: calls that fail, prompts declined, interrupts

ASSUME ConfigAssumption ==
    /\ Remote \cap (Key \cup {NoFile, Bad}) = {}
    /\ NoMoniker \notin {NoFile, Bad} /\ Moniker \cap {NoFile, Bad, NoMoniker} = {}
    /\ MaxFaults \in Nat

VARIABLES
    conf,          \* the five files
    confDir,       \* whether the configuration directory exists
    unsettled,     \* history: the last build or pull to write is under way,
                   \* or did not write all it meant to
    faults,        \* counts faults, for the bound
    node           \* whether a node runs

confVars == <<conf, confDir, unsettled, faults, node>>
cvars    == <<keyVars, command, confVars>>

NoConf == [priv_key |-> NoFile, peers |-> NoFile, peers_genesis |-> NoFile,
           genesis |-> NoFile, toml |-> NoFile]

Count(fault) == faults' = faults + (IF fault /\ confDir THEN 1 ELSE 0) /\ faults' <= MaxFaults

\* Nothing can be written where there is no directory.
InDir(outcomes) == IF confDir THEN outcomes ELSE {Outcome(NoFile, TRUE)}

\* Shell s's command goes on to step, or ends; missed says that it has failed to
\* write a file so far.
Continue(s, step, missed) ==
    /\ command' = [command EXCEPT ![s] = IF step = "end" THEN Idle
                                         ELSE [@ EXCEPT !.step = step, !.missed = missed]]
    /\ unsettled' = (step # "end" \/ missed)

At(s, name, step) == command[s].name \in name /\ command[s].step = step

-----------------------------------------------------------------------------
(* readConfig.                                                             *)

\* Every command first reads monetd.toml, and writes back what it read.  One that
\* was cut short has no moniker, or makes the command fail before it does anything.
GlobalMoniker == IF conf.toml \in Moniker THEN conf.toml ELSE NoMoniker

\* Build and pull are not run beside each other.
NoOther == \A s \in Shell : command[s].name \notin {"build", "pull"}

\* GetKey reads the keyfile of m and, without a password file, asks for its
\* passphrase; the command goes on with the key that was read.
Begin(s, name, m, net, interactive, toml) ==
    /\ command[s] = Idle /\ NoOther
    /\ Decrypts(m)
    /\ command' = [command EXCEPT ![s] =
                     [name |-> name, step |-> "folders", key |-> keystore[m], net |-> net,
                      interactive |-> interactive, toml |-> toml, missed |-> FALSE]]
    /\ UNCHANGED <<keyVars, confVars>>

\* The passphrase was given, and the folders of the configuration are made, again
\* if a clear has moved them away; the keystore is not one of them.
CreateMonetConfigFolders(s) ==
    /\ At(s, {"build", "pull"}, "folders")
    /\ command' = [command EXCEPT ![s].step = "priv_key"]
    /\ confDir' = TRUE
    /\ UNCHANGED <<keyVars, conf, unsettled, faults, node>>

\* A network of one node, the one of the key of m.
buildConfig(s, m) == Begin(s, "build", m, keystore[m], TRUE, m)

\* The only keyfile, if there is one only.
getDefaultKey ==
    {m \in Moniker : {n \in Moniker : CheckIfExists(keystore[n])} = {m}}

\* The key is the one of --key, or the default.  The moniker is not set: it
\* stays what monetd.toml said.
pullConfig(s, net, keyParam, force) ==
    \E m \in IF keyParam = NoMoniker THEN getDefaultKey ELSE {keyParam} :
        Begin(s, "pull", m, net, ~force, GlobalMoniker)

-----------------------------------------------------------------------------
(* The files, one after the other.                                         *)

\* The private key, unencrypted, for Babble.
DumpPrivKey(s) ==
    /\ At(s, {"build", "pull"}, "priv_key")
    /\ \E w \in InDir(WriteFile(conf.priv_key, command[s].key)) :
          /\ Count(w.err)
          /\ conf' = [conf EXCEPT !.priv_key = w.file]
          /\ IF w.err THEN Continue(s, "end", TRUE)
             ELSE Continue(s, IF command[s].name = "build" THEN "peers" ELSE "peers_genesis", FALSE)
    /\ UNCHANGED <<keyVars, confDir, node>>

\* build: both peers files; the errors are dropped.
dumpPeers(s) ==
    /\ At(s, {"build"}, "peers")
    /\ \E v \in InDir(WriteToFile(conf.peers, command[s].net, {OverwriteSilently})),
          w \in InDir(WriteToFile(conf.peers_genesis, command[s].net, {OverwriteSilently})) :
          /\ Count(v.err \/ w.err)
          /\ conf' = [conf EXCEPT !.peers = v.file, !.peers_genesis = w.file]
          /\ Continue(s, "genesis", v.err \/ w.err)
    /\ UNCHANGED <<keyVars, confDir, node>>

\* build: every keyfile of the keystore is credited, so each must be readable.
buildAlloc == keystoreDir /\ \A m \in Moniker : keystore[m] # Bad

\* build: genesis.json; the error of writing it is dropped.
GenerateGenesisJSON(s) ==
    /\ At(s, {"build"}, "genesis")
    /\ IF buildAlloc
       THEN \E w \in InDir(WriteToFile(conf.genesis, command[s].net, {OverwriteSilently})) :
               /\ Count(w.err)
               /\ conf' = [conf EXCEPT !.genesis = w.file]
               /\ Continue(s, "toml", command[s].missed \/ w.err)
       ELSE Continue(s, "end", TRUE) /\ UNCHANGED <<conf, faults>>
    /\ UNCHANGED <<keyVars, confDir, node>>

\* Mutant: a file that could not be downloaded, or that the user declined to
\* replace, is skipped.
pullFile_Skips(s, file, next) ==
    /\ At(s, {"pull"}, file)
    /\ \E w \in InDir(DownloadFile(command[s].net, conf[file], command[s].interactive)) :
          /\ Count(w.err \/ w.file = Bad)
          /\ conf' = [conf EXCEPT ![file] = w.file]
          /\ Continue(s, next, command[s].missed \/ w.file = Bad)
    /\ UNCHANGED <<keyVars, confDir, node>>

\* pull: one of the downloads; the first error ends the command.
pullFile(s, file, next) ==
    /\ At(s, {"pull"}, file)
    /\ \E w \in InDir(DownloadFile(command[s].net, conf[file], command[s].interactive)) :
          /\ Count(w.err \/ w.file = Bad)
          /\ conf' = [conf EXCEPT ![file] = w.file]
          /\ IF w.err THEN Continue(s, "end", TRUE)
             ELSE Continue(s, next, command[s].missed \/ w.file = Bad)
    /\ UNCHANGED <<keyVars, confDir, node>>

\* monetd.toml, the last file of both: build always asks before it replaces one.
DumpGlobalTOML(s) ==
    /\ At(s, {"build", "pull"}, "toml")
    /\ \E w \in InDir(WriteToFile(conf.toml, command[s].toml,
                          IF command[s].interactive THEN {PromptIfExisting} ELSE {OverwriteSilently})) :
          /\ Count(w.err)
          /\ conf' = [conf EXCEPT !.toml = w.file]
          /\ Continue(s, "end", command[s].missed \/ w.err)
    /\ UNCHANGED <<keyVars, confDir, node>>

\* A build or a pull is interrupted at its prompt or between two files.
Interrupt(s) ==
    /\ command[s].name \in {"build", "pull"}
    /\ Count(TRUE)
    /\ command' = [command EXCEPT ![s] = Idle]
    /\ UNCHANGED <<keyVars, conf, confDir, unsettled, node>>

\* A directory that is not there is not backed up.
clearConfig(s) ==
    /\ command[s] = Idle
    /\ keystoreDir \/ confDir
    /\ clearKeystore
    /\ conf' = NoConf /\ confDir' = FALSE
    /\ UNCHANGED <<command, unsettled, faults, node>>

-----------------------------------------------------------------------------
(* The node reads its four files when it starts.                           *)

Readable(file) == conf[file] \notin {NoFile, Bad}

runMonet ==
    /\ ~node
    /\ \A file \in {"priv_key", "peers", "peers_genesis", "genesis"} : Readable(file)
    /\ node' = TRUE
    /\ UNCHANGED <<keyVars, command, conf, confDir, unsettled, faults>>

stopMonet == node /\ node' = FALSE /\ UNCHANGED <<keyVars, command, conf, confDir, unsettled, faults>>

-----------------------------------------------------------------------------
Init ==
    /\ KeystoreInit
    /\ conf = NoConf /\ confDir = FALSE
    /\ unsettled = FALSE /\ faults = 0 /\ node = FALSE

Next ==
    \/ KeyCommands /\ UNCHANGED confVars
    \/ \E s \in Shell :
          \/ \E m \in Moniker : buildConfig(s, m)
          \/ \E net \in Remote, keyParam \in Moniker \cup {NoMoniker}, force \in BOOLEAN :
                pullConfig(s, net, keyParam, force)
          \/ CreateMonetConfigFolders(s)
          \/ DumpPrivKey(s)
          \/ dumpPeers(s)
          \/ GenerateGenesisJSON(s)
          \/ pullFile(s, "peers_genesis", "peers")
          \/ pullFile(s, "peers", "genesis")
          \/ pullFile(s, "genesis", "toml")
          \/ DumpGlobalTOML(s)
          \/ Interrupt(s)
          \/ clearConfig(s)
    \/ runMonet \/ stopMonet

Spec == Init /\ [][Next]_cvars

-----------------------------------------------------------------------------
(* Properties.                                                             *)

\* Type correctness of the files and of what each shell is doing.
TypeOK ==
    /\ keystore \in [Moniker -> Key \cup {NoFile, Bad}] /\ keystoreDir \in BOOLEAN
    /\ backups \in [1 .. MaxLoops - 1 -> (SUBSET Key) \cup {NoFile}]
    /\ made \subseteq Key /\ excused \subseteq Key
    /\ conf.priv_key \in Key \cup {NoFile, Bad}
    /\ {conf.peers, conf.peers_genesis, conf.genesis} \subseteq Remote \cup Key \cup {NoFile, Bad}
    /\ conf.toml \in Moniker \cup {NoFile, Bad, NoMoniker}
    /\ confDir \in BOOLEAN /\ unsettled \in BOOLEAN /\ faults \in 0 .. MaxFaults /\ node \in BOOLEAN

\* The files are those of one network, which a node that is alone in it joins
\* with its own key.
OneNetwork ==
    /\ conf.peers = conf.genesis /\ conf.peers_genesis = conf.genesis
    /\ conf.genesis \in Key => conf.priv_key = conf.genesis

\* Whatever earlier commands left half-done, and whatever key commands, clears
\* and interrupts come in between, a node that starts after a build or a pull
\* that wrote all its files runs with the key, the peers and the genesis of one
\* network.  (build drops the errors of three of its writes and pull saves error
\* pages: such a command reports success and is not counted here.)
NodeOnOneNetwork == [][node' /\ ~node => unsettled \/ OneNetwork]_cvars
=============================================================================
