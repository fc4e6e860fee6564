------------------------- MODULE ConfigFiles_proofs -------------------------
(***************************************************************************)
(* Proofs about the keystore and the configuration files, for any monikers, *)
(* keys, shells and networks, any number of backups and of faults.          *)
(*                                                                          *)
(* The key commands keep what a shell saw at its prompt in the state of the *)
(* command: "new" has seen no file, and "update" writes the key it saw.     *)
(* build and pull write one file per step, so the induction says, for each  *)
(* step, which files are already those of the network being written.  Only  *)
(* one of them runs at a time, and when the directory is moved away under   *)
(* it, every later write fails and the command is not counted as complete.  *)
(***************************************************************************)
EXTENDS ConfigFiles, TLAPS

Content == Remote \cup Key \cup {NoFile, Bad}

Conf == [priv_key : Key \cup {NoFile, Bad}, peers : Content, peers_genesis : Content,
         genesis : Content, toml : Moniker \cup {NoFile, Bad, NoMoniker}]

Step == {"folders", "priv_key", "peers", "peers_genesis", "genesis", "toml"}

\* The steps before the first file is written.
Before == {"folders", "priv_key"}

KeyCommand  == [name : {"new", "update"}, moniker : Moniker, seen : Key \cup {NoFile}]
ConfCommand == [name : {"build", "pull"}, step : Step, key : Key, net : Remote \cup Key,
                interactive : BOOLEAN, toml : Moniker \cup {NoMoniker}, missed : BOOLEAN]

\* Type correctness, with the commands under way.
StateType ==
    /\ TypeOK
    /\ conf \in Conf
    /\ command \in [Shell -> {Idle} \cup KeyCommand \cup ConfCommand]

\* What a key command saw before its prompt.
SeenRight ==
    \A s \in Shell : /\ command[s].name = "new" => command[s].seen = NoFile
                     /\ command[s].name = "update" => command[s].seen \in Key

Writing(s) == command[s].name \in {"build", "pull"}

OneWriter == \A s, t \in Shell : Writing(s) /\ Writing(t) => s = t

\* What the command of shell s has written so far is of its network.
WrittenSoFar(s) ==
    LET c == command[s] IN
    /\ c.step \notin Before => unsettled
    /\ c.name = "build" => c.net = c.key
    /\ c.name = "pull" => c.net \in Remote
    /\ c.name = "build" /\ c.step = "peers" => c.missed = FALSE
    /\ c.missed = FALSE /\ confDir /\ c.name = "build" =>
          /\ c.step \notin Before => conf.priv_key = c.key
          /\ c.step \in {"genesis", "toml"} => conf.peers = c.net /\ conf.peers_genesis = c.net
          /\ c.step = "toml" => conf.genesis = c.net
    /\ c.missed = FALSE /\ confDir /\ c.name = "pull" =>
          /\ c.step \in {"peers", "genesis", "toml"} => conf.peers_genesis = c.net
          /\ c.step \in {"genesis", "toml"} => conf.peers = c.net
          /\ c.step = "toml" => conf.genesis = c.net

Settled == unsettled \/ OneNetwork

ConfInv == StateType /\ SeenRight /\ KeysKept
NetInv  == OneWriter /\ Settled /\ \A s \in Shell : Writing(s) => WrittenSoFar(s)

-----------------------------------------------------------------------------
(* The outcomes of the helpers.                                            *)

\* An outcome has the content and the error it is made of.
LEMMA OutcomeFields ==
    ASSUME NEW file
    PROVE  /\ Outcome(file, TRUE).file = file /\ Outcome(file, TRUE).err
           /\ Outcome(file, FALSE).file = file /\ ~Outcome(file, FALSE).err
BY DEF Outcome

\* A write leaves the old content, the new one, or one nobody can read, and the
\* new one when it succeeds.
LEMMA WriteFileOutcome ==
    ASSUME NEW old, NEW new, NEW w \in WriteFile(old, new)
    PROVE  w.file \in {old, new, Bad} /\ (w.err \/ w.file = new)
<1>1. w = Outcome(new, FALSE) \/ w = Outcome(old, TRUE) \/ w = Outcome(Bad, TRUE)
  BY DEF WriteFile
<1>2. CASE w = Outcome(new, FALSE)
  BY <1>2, OutcomeFields
<1>3. CASE w = Outcome(old, TRUE)
  BY <1>3, OutcomeFields
<1>4. CASE w = Outcome(Bad, TRUE)
  BY <1>4, OutcomeFields
<1> QED
  BY <1>1, <1>2, <1>3, <1>4

\* The same holds when the user may decline.
LEMMA WriteToFileOutcome ==
    ASSUME NEW old, NEW new, NEW options, NEW w \in WriteToFile(old, new, options)
    PROVE  w.file \in {old, new, Bad} /\ (w.err \/ w.file = new)
<1>1. w \in WriteFile(old, new) \/ w = Outcome(old, TRUE)
  BY DEF WriteToFile
<1>2. CASE w \in WriteFile(old, new)
  BY <1>2, WriteFileOutcome
<1>3. CASE w = Outcome(old, TRUE)
  BY <1>3, OutcomeFields
<1> QED
  BY <1>1, <1>2, <1>3

\* A download that succeeds leaves what was asked for, or an error page.
LEMMA DownloadOutcome ==
    ASSUME NEW body, NEW old, NEW interactive, NEW w \in DownloadFile(body, old, interactive)
    PROVE  w.file \in {old, body, Bad} /\ (w.err \/ w.file \in {body, Bad})
<1>1. PICK b \in getRequest(body) :
         w \in IF b.err THEN {Outcome(old, TRUE)}
               ELSE WriteToFile(old, b.file, IF interactive THEN {PromptIfExisting} ELSE {})
  BY DEF DownloadFile
<1>2. CASE b.err
  <2>1. w = Outcome(old, TRUE)
    BY <1>1, <1>2
  <2> QED
    BY <2>1, OutcomeFields
<1>3. CASE ~b.err
  <2>0. b = Outcome(body, FALSE) \/ b = Outcome(Bad, FALSE) \/ b = Outcome(NoFile, TRUE)
    BY DEF getRequest
  <2>1. b.file \in {body, Bad}
    <3>1. b # Outcome(NoFile, TRUE)
      BY <1>3, OutcomeFields
    <3>2. CASE b = Outcome(body, FALSE)
      BY <3>2, OutcomeFields
    <3>3. CASE b = Outcome(Bad, FALSE)
      BY <3>3, OutcomeFields
    <3> QED
      BY <2>0, <3>1, <3>2, <3>3
  <2>2. w \in WriteToFile(old, b.file, IF interactive THEN {PromptIfExisting} ELSE {})
    BY <1>1, <1>3
  <2>3. w.file \in {old, b.file, Bad} /\ (w.err \/ w.file = b.file)
    BY <2>2, WriteToFileOutcome
  <2> QED
    BY <2>1, <2>3
<1> QED
  BY <1>2, <1>3

\* Where there is no directory the write fails.
LEMMA InDirOutcome ==
    ASSUME NEW outcomes, NEW w \in InDir(outcomes)
    PROVE  \/ confDir /\ w \in outcomes
           \/ ~confDir /\ w.file = NoFile /\ w.err
BY OutcomeFields DEF InDir


-----------------------------------------------------------------------------
(* The keystore.                                                           *)

KeyType == /\ keystore \in [Moniker -> Key \cup {NoFile, Bad}] /\ keystoreDir \in BOOLEAN
           /\ backups \in [1 .. MaxLoops - 1 -> (SUBSET Key) \cup {NoFile}]
           /\ made \subseteq Key /\ excused \subseteq Key

\* A write over a file that is as it was seen loses no key, and any other write
\* excuses the key it may lose.
LEMMA WriteKeyfileKeeps ==
    ASSUME KeyType, KeysKept, NEW s \in Shell, NEW m \in Moniker, NEW k \in Key, NEW seen,
           seen \in {NoFile, k}, WriteKeyfile(s, m, k, seen)
    PROVE  /\ KeysKept' /\ UNCHANGED backups
           /\ keystore' \in [Moniker -> Key \cup {NoFile, Bad}]
           /\ made' \subseteq Key /\ excused' \subseteq Key
           /\ command' = [command EXCEPT ![s] = Idle]
<1>1. PICK w \in WriteFile(keystore[m], k) :
         /\ keystore' = [keystore EXCEPT ![m] = w.file]
         /\ made' = IF w.err THEN made ELSE made \cup {k}
         /\ excused' = IF w.file = Bad \/ keystore[m] # seen
                       THEN excused \cup ({keystore[m]} \cap Key) ELSE excused
  BY DEF WriteKeyfile
<1>2. UNCHANGED backups /\ command' = [command EXCEPT ![s] = Idle]
  BY DEF WriteKeyfile
<1>3. w.file \in {keystore[m], k, Bad} /\ (w.err \/ w.file = k)
  BY WriteFileOutcome
<1>4. /\ keystore' \in [Moniker -> Key \cup {NoFile, Bad}]
      /\ made' \subseteq Key /\ excused' \subseteq Key
  BY <1>1, <1>3 DEF KeyType
<1>5. BackedUp' = BackedUp
  BY <1>2 DEF BackedUp
<1>6. keystore'[m] = w.file /\ \A n \in Moniker : n # m => keystore'[n] = keystore[n]
  BY <1>1 DEF KeyType
<1>7. ASSUME NEW x \in made'
      PROVE  x \in {keystore'[n] : n \in Moniker} \cup BackedUp \cup excused'
  <2>1. CASE x \notin made
    BY <1>1, <1>3, <1>6, <2>1
  <2>2. CASE x \in BackedUp \cup excused
    BY <1>1, <2>2
  <2>3. CASE x \in made /\ x \notin BackedUp \cup excused
    <3>1. PICK n \in Moniker : x = keystore[n]
      BY <2>3 DEF KeysKept
    <3>2. x \in Key /\ x # NoFile
      BY <2>3, KeystoreAssumption DEF KeyType
    <3>3. CASE n # m
      BY <1>6, <3>1, <3>3
    <3>4. CASE n = m /\ (w.file = Bad \/ keystore[m] # seen)
      BY <1>1, <3>1, <3>2, <3>4
    <3>5. CASE n = m /\ w.file # Bad /\ keystore[m] = seen
      BY <1>3, <1>6, <3>1, <3>2, <3>5
    <3> QED
      BY <3>3, <3>4, <3>5
  <2> QED
    BY <2>1, <2>2, <2>3
<1>8. KeysKept'
  BY <1>5, <1>7 DEF KeysKept
<1> QED
  BY <1>2, <1>4, <1>8

\* Clearing moves the keys to a backup, and replaces no other.
LEMMA ClearKeeps ==
    ASSUME KeyType, KeysKept, clearKeystore
    PROVE  KeysKept' /\ KeyType'
<1> DEFINE free == FreeSuffixes({n \in DOMAIN backups : backups[n] # NoFile})
           keys == {keystore[m] : m \in Moniker} \cap Key
<1>1. PICK n \in free : backups' = [backups EXCEPT ![n] = keys]
  BY DEF clearKeystore
<1>2. n \in 1 .. MaxLoops - 1 /\ backups[n] = NoFile
  BY DEF FreeSuffixes, KeyType
<1>3. keystore' = [m \in Moniker |-> NoFile] /\ keystoreDir' = FALSE /\ UNCHANGED <<made, excused>>
  BY DEF clearKeystore
<1>4. KeyType'
  BY <1>1, <1>2, <1>3 DEF KeyType
<1>5. backups'[n] = keys /\ \A i \in 1 .. MaxLoops - 1 : i # n => backups'[i] = backups[i]
  BY <1>1, <1>2 DEF KeyType
<1>6. DOMAIN backups = 1 .. MaxLoops - 1 /\ DOMAIN backups' = 1 .. MaxLoops - 1
  BY <1>4 DEF KeyType
<1>7. ASSUME NEW x \in made PROVE x \in BackedUp' \cup excused
  <2>1. CASE x \in BackedUp
    <3>1. PICK i \in 1 .. MaxLoops - 1 : backups[i] # NoFile /\ x \in backups[i]
      BY <1>6, <2>1 DEF BackedUp
    <3> QED
      BY <1>2, <1>5, <1>6, <3>1 DEF BackedUp
  <2>2. CASE x \in {keystore[m] : m \in Moniker}
    <3>1. x \in keys
      BY <2>2 DEF KeyType
    <3>2. keys # NoFile
      BY KeystoreAssumption
    <3> QED
      BY <1>2, <1>5, <1>6, <3>1, <3>2 DEF BackedUp
  <2> QED
    BY <2>1, <2>2 DEF KeysKept
<1>8. KeysKept'
  BY <1>3, <1>7 DEF KeysKept
<1> QED
  BY <1>4, <1>8

Inv == ConfInv /\ NetInv

ConfType == /\ conf \in Conf /\ confDir \in BOOLEAN /\ unsettled \in BOOLEAN
            /\ faults \in 0 .. MaxFaults /\ node \in BOOLEAN

\* The parts of the type invariant.
LEMMA TypeParts == StateType <=> /\ KeyType /\ ConfType
                                 /\ command \in [Shell -> {Idle} \cup KeyCommand \cup ConfCommand]
BY DEF StateType, TypeOK, KeyType, ConfType, Conf, Content

\* A shell that is idle or at the prompt of a key command writes no file of the
\* configuration.
LEMMA NotWriting ==
    ASSUME NEW c \in {Idle} \cup KeyCommand
    PROVE  c.name \notin {"build", "pull"}
BY DEF Idle, KeyCommand

\* A key command goes from one of its own states to another.
LEMMA KeyStep ==
    ASSUME Inv, NEW s \in Shell, NEW c \in {Idle} \cup KeyCommand,
           command' = [command EXCEPT ![s] = c],
           c.name = "new" => c.seen = NoFile, c.name = "update" => c.seen \in Key,
           UNCHANGED confVars, KeyType', KeysKept'
    PROVE  Inv'
<1>1. command' \in [Shell -> {Idle} \cup KeyCommand \cup ConfCommand]
  BY DEF Inv, ConfInv, StateType
<1>2. command'[s] = c /\ \A t \in Shell : t # s => command'[t] = command[t]
  BY DEF Inv, ConfInv, StateType
<1>3. ConfType'
  BY TypeParts DEF Inv, ConfInv, ConfType, confVars
<1>4. StateType'
  BY <1>1, <1>3 DEF StateType, TypeOK, KeyType, ConfType, Conf, Content
<1>5. SeenRight'
  BY <1>2 DEF Inv, ConfInv, SeenRight
<1>6. ASSUME NEW t \in Shell, Writing(t)' PROVE t # s /\ Writing(t) /\ (WrittenSoFar(t) <=> WrittenSoFar(t)')
  BY <1>2, <1>6, NotWriting DEF Writing, WrittenSoFar, confVars
<1>7. OneWriter'
  BY <1>6 DEF Inv, NetInv, OneWriter
<1>8. Settled'
  BY DEF Inv, NetInv, Settled, OneNetwork, confVars
<1>9. \A t \in Shell : Writing(t)' => WrittenSoFar(t)'
  BY <1>6 DEF Inv, NetInv
<1> QED
  BY <1>4, <1>5, <1>7, <1>8, <1>9 DEF Inv, ConfInv, NetInv

\* The key commands.
LEMMA KeyCommandsKeep ==
    ASSUME Inv, KeyCommands, UNCHANGED confVars
    PROVE  Inv'
<1>0. PICK s \in Shell :
         \/ \E m \in Moniker : NewKeyfileFull(s, m) \/ generateKey(s, m) \/ UpdateKeyByMoniker(s, m)
         \/ \E k \in Key : GenerateKeyfile(s, k)
         \/ UpdateKey(s)
         \/ EndAtPrompt(s)
  BY DEF KeyCommands
<1>1. /\ KeyType /\ KeysKept
      /\ command \in [Shell -> {Idle} \cup KeyCommand \cup ConfCommand]
  BY TypeParts DEF Inv, ConfInv
<1>2. ASSUME UNCHANGED keyVars PROVE KeyType' /\ KeysKept'
  BY <1>1, <1>2 DEF KeyType, KeysKept, BackedUp, keyVars
<1>3. Idle \in {Idle} \cup KeyCommand /\ Idle.name \notin {"new", "update"}
  BY DEF Idle
<1>4. ASSUME NEW m \in Moniker, NewKeyfileFull(s, m) PROVE Inv'
  <2> DEFINE c == [name |-> "new", moniker |-> m, seen |-> NoFile]
  <2>1. KeyType' /\ KeysKept'
    BY <1>1, <1>4 DEF NewKeyfileFull, KeyType, KeysKept, BackedUp
  <2>2. command' = [command EXCEPT ![s] = Idle] \/ command' = [command EXCEPT ![s] = c]
    BY <1>1, <1>4 DEF NewKeyfileFull
  <2>3. c \in KeyCommand /\ c.name = "new" /\ c.seen = NoFile
    BY DEF KeyCommand
  <2> QED
    BY <1>3, <2>1, <2>2, <2>3, KeyStep
<1>5. ASSUME NEW m \in Moniker, UpdateKeyByMoniker(s, m) PROVE Inv'
  <2> DEFINE c == [name |-> "update", moniker |-> m, seen |-> keystore[m]]
  <2>1. UNCHANGED keyVars /\ command' = [command EXCEPT ![s] = c] /\ keystore[m] \in Key
    BY <1>5 DEF UpdateKeyByMoniker, Decrypts
  <2>2. c \in KeyCommand /\ c.name = "update" /\ c.seen \in Key
    BY <2>1 DEF KeyCommand
  <2> QED
    BY <1>2, <2>1, <2>2, KeyStep
<1>6. ASSUME NEW k \in Key, GenerateKeyfile(s, k) PROVE Inv'
  <2>1. command[s].name = "new" /\ keystoreDir' = TRUE
    BY <1>6 DEF GenerateKeyfile
  <2>2. command[s] \in KeyCommand
    BY <1>1, <2>1 DEF Idle, ConfCommand
  <2>3. command[s].moniker \in Moniker /\ command[s].seen = NoFile
    BY <2>1, <2>2 DEF KeyCommand, Inv, ConfInv, SeenRight
  <2>4. WriteKeyfile(s, command[s].moniker, k, command[s].seen)
    BY <1>6 DEF GenerateKeyfile
  <2>5. KeysKept' /\ KeyType' /\ command' = [command EXCEPT ![s] = Idle]
    BY <1>1, <2>1, <2>3, <2>4, WriteKeyfileKeeps DEF KeyType
  <2> QED
    BY <1>3, <2>5, KeyStep
<1>7. ASSUME UpdateKey(s) PROVE Inv'
  <2>1. command[s].name = "update" /\ UNCHANGED keystoreDir
    BY <1>7 DEF UpdateKey
  <2>2. command[s] \in KeyCommand
    BY <1>1, <2>1 DEF Idle, ConfCommand
  <2>3. command[s].moniker \in Moniker /\ command[s].seen \in Key
    BY <2>1, <2>2 DEF KeyCommand, Inv, ConfInv, SeenRight
  <2>4. KeysKept' /\ KeyType' /\ command' = [command EXCEPT ![s] = Idle]
    <3>1. CASE keystoreDir
      <4>1. WriteKeyfile(s, command[s].moniker, command[s].seen, command[s].seen)
        BY <1>7, <3>1 DEF UpdateKey
      <4> QED
        BY <1>1, <2>1, <2>3, <4>1, WriteKeyfileKeeps DEF KeyType
    <3>2. CASE ~keystoreDir
      BY <1>1, <1>7, <2>1, <3>2 DEF UpdateKey, KeyType, KeysKept, BackedUp
    <3> QED
      BY <3>1, <3>2
  <2> QED
    BY <1>3, <2>4, KeyStep
<1>8. ASSUME EndAtPrompt(s) PROVE Inv'
  BY <1>2, <1>3, <1>8, KeyStep DEF EndAtPrompt
<1> QED
  BY <1>0, <1>4, <1>5, <1>6, <1>7, <1>8 DEF generateKey

-----------------------------------------------------------------------------
(* The configuration files.                                                *)

\* A shell that writes has a command of this kind.
LEMMA WriterType ==
    ASSUME StateType, NEW s \in Shell, Writing(s)
    PROVE  command[s] \in ConfCommand
BY DEF StateType, Writing, Idle, KeyCommand

\* The state of the keys is left alone.
LEMMA KeysUnchanged ==
    ASSUME Inv, UNCHANGED keyVars
    PROVE  KeyType' /\ KeysKept'
<1>1. KeyType /\ KeysKept
  BY TypeParts DEF Inv, ConfInv
<1> QED
  BY <1>1 DEF KeyType, KeysKept, BackedUp, keyVars

\* A step of the command of shell s: what it ends with, or what it has written so
\* far, is right.
LEMMA WriterStep ==
    ASSUME Inv, NEW s \in Shell, Writing(s), NEW step \in (Step \ Before) \cup {"end"},
           NEW missed \in BOOLEAN, Continue(s, step, missed), UNCHANGED <<keyVars, confDir, node>>,
           conf' \in Conf, faults' \in 0 .. MaxFaults,
           step = "end" => missed \/ OneNetwork',
           command[s].name = "build" /\ step = "peers" => missed = FALSE,
           step # "end" /\ ~missed /\ confDir /\ command[s].name = "build" =>
              /\ conf'.priv_key = command[s].key
              /\ step \in {"genesis", "toml"} =>
                    conf'.peers = command[s].net /\ conf'.peers_genesis = command[s].net
              /\ step = "toml" => conf'.genesis = command[s].net,
           step # "end" /\ ~missed /\ confDir /\ command[s].name = "pull" =>
              /\ step \in {"peers", "genesis", "toml"} => conf'.peers_genesis = command[s].net
              /\ step \in {"genesis", "toml"} => conf'.peers = command[s].net
              /\ step = "toml" => conf'.genesis = command[s].net
    PROVE  Inv'
<1> DEFINE c == [command[s] EXCEPT !.step = step, !.missed = missed]
<1>1. command[s] \in ConfCommand /\ command \in [Shell -> {Idle} \cup KeyCommand \cup ConfCommand]
  BY WriterType DEF Inv, ConfInv, StateType
<1>2. command' = [command EXCEPT ![s] = IF step = "end" THEN Idle ELSE c]
  BY <1>1 DEF Continue
<1>3. unsettled' = (step # "end" \/ missed)
  BY DEF Continue
<1>4. step # "end" => /\ c \in ConfCommand /\ c.step = step /\ c.missed = missed
                      /\ c.name = command[s].name /\ c.key = command[s].key /\ c.net = command[s].net
  BY <1>1 DEF ConfCommand
<1>5. command' \in [Shell -> {Idle} \cup KeyCommand \cup ConfCommand]
  BY <1>1, <1>2, <1>4
<1>6. KeyType' /\ KeysKept'
  BY KeysUnchanged
<1>7. ConfType'
  BY <1>3, TypeParts DEF Inv, ConfInv, ConfType
<1>8. StateType'
  BY <1>5, <1>6, <1>7 DEF StateType, TypeOK, KeyType, ConfType, Conf, Content
<1>9. /\ command'[s] = IF step = "end" THEN Idle ELSE c
      /\ \A t \in Shell : t # s => command'[t] = command[t]
  BY <1>1, <1>2
<1>10. SeenRight'
  <2>1. command'[s].name \notin {"new", "update"}
    BY <1>4, <1>9 DEF Idle, Writing
  <2> QED
    BY <1>9, <2>1 DEF Inv, ConfInv, SeenRight
<1>11. \A t \in Shell : Writing(t)' => t = s /\ step # "end"
  BY <1>9 DEF Inv, NetInv, OneWriter, Writing, Idle
<1>12. OneWriter'
  BY <1>11 DEF OneWriter
<1>13. Settled'
  BY <1>3 DEF Settled
<1>14. ASSUME step # "end" PROVE WrittenSoFar(s)'
  <2>1. command'[s] = c
    BY <1>9, <1>14
  <2>2. /\ command[s].name = "build" => command[s].net = command[s].key
        /\ command[s].name = "pull" => command[s].net \in Remote
    BY DEF Inv, NetInv, WrittenSoFar
  <2>3. unsettled' /\ confDir' = confDir
    BY <1>3, <1>14
  <2> QED
    BY <1>4, <1>14, <2>1, <2>2, <2>3 DEF WrittenSoFar, Before
<1> QED
  BY <1>6, <1>8, <1>10, <1>11, <1>12, <1>13, <1>14 DEF Inv, ConfInv, NetInv

\* A build or a pull begins, and nothing is written yet.
LEMMA BeginKeeps ==
    ASSUME Inv, NEW s \in Shell, NEW m \in Moniker, NEW name \in {"build", "pull"}, NEW net,
           NEW interactive \in BOOLEAN, NEW toml \in Moniker \cup {NoMoniker},
           Begin(s, name, m, net, interactive, toml),
           name = "build" => net = keystore[m], name = "pull" => net \in Remote
    PROVE  Inv'
<1> DEFINE c == [name |-> name, step |-> "folders", key |-> keystore[m], net |-> net,
                 interactive |-> interactive, toml |-> toml, missed |-> FALSE]
<1>1. /\ command' = [command EXCEPT ![s] = c] /\ NoOther /\ keystore[m] \in Key
      /\ UNCHANGED <<keyVars, confVars>>
  BY DEF Begin, Decrypts
<1>2. c \in ConfCommand
  BY <1>1 DEF ConfCommand, Step
<1>3. command \in [Shell -> {Idle} \cup KeyCommand \cup ConfCommand]
  BY DEF Inv, ConfInv, StateType
<1>4. command' \in [Shell -> {Idle} \cup KeyCommand \cup ConfCommand]
  BY <1>1, <1>2, <1>3
<1>5. command'[s] = c /\ \A t \in Shell : t # s => command'[t] = command[t]
  BY <1>1, <1>3
<1>6. KeyType' /\ KeysKept'
  BY <1>1, KeysUnchanged
<1>7. ConfType'
  BY <1>1, TypeParts DEF Inv, ConfInv, ConfType, confVars
<1>8. StateType'
  BY <1>4, <1>6, <1>7 DEF StateType, TypeOK, KeyType, ConfType, Conf, Content
<1>9. SeenRight'
  BY <1>5 DEF Inv, ConfInv, SeenRight
<1>10. \A t \in Shell : Writing(t)' => t = s
  BY <1>1, <1>5 DEF NoOther, Writing
<1>11. OneWriter' /\ Settled'
  BY <1>1, <1>10 DEF Inv, NetInv, OneWriter, Settled, OneNetwork, confVars
<1>12. WrittenSoFar(s)'
  BY <1>1, <1>5 DEF WrittenSoFar, Before
<1> QED
  BY <1>6, <1>8, <1>9, <1>10, <1>11, <1>12 DEF Inv, ConfInv, NetInv

\* The folders are made; still nothing is written.
LEMMA FoldersKeep ==
    ASSUME Inv, NEW s \in Shell, CreateMonetConfigFolders(s)
    PROVE  Inv'
<1> DEFINE c == [command[s] EXCEPT !.step = "priv_key"]
<1>1. /\ command' = [command EXCEPT ![s].step = "priv_key"] /\ confDir' = TRUE
      /\ command[s].name \in {"build", "pull"} /\ command[s].step = "folders"
      /\ UNCHANGED <<keyVars, conf, unsettled, faults, node>>
  BY DEF CreateMonetConfigFolders, At
<1>2. command[s] \in ConfCommand /\ command \in [Shell -> {Idle} \cup KeyCommand \cup ConfCommand]
  BY <1>1, WriterType DEF Inv, ConfInv, StateType, Writing
<1>3. /\ c \in ConfCommand /\ c.step = "priv_key" /\ c.name = command[s].name
      /\ c.key = command[s].key /\ c.net = command[s].net /\ c.missed = command[s].missed
  BY <1>2 DEF ConfCommand, Step
<1>4. command' = [command EXCEPT ![s] = c]
  BY <1>1, <1>2
<1>5. command' \in [Shell -> {Idle} \cup KeyCommand \cup ConfCommand]
  BY <1>2, <1>3, <1>4
<1>6. command'[s] = c /\ \A t \in Shell : t # s => command'[t] = command[t]
  BY <1>2, <1>4
<1>7. KeyType' /\ KeysKept'
  BY <1>1, KeysUnchanged
<1>8. ConfType'
  BY <1>1, TypeParts DEF Inv, ConfInv, ConfType
<1>9. StateType'
  BY <1>5, <1>7, <1>8 DEF StateType, TypeOK, KeyType, ConfType, Conf, Content
<1>10. SeenRight'
  BY <1>1, <1>3, <1>6 DEF Inv, ConfInv, SeenRight
<1>11. \A t \in Shell : Writing(t)' => t = s
  BY <1>1, <1>6 DEF Inv, NetInv, OneWriter, Writing
<1>12. OneWriter' /\ Settled'
  BY <1>1, <1>11 DEF Inv, NetInv, OneWriter, Settled, OneNetwork
<1>13. WrittenSoFar(s)
  BY <1>1 DEF Inv, NetInv, Writing
<1>14. WrittenSoFar(s)'
  BY <1>1, <1>3, <1>6, <1>13 DEF WrittenSoFar, Before
<1> QED
  BY <1>7, <1>9, <1>10, <1>11, <1>12, <1>14 DEF Inv, ConfInv, NetInv

\* The count of faults stays within its bound.
LEMMA CountType ==
    ASSUME Inv, NEW fault, Count(fault)
    PROVE  faults' \in 0 .. MaxFaults
BY ConfigAssumption, TypeParts DEF Count, Inv, ConfInv, ConfType

\* What is known of the command of a shell that is about to write.
LEMMA WriterFacts ==
    ASSUME Inv, NEW s \in Shell, Writing(s)
    PROVE  /\ command[s] \in ConfCommand /\ WrittenSoFar(s) /\ conf \in Conf /\ confDir \in BOOLEAN
           /\ command[s].key \in Key /\ command[s].net \in Remote \cup Key
           /\ command[s].missed \in BOOLEAN /\ command[s].interactive \in BOOLEAN
           /\ command[s].toml \in Moniker \cup {NoMoniker} /\ command[s].name \in {"build", "pull"}
<1>1. StateType /\ WrittenSoFar(s) /\ conf \in Conf /\ confDir \in BOOLEAN
  BY TypeParts DEF Inv, ConfInv, NetInv, ConfType
<1>2. command[s] \in ConfCommand
  BY <1>1, WriterType
<1> QED
  BY <1>1, <1>2 DEF ConfCommand

\* The private key.
LEMMA DumpPrivKeyKeeps ==
    ASSUME Inv, NEW s \in Shell, DumpPrivKey(s)
    PROVE  Inv'
<1>1. PICK w \in InDir(WriteFile(conf.priv_key, command[s].key)) :
         /\ Count(w.err)
         /\ conf' = [conf EXCEPT !.priv_key = w.file]
         /\ IF w.err THEN Continue(s, "end", TRUE)
            ELSE Continue(s, IF command[s].name = "build" THEN "peers" ELSE "peers_genesis", FALSE)
  BY DEF DumpPrivKey
<1>2. Writing(s) /\ UNCHANGED <<keyVars, confDir, node>>
  BY DEF DumpPrivKey, At, Writing
<1>3. /\ conf \in Conf /\ command[s].key \in Key
      /\ command[s].name \in {"build", "pull"}
  BY <1>2, WriterFacts
<1>4. w.file \in {conf.priv_key, command[s].key, Bad, NoFile} /\ (w.err \/ w.file = command[s].key)
  BY InDirOutcome, WriteFileOutcome
<1>5. conf' \in Conf /\ conf'.priv_key = w.file
  BY <1>1, <1>3, <1>4 DEF Conf
<1>6. faults' \in 0 .. MaxFaults
  BY <1>1, CountType
<1>7. CASE w.err
  <2>1. Continue(s, "end", TRUE)
    BY <1>1, <1>7
  <2> QED
    BY <1>2, <1>5, <1>6, <2>1, WriterStep
<1>8. CASE ~w.err /\ command[s].name = "build"
  <2>1. Continue(s, "peers", FALSE) /\ conf'.priv_key = command[s].key
    BY <1>1, <1>4, <1>5, <1>8
  <2>2. "peers" \in Step \ Before
    BY DEF Step, Before
  <2> QED
    BY <1>2, <1>5, <1>6, <1>8, <2>1, <2>2, WriterStep
<1>9. CASE ~w.err /\ command[s].name = "pull"
  <2>1. Continue(s, "peers_genesis", FALSE)
    BY <1>1, <1>9
  <2>2. "peers_genesis" \in Step \ Before
    BY DEF Step, Before
  <2> QED
    BY <1>2, <1>5, <1>6, <1>9, <2>1, <2>2, WriterStep
<1> QED
  BY <1>3, <1>7, <1>8, <1>9

\* The two peers files of a build.
LEMMA dumpPeersKeeps ==
    ASSUME Inv, NEW s \in Shell, dumpPeers(s)
    PROVE  Inv'
<1>1. PICK v \in InDir(WriteToFile(conf.peers, command[s].net, {OverwriteSilently})),
           w \in InDir(WriteToFile(conf.peers_genesis, command[s].net, {OverwriteSilently})) :
         /\ Count(v.err \/ w.err)
         /\ conf' = [conf EXCEPT !.peers = v.file, !.peers_genesis = w.file]
         /\ Continue(s, "genesis", v.err \/ w.err)
  BY DEF dumpPeers
<1>2. /\ Writing(s) /\ command[s].name = "build" /\ command[s].step = "peers"
      /\ UNCHANGED <<keyVars, confDir, node>>
  BY DEF dumpPeers, At, Writing
<1>3. conf \in Conf /\ command[s].net \in Remote \cup Key /\ WrittenSoFar(s)
  BY <1>2, WriterFacts
<1>4. /\ v.file \in {conf.peers, command[s].net, Bad, NoFile} /\ (v.err \/ v.file = command[s].net)
      /\ w.file \in {conf.peers_genesis, command[s].net, Bad, NoFile}
      /\ (w.err \/ w.file = command[s].net)
  BY InDirOutcome, WriteToFileOutcome
<1>5. /\ conf' \in Conf /\ conf'.peers = v.file /\ conf'.peers_genesis = w.file
      /\ conf'.priv_key = conf.priv_key
  BY <1>1, <1>3, <1>4 DEF Conf, Content
<1>6. faults' \in 0 .. MaxFaults
  BY <1>1, CountType
<1>7. "genesis" \in Step \ Before
  BY DEF Step, Before
<1>8. CASE v.err \/ w.err
  <2>1. Continue(s, "genesis", TRUE)
    BY <1>1, <1>8 DEF Continue
  <2> QED
    BY <1>2, <1>5, <1>6, <1>7, <2>1, WriterStep
<1>9. CASE ~(v.err \/ w.err)
  <2>1. Continue(s, "genesis", FALSE)
    BY <1>1, <1>9 DEF Continue
  <2>2. confDir
    BY <1>9, InDirOutcome
  <2>3. conf.priv_key = command[s].key
    BY <1>2, <1>3, <2>2 DEF WrittenSoFar, Before
  <2> QED
    BY <1>2, <1>4, <1>5, <1>6, <1>7, <1>9, <2>1, <2>3, WriterStep
<1> QED
  BY <1>8, <1>9

\* The genesis file of a build.
LEMMA GenerateGenesisJSONKeeps ==
    ASSUME Inv, NEW s \in Shell, GenerateGenesisJSON(s)
    PROVE  Inv'
<1>1. /\ Writing(s) /\ command[s].name = "build" /\ command[s].step = "genesis"
      /\ UNCHANGED <<keyVars, confDir, node>>
  BY DEF GenerateGenesisJSON, At, Writing
<1>2. /\ conf \in Conf /\ command[s].net \in Remote \cup Key /\ WrittenSoFar(s)
      /\ command[s].missed \in BOOLEAN
  BY <1>1, WriterFacts
<1>3. CASE ~buildAlloc
  <2>1. Continue(s, "end", TRUE) /\ UNCHANGED <<conf, faults>>
    BY <1>3 DEF GenerateGenesisJSON
  <2>2. faults' \in 0 .. MaxFaults
    BY <2>1, TypeParts DEF Inv, ConfInv, ConfType
  <2> QED
    BY <1>1, <1>2, <2>1, <2>2, WriterStep
<1>4. CASE buildAlloc
  <2>1. PICK w \in InDir(WriteToFile(conf.genesis, command[s].net, {OverwriteSilently})) :
           /\ Count(w.err)
           /\ conf' = [conf EXCEPT !.genesis = w.file]
           /\ Continue(s, "toml", command[s].missed \/ w.err)
    BY <1>4 DEF GenerateGenesisJSON
  <2>2. w.file \in {conf.genesis, command[s].net, Bad, NoFile} /\ (w.err \/ w.file = command[s].net)
    BY InDirOutcome, WriteToFileOutcome
  <2>3. /\ conf' \in Conf /\ conf'.genesis = w.file /\ conf'.peers = conf.peers
        /\ conf'.priv_key = conf.priv_key /\ conf'.peers_genesis = conf.peers_genesis
    BY <1>2, <2>1, <2>2 DEF Conf, Content
  <2>4. faults' \in 0 .. MaxFaults
    BY <2>1, CountType
  <2>5. "toml" \in Step \ Before
    BY DEF Step, Before
  <2>6. CASE command[s].missed \/ w.err
    <3>1. Continue(s, "toml", TRUE)
      BY <2>1, <2>6 DEF Continue
    <3> QED
      BY <1>1, <2>3, <2>4, <2>5, <3>1, WriterStep
  <2>7. CASE ~(command[s].missed \/ w.err)
    <3>1. Continue(s, "toml", FALSE)
      BY <2>1, <2>7 DEF Continue
    <3>2. command[s].missed = FALSE /\ confDir
      BY <1>2, <2>7, InDirOutcome
    <3>3. /\ conf.priv_key = command[s].key
          /\ conf.peers = command[s].net /\ conf.peers_genesis = command[s].net
      BY <1>1, <1>2, <3>2 DEF WrittenSoFar, Before
    <3> QED
      BY <1>1, <2>2, <2>3, <2>4, <2>5, <2>7, <3>1, <3>3, WriterStep
  <2> QED
    BY <2>6, <2>7
<1> QED
  BY <1>3, <1>4

\* The three downloads of a pull.
LEMMA pullFileKeeps ==
    ASSUME Inv, NEW s \in Shell, NEW file, NEW next,
           <<file, next>> \in {<<"peers_genesis", "peers">>, <<"peers", "genesis">>, <<"genesis", "toml">>},
           pullFile(s, file, next)
    PROVE  Inv'
<1>1. PICK w \in InDir(DownloadFile(command[s].net, conf[file], command[s].interactive)) :
         /\ Count(w.err \/ w.file = Bad)
         /\ conf' = [conf EXCEPT ![file] = w.file]
         /\ IF w.err THEN Continue(s, "end", TRUE)
            ELSE Continue(s, next, command[s].missed \/ w.file = Bad)
  BY DEF pullFile
<1>2. /\ Writing(s) /\ command[s].name = "pull" /\ command[s].step = file
      /\ UNCHANGED <<keyVars, confDir, node>>
  BY DEF pullFile, At, Writing
<1>3. /\ conf \in Conf /\ command[s].net \in Remote \cup Key /\ WrittenSoFar(s)
      /\ command[s].missed \in BOOLEAN
  BY <1>2, WriterFacts
<1>4. w.file \in {conf[file], command[s].net, Bad, NoFile} /\ (w.err \/ w.file \in {command[s].net, Bad})
  BY InDirOutcome, DownloadOutcome
<1>5. faults' \in 0 .. MaxFaults
  BY <1>1, CountType
<1>6. next \in Step \ Before /\ file \in {"peers", "peers_genesis", "genesis"}
  BY DEF Step, Before
<1>7. /\ conf' \in Conf /\ conf'[file] = w.file
      /\ \A f \in {"peers", "peers_genesis", "genesis"} : f # file => conf'[f] = conf[f]
  BY <1>1, <1>3, <1>4, <1>6 DEF Conf, Content
<1>8. CASE w.err
  <2>1. Continue(s, "end", TRUE)
    BY <1>1, <1>8
  <2> QED
    BY <1>2, <1>5, <1>7, <2>1, WriterStep
<1>9. CASE ~w.err /\ (command[s].missed \/ w.file = Bad)
  <2>1. Continue(s, next, TRUE)
    BY <1>1, <1>9 DEF Continue
  <2> QED
    BY <1>2, <1>5, <1>6, <1>7, <2>1, WriterStep
<1>10. CASE ~w.err /\ ~(command[s].missed \/ w.file = Bad)
  <2>1. Continue(s, next, FALSE)
    BY <1>1, <1>10 DEF Continue
  <2>2. command[s].missed = FALSE /\ confDir /\ conf'[file] = command[s].net
    BY <1>3, <1>4, <1>7, <1>10, InDirOutcome
  <2>3. CASE file = "peers_genesis" /\ next = "peers"
    BY <1>2, <1>5, <1>6, <1>7, <2>1, <2>2, <2>3, WriterStep
  <2>4. CASE file = "peers" /\ next = "genesis"
    <3>1. conf.peers_genesis = command[s].net
      BY <1>2, <1>3, <2>2, <2>4 DEF WrittenSoFar, Before
    <3> QED
      BY <1>2, <1>5, <1>6, <1>7, <2>1, <2>2, <2>4, <3>1, WriterStep
  <2>5. CASE file = "genesis" /\ next = "toml"
    <3>1. conf.peers_genesis = command[s].net /\ conf.peers = command[s].net
      BY <1>2, <1>3, <2>2, <2>5 DEF WrittenSoFar, Before
    <3> QED
      BY <1>2, <1>5, <1>6, <1>7, <2>1, <2>2, <2>5, <3>1, WriterStep
  <2> QED
    BY <2>3, <2>4, <2>5
<1> QED
  BY <1>8, <1>9, <1>10

\* monetd.toml, with which the command is complete.
LEMMA DumpGlobalTOMLKeeps ==
    ASSUME Inv, NEW s \in Shell, DumpGlobalTOML(s)
    PROVE  Inv'
<1> DEFINE options == IF command[s].interactive THEN {PromptIfExisting} ELSE {OverwriteSilently}
<1>1. PICK w \in InDir(WriteToFile(conf.toml, command[s].toml, options)) :
         /\ Count(w.err)
         /\ conf' = [conf EXCEPT !.toml = w.file]
         /\ Continue(s, "end", command[s].missed \/ w.err)
  BY DEF DumpGlobalTOML
<1>2. /\ Writing(s) /\ command[s].step = "toml" /\ command[s].name \in {"build", "pull"}
      /\ UNCHANGED <<keyVars, confDir, node>>
  BY DEF DumpGlobalTOML, At, Writing
<1>3. /\ conf \in Conf /\ command[s].toml \in Moniker \cup {NoMoniker} /\ WrittenSoFar(s)
      /\ command[s].missed \in BOOLEAN
  BY <1>2, WriterFacts
<1>4. w.file \in {conf.toml, command[s].toml, Bad, NoFile}
  BY InDirOutcome, WriteToFileOutcome
<1>5. /\ conf' \in Conf /\ conf'.priv_key = conf.priv_key /\ conf'.peers = conf.peers
      /\ conf'.peers_genesis = conf.peers_genesis /\ conf'.genesis = conf.genesis
  BY <1>1, <1>3, <1>4 DEF Conf
<1>6. faults' \in 0 .. MaxFaults
  BY <1>1, CountType
<1>7. CASE command[s].missed \/ w.err
  <2>1. Continue(s, "end", TRUE)
    BY <1>1, <1>7 DEF Continue
  <2> QED
    BY <1>2, <1>5, <1>6, <2>1, WriterStep
<1>8. CASE ~(command[s].missed \/ w.err)
  <2>1. Continue(s, "end", FALSE)
    BY <1>1, <1>8 DEF Continue
  <2>2. command[s].missed = FALSE /\ confDir
    BY <1>3, <1>8, InDirOutcome
  <2>3. OneNetwork
    BY <1>2, <1>3, <2>2, ConfigAssumption DEF WrittenSoFar, OneNetwork, Before
  <2>4. OneNetwork'
    BY <1>5, <2>3 DEF OneNetwork
  <2> QED
    BY <1>2, <1>5, <1>6, <2>1, <2>4, WriterStep
<1> QED
  BY <1>7, <1>8

\* An interrupt leaves the files as they are.
LEMMA InterruptKeeps ==
    ASSUME Inv, NEW s \in Shell, Interrupt(s)
    PROVE  Inv'
<1>1. /\ command' = [command EXCEPT ![s] = Idle] /\ Count(TRUE)
      /\ UNCHANGED <<keyVars, conf, confDir, unsettled, node>>
  BY DEF Interrupt
<1>2. command \in [Shell -> {Idle} \cup KeyCommand \cup ConfCommand]
  BY DEF Inv, ConfInv, StateType
<1>3. command' \in [Shell -> {Idle} \cup KeyCommand \cup ConfCommand]
  BY <1>1, <1>2
<1>4. command'[s] = Idle /\ \A t \in Shell : t # s => command'[t] = command[t]
  BY <1>1, <1>2
<1>5. KeyType' /\ KeysKept'
  BY <1>1, KeysUnchanged
<1>6. ConfType'
  BY <1>1, CountType, TypeParts DEF Inv, ConfInv, ConfType
<1>7. StateType'
  BY <1>3, <1>5, <1>6 DEF StateType, TypeOK, KeyType, ConfType, Conf, Content
<1>8. SeenRight'
  BY <1>4 DEF Inv, ConfInv, SeenRight, Idle
<1>9. \A t \in Shell : Writing(t)' => t # s /\ Writing(t)
  BY <1>4 DEF Writing, Idle
<1>10. OneWriter' /\ Settled'
  BY <1>1, <1>9 DEF Inv, NetInv, OneWriter, Settled, OneNetwork
<1>11. \A t \in Shell : Writing(t)' => WrittenSoFar(t)'
  BY <1>1, <1>4, <1>9 DEF Inv, NetInv, WrittenSoFar
<1> QED
  BY <1>5, <1>7, <1>8, <1>10, <1>11 DEF Inv, ConfInv, NetInv

\* After a clear there are no files, and a command under way has none to write to.
LEMMA clearConfigKeeps ==
    ASSUME Inv, NEW s \in Shell, clearConfig(s)
    PROVE  Inv'
<1>1. /\ clearKeystore /\ conf' = NoConf /\ confDir' = FALSE
      /\ UNCHANGED <<command, unsettled, faults, node>>
  BY DEF clearConfig
<1>2. KeyType' /\ KeysKept'
  BY <1>1, ClearKeeps, TypeParts DEF Inv, ConfInv
<1>3. ConfType'
  BY <1>1, TypeParts DEF Inv, ConfInv, ConfType, NoConf, Conf, Content
<1>4. StateType'
  BY <1>1, <1>2, <1>3 DEF Inv, ConfInv, StateType, TypeOK, KeyType, ConfType, Conf, Content
<1>5. SeenRight' /\ OneWriter'
  BY <1>1 DEF Inv, ConfInv, NetInv, SeenRight, OneWriter, Writing
<1>6. Settled'
  BY <1>1, KeystoreAssumption DEF Settled, OneNetwork, NoConf
<1>7. \A t \in Shell : Writing(t)' => WrittenSoFar(t)'
  BY <1>1 DEF Inv, NetInv, Writing, WrittenSoFar
<1> QED
  BY <1>2, <1>4, <1>5, <1>6, <1>7 DEF Inv, ConfInv, NetInv

\* Starting and stopping a node changes no file.
LEMMA NodeKeeps ==
    ASSUME Inv, node' \in BOOLEAN, UNCHANGED <<keyVars, command, conf, confDir, unsettled, faults>>
    PROVE  Inv'
<1>1. KeyType' /\ KeysKept'
  BY KeysUnchanged
<1>2. ConfType'
  BY TypeParts DEF Inv, ConfInv, ConfType
<1>3. StateType'
  BY <1>1, <1>2 DEF Inv, ConfInv, StateType, TypeOK, KeyType, ConfType, Conf, Content
<1> QED
  BY <1>1, <1>3 DEF Inv, ConfInv, NetInv, SeenRight, OneWriter, Writing, Settled, OneNetwork, WrittenSoFar

-----------------------------------------------------------------------------
\* Nothing is there at first.
LEMMA InvInit == Init => Inv
<1> SUFFICES ASSUME Init PROVE Inv
  OBVIOUS
<1>1. KeyType /\ ConfType
  <2>1. KeyType
    BY DEF Init, KeystoreInit, KeyType
  <2>2. NoConf \in Conf
    BY DEF NoConf, Conf, Content
  <2>3. 0 \in 0 .. MaxFaults
    BY ConfigAssumption
  <2> QED
    BY <2>1, <2>2, <2>3 DEF Init, ConfType
<1>2. command \in [Shell -> {Idle} \cup KeyCommand \cup ConfCommand] /\ \A s \in Shell : command[s] = Idle
  BY DEF Init, KeystoreInit
<1>3. ConfInv
  BY <1>1, <1>2, TypeParts DEF ConfInv, SeenRight, KeysKept, Init, KeystoreInit, Idle
<1>4. NetInv
  BY <1>2, KeystoreAssumption DEF NetInv, OneWriter, Writing, Settled, OneNetwork, Init, NoConf, Idle
<1> QED
  BY <1>3, <1>4 DEF Inv

\* A moniker read from monetd.toml, or the default one.
LEMMA GlobalMonikerType == GlobalMoniker \in Moniker \cup {NoMoniker}
BY DEF GlobalMoniker

\* Every command, and every step of one, preserves the invariant.
LEMMA InvNext == Inv /\ [Next]_cvars => Inv'
<1> SUFFICES ASSUME Inv, [Next]_cvars PROVE Inv'
  OBVIOUS
<1>1. CASE KeyCommands /\ UNCHANGED confVars
  BY <1>1, KeyCommandsKeep
<1>2. ASSUME NEW s \in Shell, NEW m \in Moniker, buildConfig(s, m) PROVE Inv'
  BY <1>2, BeginKeeps DEF buildConfig
<1>3. ASSUME NEW s \in Shell, NEW net \in Remote, NEW keyParam \in Moniker \cup {NoMoniker},
             NEW force \in BOOLEAN, pullConfig(s, net, keyParam, force)
      PROVE  Inv'
  <2>1. PICK m \in Moniker : Begin(s, "pull", m, net, ~force, GlobalMoniker)
    BY <1>3 DEF pullConfig, getDefaultKey
  <2> QED
    BY <2>1, BeginKeeps, GlobalMonikerType
<1>4. ASSUME NEW s \in Shell,
             \/ CreateMonetConfigFolders(s)
             \/ DumpPrivKey(s) \/ dumpPeers(s) \/ GenerateGenesisJSON(s)
             \/ pullFile(s, "peers_genesis", "peers") \/ pullFile(s, "peers", "genesis")
             \/ pullFile(s, "genesis", "toml") \/ DumpGlobalTOML(s)
      PROVE  Inv'
  BY <1>4, FoldersKeep, DumpPrivKeyKeeps, dumpPeersKeeps, GenerateGenesisJSONKeeps, pullFileKeeps,
     DumpGlobalTOMLKeeps
<1>5. ASSUME NEW s \in Shell, Interrupt(s) \/ clearConfig(s) PROVE Inv'
  BY <1>5, InterruptKeeps, clearConfigKeeps
<1>6. CASE runMonet \/ stopMonet
  BY <1>6, NodeKeeps DEF runMonet, stopMonet
<1>7. CASE UNCHANGED cvars
  <2>1. node' \in BOOLEAN
    BY <1>7, TypeParts DEF Inv, ConfInv, ConfType, cvars, confVars
  <2> QED
    BY <1>7, <2>1, NodeKeeps DEF cvars, confVars
<1> QED
  BY <1>1, <1>2, <1>3, <1>4, <1>5, <1>6, <1>7 DEF Next

\* The inductive invariant holds throughout.
THEOREM AlwaysInv == Spec => []Inv
BY InvInit, InvNext, PTL DEF Spec

\* Type correctness of the files, for any monikers, keys, shells and networks.
THEOREM ConfigTypeCorrect == Spec => []TypeOK
<1>1. Inv => TypeOK
  BY DEF Inv, ConfInv, StateType
<1> QED
  BY <1>1, AlwaysInv, PTL

\* No interleaving of key commands (new, import, generate, update), builds,
\* pulls and clears loses a key, but for a cut write or a stale look.
THEOREM KeysAlwaysKept == Spec => []KeysKept
<1>1. Inv => KeysKept
  BY DEF Inv, ConfInv
<1> QED
  BY <1>1, AlwaysInv, PTL

\* A node started after a build or a pull that wrote all its files has the key,
\* the peers and the genesis of one network, for any number of shells.
THEOREM NodeAlwaysOnOneNetwork == Spec => NodeOnOneNetwork
<1>1. Inv /\ [Next]_cvars => [node' /\ ~node => unsettled \/ OneNetwork]_cvars
  BY DEF Inv, NetInv, Settled
<1> QED
  BY <1>1, AlwaysInv, PTL DEF Spec, NodeOnOneNetwork
=============================================================================
