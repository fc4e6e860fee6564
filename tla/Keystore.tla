------------------------------ MODULE Keystore ------------------------------
(***************************************************************************)
(* The keystore (src/crypto, src/keystore) under the key commands of monetd *)
(* and giverny, run in several shells at once: nothing locks a keyfile, and *)
(* each command asks for a passphrase between its look at the keyfile and   *)
(* its write.  A keyfile is the key in it: a wrong passphrase is a command  *)
(* that fails, and changing the passphrase rewrites the file with the same  *)
(* key.  A command may be interrupted at a prompt or while it writes.       *)
(***************************************************************************)
EXTENDS Files

CONSTANTS Moniker, Key, Shell

ASSUME KeystoreAssumption ==
    NoFile \notin Key /\ Bad \notin Key /\ \A keys \in SUBSET Key : keys # NoFile

VARIABLES
    keystore,      \* keystore[m]: the content of <keystore>/m.json
    keystoreDir,   \* whether the directory exists
    backups,       \* the keys in the backups of the monet directory, by suffix
    command,       \* what each shell is running
    made,          \* history: the keys ever written to the keystore
    excused        \* history: the keys lost to a cut write or to a stale look

keyVars == <<keystore, keystoreDir, backups, made, excused>>

Idle == [name |-> "idle"]

-----------------------------------------------------------------------------
\* DecryptKey: whether a keyfile gives a key to who knows its passphrase.
Decrypts(m) == keystore[m] \in Key

\* Shell s writes key k to the keyfile of m, of which it last saw the content
\* seen.  A key in the file is excused when the write is cut short, or when the
\* file has changed since the shell looked.
WriteKeyfile(s, m, k, seen) ==
    \E w \in WriteFile(keystore[m], k) :
        /\ keystore' = [keystore EXCEPT ![m] = w.file]
        /\ made' = IF w.err THEN made ELSE made \cup {k}
        /\ excused' = IF w.file = Bad \/ keystore[m] # seen
                      THEN excused \cup ({keystore[m]} \cap Key) ELSE excused
        /\ command' = [command EXCEPT ![s] = Idle]
        /\ UNCHANGED backups

\* Mutant: an existing keyfile is not looked for.
NewKeyfileFull_NoCheck(s, m) ==
    /\ command[s] = Idle
    /\ command' = [command EXCEPT ![s] = [name |-> "new", moniker |-> m, seen |-> keystore[m]]]
    /\ keystoreDir' = TRUE
    /\ UNCHANGED <<keystore, backups, made, excused>>

\* "monetd keys new" and "giverny keys import": the keystore is created, and a
\* keyfile that exists is refused.  Then the passphrase is asked for.
NewKeyfileFull(s, m) ==
    /\ command[s] = Idle
    /\ keystoreDir' = TRUE
    /\ command' = IF CheckIfExists(keystore[m]) THEN command
                  ELSE [command EXCEPT ![s] = [name |-> "new", moniker |-> m, seen |-> NoFile]]
    /\ UNCHANGED <<keystore, backups, made, excused>>

\* "giverny keys generate", for one suffix: an existing keyfile is skipped
\* before the password file is written.
generateKey(s, m) == ~CheckIfExists(keystore[m]) /\ NewKeyfileFull(s, m)

\* The key, random or imported, is encrypted and written; the directory is made
\* again if it has gone.
GenerateKeyfile(s, k) ==
    /\ command[s].name = "new"
    /\ keystoreDir' = TRUE
    /\ WriteKeyfile(s, command[s].moniker, k, command[s].seen)

\* Mutant: what the keyfile holds is taken for a key.
UpdateKeyByMoniker_NoDecrypt(s, m) ==
    /\ command[s] = Idle
    /\ command' = [command EXCEPT ![s] = [name |-> "update", moniker |-> m, seen |-> keystore[m]]]
    /\ UNCHANGED keyVars

\* "monetd keys update": the keyfile is read and decrypted, and the new
\* passphrase asked for.
UpdateKeyByMoniker(s, m) ==
    /\ command[s] = Idle
    /\ Decrypts(m)
    /\ command' = [command EXCEPT ![s] = [name |-> "update", moniker |-> m, seen |-> keystore[m]]]
    /\ UNCHANGED keyVars

\* The key is written back in place; the write fails if the directory has gone.
UpdateKey(s) ==
    /\ command[s].name = "update"
    /\ IF keystoreDir
       THEN WriteKeyfile(s, command[s].moniker, command[s].seen, command[s].seen)
       ELSE command' = [command EXCEPT ![s] = Idle] /\ UNCHANGED <<keystore, backups, made, excused>>
    /\ UNCHANGED keystoreDir

\* A key command ends at its prompt: an interrupt, or passphrases that differ.
EndAtPrompt(s) ==
    /\ command[s].name \in {"new", "update"}
    /\ command' = [command EXCEPT ![s] = Idle]
    /\ UNCHANGED keyVars

\* "monetd config clear" renames the whole monet directory, the keystore with
\* it, to the first free backup name.
clearKeystore ==
    /\ LET free == FreeSuffixes({n \in DOMAIN backups : backups[n] # NoFile})
       IN  \E n \in free : /\ \A i \in free : n <= i
                           /\ backups' = [backups EXCEPT ![n] = {keystore[m] : m \in Moniker} \cap Key]
    /\ keystore' = [m \in Moniker |-> NoFile] /\ keystoreDir' = FALSE
    /\ UNCHANGED <<made, excused>>

KeystoreInit ==
    /\ keystore = [m \in Moniker |-> NoFile] /\ keystoreDir = FALSE
    /\ backups = [n \in 1 .. MaxLoops - 1 |-> NoFile]
    /\ command = [s \in Shell |-> Idle]
    /\ made = {} /\ excused = {}

KeyCommands ==
    \E s \in Shell :
        \/ \E m \in Moniker : \/ NewKeyfileFull(s, m) \/ generateKey(s, m)
                              \/ UpdateKeyByMoniker(s, m)
        \/ \E k \in Key : GenerateKeyfile(s, k)
        \/ UpdateKey(s)
        \/ EndAtPrompt(s)

-----------------------------------------------------------------------------
\* The keys in the backups.
BackedUp == UNION {backups[n] : n \in {i \in DOMAIN backups : backups[i] # NoFile}}

\* No sequence of key commands and clears, in any number of shells, loses a key:
\* it stays in the keystore or in a backup.  It is lost only where an in-place
\* write of its keyfile is cut short (keys.go:315), or a command writes over a
\* file that another one has put there since it looked (keys.go:109 and 154).
KeysKept == made \subseteq {keystore[m] : m \in Moniker} \cup BackedUp \cup excused
=============================================================================
