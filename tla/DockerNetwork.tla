--------------------------- MODULE DockerNetwork ---------------------------
(***************************************************************************)
(* "giverny network": new makes the directory of a network, build its chain *)
(* files (module GenesisFile has the detail), start creates a Docker        *)
(* network and exports the configuration of each node, push runs a node in  *)
(* a container, stop stops the containers, aws exports the configurations   *)
(* to another folder.  Every command is a sequence of calls to the file     *)
(* system and to the Docker daemon; each may fail, and most but not all of  *)
(* the errors end the command.  Commands run one at a time.                 *)
(*                                                                          *)
(* The Docker daemon is external: it knows networks and containers by name, *)
(* refuses a second of the same name, and does not remove a network that a  *)
(* running container is connected to.                                       *)
(*                                                                          *)
(* network.toml is a version of it, with a list of nodes: the operator edits *)
(* it, and may add nodes that "new" made no key for.  The chain files       *)
(* (genesis.json, peers.json, peers.genesis.json) are one content, the      *)
(* version they were built from; Bad also stands for a mixture.             *)
(***************************************************************************)
EXTENDS Files

CONSTANTS
    Network,       \* names of networks
    Node,          \* monikers
    NonNode,       \* those that have an account and do not run
    Version,       \* contents of network.toml
    Nodes,         \* Nodes[t]: the monikers that content t lists, in their order
    Foreign,       \* names of containers others run on the same daemon
    None,          \* no container, no network
    MaxFaults      \* bound: calls that fail

\* The nodes of a list that run, and the names containers may have.
Runnable(nodes) == {nodes[i] : i \in DOMAIN nodes} \ NonNode
Name            == Foreign \cup Node

\* The contents of a chain file, the files of a network, those of a node (key:
\* whether its private key is among them) and what a container is.
Chain     == Version \cup {NoFile, Bad}
Directory == [keys : SUBSET Node, network_toml : Chain,
              monetd_toml : {"monetd", NoFile, Bad}, chain : Chain]
NodeFiles == [chain : Chain, key : BOOLEAN]
Container == [status : {"created", "running", "stopped"}, files : NodeFiles,
              net : Network \cup {None}]

NoFiles == [chain |-> NoFile, key |-> FALSE]

ASSUME NetworkAssumption ==
    /\ Nodes \in [Version -> Seq(Node)]
    /\ None \notin Network /\ NoFile \notin Version /\ Bad \notin Version
    /\ None \notin Container /\ NoFile \notin Directory
    /\ MaxFaults \in Nat

VARIABLES
    dir,           \* dir[n]: the files of network n, or NoFile
    exported,      \* exported[n][v]: the configuration of node v for Docker
    networks,      \* the Docker networks
    containers,    \* containers[v]: the container called v, or None
    cmd,           \* the command under way
    reported,      \* how the last one ended: "ok" or "error"
    settled,       \* history: settled[n] are the nodes that the last start of
                   \* network n exported; none while it is under way, or when
                   \* it failed, missed a file, or found nodes running
    faults

nvars == <<dir, exported, networks, containers, cmd, reported, settled, faults>>

Idle == [name |-> "idle"]

\* The containers of the daemon, those that do not run too.
GetContainers == {v \in Name : containers[v] # None}

\* The nodes of network n that run on Docker network n.
Running(n) == {v \in GetContainers : containers[v].net = n /\ containers[v].status = "running"}

\* A call that may fail.
Call(fails) == fails \in BOOLEAN /\ faults' = faults + (IF fails THEN 1 ELSE 0) /\ faults' <= MaxFaults

End(result) == cmd' = Idle /\ reported' = result
Go(step, i) == cmd' = [cmd EXCEPT !.step = step, !.i = i] /\ UNCHANGED reported
\* A command over a list of nodes; out is what aws has written for each so far.
Begin(name, n, nodes, step, flag) ==
    /\ cmd = Idle
    /\ cmd' = [name |-> name, net |-> n, nodes |-> nodes, step |-> step, i |-> 1,
               flag |-> flag, missed |-> FALSE, out |-> [v \in Node |-> NoFile]]
    /\ UNCHANGED reported

\* The node the command is at.
Moniker == cmd.nodes[cmd.i]
AtNode(step)    == cmd # Idle /\ cmd.step = step /\ cmd.i <= Len(cmd.nodes)
PastNodes(step) == cmd # Idle /\ cmd.step = step /\ cmd.i > Len(cmd.nodes)

\* The loops of start and aws pass over what does not run.
skipNonNode ==
    /\ AtNode("export") \/ AtNode("push")
    /\ cmd.name \in {"start", "aws"} /\ Moniker \in NonNode
    /\ Go(cmd.step, cmd.i + 1)
    /\ UNCHANGED <<dir, exported, networks, containers, settled, faults>>

-----------------------------------------------------------------------------
(* new and build.                                                          *)

\* A network whose directory exists is refused; the nodes are those of content t,
\* and the directory is made with the keystore.
networkNew(n, t, build) ==
    /\ dir[n] = NoFile
    /\ Begin("new", n, Nodes[t], "keys", build)
    /\ dir' = [dir EXCEPT ![n] = [keys |-> {}, network_toml |-> NoFile, monetd_toml |-> NoFile,
                                  chain |-> NoFile]]
    /\ UNCHANGED <<exported, networks, containers, settled, faults>>

\* The key of one node: NewKeyfile refuses a moniker that is there twice.
generateKeys ==
    /\ AtNode("keys")
    /\ \E fails \in BOOLEAN :
          /\ Call(fails)
          /\ IF fails \/ Moniker \in dir[cmd.net].keys
             THEN End("error") /\ UNCHANGED dir
             ELSE Go("keys", cmd.i + 1) /\ dir' = [dir EXCEPT ![cmd.net].keys = @ \cup {Moniker}]
    /\ UNCHANGED <<exported, networks, containers, settled>>

\* network.toml, and monetd.toml, the error of which is dropped.
generateGivernyConfig ==
    /\ PastNodes("keys")
    /\ \E t \in Version : \E v \in WriteToFile(NoFile, t, {}), w \in WriteToFile(NoFile, "monetd", {}) :
          /\ Nodes[t] = cmd.nodes
          /\ Call(v.err \/ w.err)
          /\ dir' = [dir EXCEPT ![cmd.net].network_toml = v.file,
                                ![cmd.net].monetd_toml = IF v.err THEN @ ELSE w.file]
          /\ IF v.err THEN End("error") ELSE IF cmd.flag THEN Go("build", 1) ELSE End("ok")
    /\ UNCHANGED <<exported, networks, containers, settled>>

\* The operator edits network.toml, and may add and remove nodes.
editNetwork(n, t) ==
    /\ cmd = Idle
    /\ dir[n] # NoFile /\ dir[n].network_toml \notin {NoFile, t}
    /\ dir' = [dir EXCEPT ![n].network_toml = t]
    /\ UNCHANGED <<exported, networks, containers, cmd, reported, settled, faults>>

BeginBuild(n) ==
    /\ dir[n] # NoFile /\ dir[n].network_toml \in Version
    /\ Begin("build", n, Nodes[dir[n].network_toml], "build", FALSE)
    /\ UNCHANGED <<dir, exported, networks, containers, settled, faults>>

\* The chain files are overwritten; genesis.json may be missed without an error.
buildNetwork ==
    /\ cmd # Idle /\ cmd.step = "build"
    /\ \E w \in WriteToFile(dir[cmd.net].chain, dir[cmd.net].network_toml, {OverwriteSilently}) :
          /\ Call(w.err)
          /\ dir' = [dir EXCEPT ![cmd.net].chain = w.file]
          /\ \/ End(IF w.err THEN "error" ELSE "ok")
             \/ w.file = Bad /\ End("ok")
    /\ UNCHANGED <<exported, networks, containers, settled>>

-----------------------------------------------------------------------------
(* start and aws.                                                          *)

\* A network.toml that does not parse ends start and aws without an error.
ParseFails(n) ==
    /\ cmd = Idle
    /\ dir[n] # NoFile /\ dir[n].network_toml = Bad
    /\ End("ok")
    /\ UNCHANGED <<dir, exported, networks, containers, settled, faults>>

startDockerNetwork(n, force, useExisting, startNodes) ==
    /\ dir[n] # NoFile /\ dir[n].network_toml \in Version
    /\ Begin("start", n, Nodes[dir[n].network_toml],
             IF n \notin networks THEN "create"
             ELSE IF useExisting THEN "use" ELSE IF force THEN "remove" ELSE "refuse",
             startNodes)
    /\ UNCHANGED <<dir, exported, networks, containers, settled, faults>>

\* Containers that are not running lose a network that is removed.
Disconnected(n) ==
    [v \in Name |-> IF v \in GetContainers /\ containers[v].net = n
                    THEN [containers[v] EXCEPT !.net = None] ELSE containers[v]]

\* SafeCreateNetwork: an existing network is used, removed or in the way.
SafeCreateNetwork ==
    /\ cmd # Idle
    /\ \/ cmd.step = "refuse" /\ End("error") /\ UNCHANGED <<networks, containers, settled, faults>>
       \/ /\ cmd.step = "use"
          /\ cmd' = [cmd EXCEPT !.step = "export", !.missed = Running(cmd.net) # {}]
          /\ settled' = [settled EXCEPT ![cmd.net] = {}]
          /\ UNCHANGED <<networks, containers, reported, faults>>
       \/ /\ cmd.step = "remove"
          /\ \E fails \in BOOLEAN :
                /\ Call(fails)
                /\ IF fails \/ Running(cmd.net) # {}
                   THEN End("error") /\ UNCHANGED <<networks, containers>>
                   ELSE /\ Go("create", 1)
                        /\ networks' = networks \ {cmd.net}
                        /\ containers' = Disconnected(cmd.net)
          /\ UNCHANGED settled
       \/ /\ cmd.step = "create"
          /\ \E fails \in BOOLEAN :
                /\ Call(fails)
                /\ IF fails THEN End("error") /\ UNCHANGED <<networks, settled>>
                   ELSE /\ Go("export", 1)
                        /\ networks' = networks \cup {cmd.net}
                        /\ settled' = [settled EXCEPT ![cmd.net] = {}]
          /\ UNCHANGED containers
    /\ UNCHANGED <<dir, exported>>

networkAWS(n) ==
    /\ dir[n] # NoFile /\ dir[n].network_toml \in Version
    /\ Begin("aws", n, Nodes[dir[n].network_toml], "export", FALSE)
    /\ UNCHANGED <<dir, exported, networks, containers, settled, faults>>

\* Mutant: the keyfile is not looked for.
ExportErrs_NoKeyfile(fails) == fails \/ dir[cmd.net].monetd_toml # "monetd"

\* The configuration of one node: the chain files are copied to a folder that
\* has old, dropping the errors; then its description is written, its address set
\* in monetd.toml and its key decrypted, which need the copies of monetd.toml and
\* of the keyfile, and whose errors (fails) end the command.
ExportErrs(fails) ==
    fails \/ dir[cmd.net].monetd_toml # "monetd" \/ Moniker \notin dir[cmd.net].keys

ExportNode(old, w, fails, out) ==
    /\ w \in CopyFileContents(dir[cmd.net].chain, old)
    /\ Call(fails \/ (w.err /\ dir[cmd.net].chain # NoFile))
    /\ IF ExportErrs(fails) THEN End("error")
       ELSE /\ cmd' = [cmd EXCEPT !.i = @ + 1, !.missed = @ \/ w.err, !.out = out]
            /\ UNCHANGED reported

\* An export that ends before the key is written may leave the description.
exportDockerNodeConfig ==
    /\ AtNode("export") /\ cmd.name = "start" /\ Moniker \notin NonNode
    /\ LET e == exported[cmd.net][Moniker]
       IN  \E w \in CopyFileContents(dir[cmd.net].chain, e.files.chain), fails \in BOOLEAN :
             /\ ExportNode(e.files.chain, w, fails, cmd.out)
             /\ \E ready \in IF ExportErrs(fails) THEN {TRUE, e.ready} ELSE {TRUE},
                   key \in IF ExportErrs(fails) THEN {e.files.key, FALSE}
                           ELSE {Moniker \in dir[cmd.net].keys} :
                   exported' = [exported EXCEPT ![cmd.net][Moniker] =
                                  [files |-> [chain |-> w.file, key |-> key], ready |-> ready]]
    /\ UNCHANGED <<dir, networks, containers, settled>>

\* The same, to a folder named on the command line, which holds whatever was
\* exported there before.
exportAWSNodeConfig ==
    /\ AtNode("export") /\ cmd.name = "aws" /\ Moniker \notin NonNode
    /\ \E old \in Chain : \E w \in CopyFileContents(dir[cmd.net].chain, old), fails \in BOOLEAN :
          ExportNode(old, w, fails, [cmd.out EXCEPT ![Moniker] = w.file])
    /\ UNCHANGED <<dir, exported, networks, containers, settled>>

\* All nodes are exported; --start-nodes goes on to push each of them.
exportConfigs ==
    /\ PastNodes("export")
    /\ settled' = IF cmd.name = "start" /\ ~cmd.missed
                  THEN [settled EXCEPT ![cmd.net] = Runnable(cmd.nodes)] ELSE settled
    /\ IF cmd.flag THEN Go("push", 1) ELSE End("ok")
    /\ UNCHANGED <<dir, exported, networks, containers, faults>>

-----------------------------------------------------------------------------
(* push.                                                                   *)

\* network.toml is not read: any node that was exported once can be pushed.
networkPush(n, v) ==
    /\ Begin("push", n, <<v>>, "push", FALSE)
    /\ UNCHANGED <<dir, exported, networks, containers, settled, faults>>

\* Mutant: the loop over the nodes steps twice.
Pushed_StepsTwice(missed) ==
    IF cmd.name = "start"
    THEN cmd' = [cmd EXCEPT !.step = "push", !.i = @ + 2, !.missed = @ \/ missed] /\ UNCHANGED reported
    ELSE End("ok")

\* A push is over; start --start-nodes goes on to the next node.
Pushed(missed) ==
    IF cmd.name = "start"
    THEN cmd' = [cmd EXCEPT !.step = "push", !.i = @ + 1, !.missed = @ \/ missed] /\ UNCHANGED reported
    ELSE End("ok")

\* The exported configuration and the network must be there, and no container of
\* that name.  A failing NetworkList ends the push without an error; a failing
\* ContainerList passes for an empty list.
pushDockerNode ==
    /\ AtNode("push") /\ (cmd.name = "push" \/ Moniker \notin NonNode)
    /\ LET e == exported[cmd.net][Moniker]
       IN  \/ /\ Call(TRUE)
              /\ \/ End("error")
                 \/ e.ready /\ Pushed(TRUE)
                 \/ e.ready /\ cmd.net \in networks /\ Go("container", cmd.i)
           \/ /\ Call(FALSE)
              /\ IF ~e.ready \/ cmd.net \notin networks \/ Moniker \in GetContainers
                 THEN End("error") ELSE Go("container", cmd.i)
    /\ UNCHANGED <<dir, exported, networks, containers, settled>>

pushesDone == PastNodes("push") /\ End("ok") /\ UNCHANGED <<dir, exported, networks, containers, settled, faults>>

\* A name in use is refused.  The error of ContainerCreate is dropped, and the
\* copy into no container fails.
CreateContainerFromImage ==
    /\ AtNode("container")
    /\ \E fails \in BOOLEAN :
          /\ Call(fails)
          /\ IF fails \/ Moniker \in GetContainers THEN End("error") /\ UNCHANGED containers
             ELSE /\ Go("copy", cmd.i)
                  /\ containers' = [containers EXCEPT ![Moniker] =
                                      [status |-> "created", files |-> NoFiles, net |-> None]]
    /\ UNCHANGED <<dir, exported, networks, settled>>

\* The archive has the files of the node's folder as they are.
newTarArchiveFromPath(n, v) == exported[n][v].files

\* Mutant: the configuration is the one the network has now.
CopyToContainer_Current ==
    /\ AtNode("copy")
    /\ \E fails \in BOOLEAN :
          /\ Call(fails)
          /\ IF fails THEN End("error") /\ UNCHANGED containers
             ELSE /\ Go("connect", cmd.i)
                  /\ containers' = [containers EXCEPT ![Moniker].files =
                                      [chain |-> dir[cmd.net].chain, key |-> TRUE]]
    /\ UNCHANGED <<dir, exported, networks, settled>>

\* Any failure from here on leaves the container behind.
CopyToContainer ==
    /\ AtNode("copy")
    /\ \E fails \in BOOLEAN :
          /\ Call(fails)
          /\ IF fails THEN End("error") /\ UNCHANGED containers
             ELSE /\ Go("connect", cmd.i)
                  /\ containers' = [containers EXCEPT ![Moniker].files =
                                      newTarArchiveFromPath(cmd.net, Moniker)]
    /\ UNCHANGED <<dir, exported, networks, settled>>

ConnectContainerToNetwork ==
    /\ AtNode("connect")
    /\ \E fails \in BOOLEAN :
          /\ Call(fails)
          /\ IF fails THEN End("error") /\ UNCHANGED containers
             ELSE Go("run", cmd.i) /\ containers' = [containers EXCEPT ![Moniker].net = cmd.net]
    /\ UNCHANGED <<dir, exported, networks, settled>>

\* Mutant: the error is dropped.
StartContainer_DropsError ==
    /\ AtNode("run")
    /\ \E fails \in BOOLEAN :
          /\ Call(fails)
          /\ Pushed(FALSE)
          /\ containers' = IF fails THEN containers ELSE [containers EXCEPT ![Moniker].status = "running"]
    /\ UNCHANGED <<dir, exported, networks, settled>>

StartContainer ==
    /\ AtNode("run")
    /\ \E fails \in BOOLEAN :
          /\ Call(fails)
          /\ IF fails THEN End("error") /\ UNCHANGED containers
             ELSE Pushed(FALSE) /\ containers' = [containers EXCEPT ![Moniker].status = "running"]
    /\ UNCHANGED <<dir, exported, networks, settled>>

-----------------------------------------------------------------------------
(* stop.                                                                   *)

\* A stopped container, or none if it is removed too.
Stopped(v, remove) ==
    IF remove THEN None
    ELSE [containers[v] EXCEPT !.status = IF @ = "running" THEN "stopped" ELSE @]

\* The containers of the daemon, of this network or not, are listed.
StopNetwork(n, remove) ==
    /\ cmd = Idle
    /\ n \in networks
    /\ cmd' = [name |-> "stop", net |-> n, step |-> "stop", flag |-> remove,
               todo |-> GetContainers]
    /\ UNCHANGED <<dir, exported, networks, containers, reported, settled, faults>>

\* Mutant: a container that does not stop is passed over.
StopContainer_GoesOn(v) ==
    /\ cmd # Idle /\ cmd.step = "stop" /\ v \in cmd.todo
    /\ \E fails \in BOOLEAN :
          /\ Call(fails)
          /\ cmd' = [cmd EXCEPT !.todo = @ \ {v}] /\ UNCHANGED reported
          /\ containers' = IF fails THEN containers ELSE [containers EXCEPT ![v] = Stopped(v, cmd.flag)]
    /\ UNCHANGED <<dir, exported, networks, settled>>

\* One of them, in the order of a Go map: it is stopped, and removed or not.
StopContainer(v) ==
    /\ cmd # Idle /\ cmd.step = "stop" /\ v \in cmd.todo
    /\ \E fails \in BOOLEAN :
          /\ Call(fails)
          /\ IF fails
             THEN End("error") /\ containers' \in {containers, [containers EXCEPT ![v] = Stopped(v, FALSE)]}
             ELSE /\ cmd' = [cmd EXCEPT !.todo = @ \ {v}] /\ UNCHANGED reported
                  /\ containers' = [containers EXCEPT ![v] = Stopped(v, cmd.flag)]
    /\ UNCHANGED <<dir, exported, networks, settled>>

\* Then the network is removed, and the networks are listed again.
RemoveNetwork ==
    /\ cmd # Idle /\ cmd.step = "stop" /\ cmd.todo = {}
    /\ \E fails \in BOOLEAN :
          /\ Call(fails)
          /\ \/ /\ fails \/ Running(cmd.net) # {}
                /\ End("error") /\ UNCHANGED <<networks, containers>>
             \/ /\ Running(cmd.net) = {}
                /\ End(IF fails THEN "error" ELSE "ok")
                /\ networks' = networks \ {cmd.net}
                /\ containers' = Disconnected(cmd.net)
    /\ UNCHANGED <<dir, exported, settled>>

\* The network named on the command line is not looked at.
StopNode(v, remove) ==
    /\ cmd = Idle
    /\ v \in GetContainers
    /\ \E fails \in BOOLEAN :
          /\ Call(fails)
          /\ End(IF fails THEN "error" ELSE "ok")
          /\ containers' \in IF fails THEN {containers, [containers EXCEPT ![v] = Stopped(v, FALSE)]}
                             ELSE {[containers EXCEPT ![v] = Stopped(v, remove)]}
    /\ UNCHANGED <<dir, exported, networks, settled>>

\* Somebody else runs a container, maybe under the name of a node.
runForeign(v) ==
    /\ cmd = Idle
    /\ containers[v] = None
    /\ containers' = [containers EXCEPT ![v] = [status |-> "running", files |-> NoFiles, net |-> None]]
    /\ UNCHANGED <<dir, exported, networks, cmd, reported, settled, faults>>

-----------------------------------------------------------------------------
Init ==
    /\ dir = [n \in Network |-> NoFile]
    /\ exported = [n \in Network |-> [v \in Node |-> [files |-> NoFiles, ready |-> FALSE]]]
    /\ networks = {}
    /\ containers = [v \in Name |-> None]
    /\ cmd = Idle /\ reported = "ok"
    /\ settled = [n \in Network |-> {}] /\ faults = 0

Next ==
    \/ \E n \in Network :
          \/ \E t \in Version, build \in BOOLEAN : networkNew(n, t, build)
          \/ \E t \in Version : editNetwork(n, t)
          \/ BeginBuild(n)
          \/ ParseFails(n)
          \/ \E force, useExisting, startNodes \in BOOLEAN :
                startDockerNetwork(n, force, useExisting, startNodes)
          \/ networkAWS(n)
          \/ \E v \in Node : networkPush(n, v)
          \/ \E remove \in BOOLEAN : StopNetwork(n, remove)
    \/ generateKeys \/ generateGivernyConfig \/ buildNetwork
    \/ skipNonNode \/ SafeCreateNetwork \/ exportDockerNodeConfig \/ exportAWSNodeConfig \/ exportConfigs
    \/ pushDockerNode \/ CreateContainerFromImage \/ CopyToContainer
    \/ ConnectContainerToNetwork \/ StartContainer \/ pushesDone
    \/ \E v \in Name : StopContainer(v) \/ \E remove \in BOOLEAN : StopNode(v, remove)
    \/ RemoveNetwork
    \/ \E v \in Foreign : runForeign(v)

Spec == Init /\ [][Next]_nvars

-----------------------------------------------------------------------------
(* Properties.                                                             *)

\* Type correctness of the directories, of what Docker has and of the command:
\* a loop over the nodes ends behind the last one.
TypeOK ==
    /\ dir \in [Network -> {NoFile} \cup Directory]
    /\ \A n \in Network : exported[n] \in [Node -> [files : NodeFiles, ready : BOOLEAN]]
    /\ networks \subseteq Network /\ settled \in [Network -> SUBSET Node]
    /\ containers \in [Name -> {None} \cup Container]
    /\ cmd # Idle /\ cmd.name # "stop" => cmd.i \in 1 .. Len(cmd.nodes) + 1
    /\ reported \in {"ok", "error"} /\ faults \in 0 .. MaxFaults

\* An export that missed no copy has given every node the chain files of the
\* network as they are: nothing of an earlier build or export is left.
ExportsAgree ==
    PastNodes("export") /\ ~cmd.missed =>
        \A v \in Runnable(cmd.nodes) :
            dir[cmd.net].chain = IF cmd.name = "aws" THEN cmd.out[v]
                                                     ELSE exported[cmd.net][v].files.chain

\* The nodes that run on a Docker network start from the same chain files,
\* however often network.toml is edited, the network rebuilt, its folder exported
\* again, and nodes stopped and pushed meanwhile.  The exceptions are a network
\* whose last start failed or missed a copy, or found nodes running
\* (--use-existing), and a node that start no longer listed: push runs it from
\* what an earlier start exported.
NodesAgree ==
    \A n \in Network :
        \A u, v \in Running(n) \cap settled[n] :
            containers[u].files.chain = containers[v].files.chain

\* A node that runs on a Docker network has its private key, with the same
\* exceptions.  network.toml may list nodes that "new" made no key for; the
\* export that fails at one has written its description, which is all that push
\* asks for, so only the rest of start keeps it from running without a key.
NodesHaveKeys ==
    \A n \in Network : \A v \in Running(n) \cap settled[n] : containers[v].files.key

\* start --start-nodes that ends without an error has every node of the network
\* run on it, unless an error was dropped on the way (start.go:221, push.go:101).
StartedNodesRun ==
    [][cmd # Idle /\ cmd' = Idle /\ reported' = "ok" /\ cmd.name = "start" /\ cmd.flag /\ ~cmd.missed
         => Runnable(cmd.nodes) \subseteq Running(cmd.net)]_nvars

\* stop --remove that ends without an error leaves no container connected to its
\* network, running or not, so that none of them is in the way of another push.
StopClears ==
    [][cmd # Idle /\ cmd' = Idle /\ reported' = "ok" /\ cmd.name = "stop" /\ cmd.flag
         => \A v \in GetContainers : containers[v].net # cmd.net]_nvars

\* docs/giverny.rst:282: "The stop subcommand stops a docker network and all the
\* nodes within it."  A container that runs elsewhere runs on.
StopsOnlyItsNetwork ==
    [][cmd # Idle /\ cmd.name = "stop" =>
         \A v \in GetContainers : containers[v].status = "running" /\ containers[v].net # cmd.net
                                    => containers'[v] = containers[v]]_nvars
=============================================================================
