------------------------ MODULE DockerNetwork_proofs ------------------------
(***************************************************************************)
(* Proofs about module DockerNetwork, for every set of networks, every list *)
(* of nodes, also lists that name a node twice, and every number of calls   *)
(* that fail.                                                               *)
(*                                                                          *)
(* None of the properties is inductive.  The invariant Inv adds where a     *)
(* command may be and what it has done to the nodes it passed: new made     *)
(* their keys (KeysSoFar), start and aws gave them the chain files          *)
(* (ExportsSoFar), start --start-nodes runs them (RunsSoFar), stop --remove *)
(* left only what is on its list (StopsSoFar), and a push works on a        *)
(* container that does not run and has its node's exported files            *)
(* (PushRight).  Of Docker it says that nothing runs on a network that is   *)
(* not there, and that the nodes a start has settled were exported one      *)
(* content, with their keys, and run from what was exported (SettledAgrees).*)
(* There is one lemma per action.                                           *)
(***************************************************************************)
EXTENDS DockerNetwork, TLAPS

Pushing == {"container", "copy", "connect", "run"}

\* The steps of each command that loops over the nodes.
Steps(name) ==
    CASE name = "new"   -> {"keys", "build"}
      [] name = "build" -> {"build"}
      [] name = "start" -> {"create", "use", "remove", "refuse", "export", "push"} \cup Pushing
      [] name = "aws"   -> {"export"}
      [] name = "push"  -> {"push"} \cup Pushing

Step == {"keys", "build", "create", "use", "remove", "refuse", "export", "push"} \cup Pushing
Loop == [name : {"new", "build", "start", "aws", "push"}, net : Network, nodes : Seq(Node),
         step : Step, i : Nat, flag : BOOLEAN, missed : BOOLEAN, out : [Node -> Chain]]
Stop == [name : {"stop"}, net : Network, step : {"stop"}, flag : BOOLEAN, todo : SUBSET Name]

Export == [files : NodeFiles, ready : BOOLEAN]

\* The nodes of a list.
Listed(nodes) == {nodes[i] : i \in DOMAIN nodes}

DirType == dir \in [Network -> {NoFile} \cup Directory]
ExportType ==
    /\ exported = [n \in Network |-> exported[n]]
    /\ \A n \in Network : exported[n] \in [Node -> Export]
DockerType ==
    /\ networks \subseteq Network /\ settled \in [Network -> SUBSET Node]
    /\ containers \in [Name -> {None} \cup Container]
CmdType == cmd = Idle \/ cmd \in Loop \/ cmd \in Stop
EndType == reported \in {"ok", "error"} /\ faults \in 0 .. MaxFaults

\* Where a command that loops over the nodes may be.
LoopRight ==
    cmd # Idle /\ cmd.name # "stop" =>
      /\ cmd.step \in Steps(cmd.name)
      /\ cmd.i \in 1 .. Len(cmd.nodes) + 1
      /\ cmd.name # "push" => dir[cmd.net] # NoFile
      /\ cmd.step \in {"create", "use", "remove", "refuse"} => cmd.i = 1
      /\ cmd.step = "export" /\ cmd.flag => cmd.name = "start"

\* The nodes the command has passed.
Passed == {cmd.nodes[j] : j \in 1 .. cmd.i - 1}

\* new: the nodes passed have keys, and network.toml is not there yet.
KeysSoFar ==
    cmd # Idle /\ cmd.step = "keys" =>
        dir[cmd.net].network_toml = NoFile /\ Passed \subseteq dir[cmd.net].keys

\* start and aws: the nodes passed have the chain files of the network.
ExportsSoFar ==
    cmd # Idle /\ cmd.step = "export" /\ ~cmd.missed =>
        \A v \in Passed \ NonNode :
            IF cmd.name = "aws" THEN dir[cmd.net].chain = cmd.out[v]
            ELSE dir[cmd.net].chain = exported[cmd.net][v].files.chain /\ exported[cmd.net][v].files.key

\* start: a network is created only when there is none, and no node of it runs
\* while the configurations are exported, unless that is noted.
StartRight ==
    cmd # Idle /\ cmd.name = "start" =>
        /\ cmd.step = "create" => cmd.net \notin networks
        /\ cmd.step = "export" =>
              settled[cmd.net] = {} /\ (~cmd.missed => Running(cmd.net) = {})

\* A push fills the container it has made, and no other.
PushRight ==
    cmd # Idle /\ cmd.step \in Pushing =>
      /\ cmd.net \in networks /\ cmd.i <= Len(cmd.nodes) /\ Moniker \in Node
      /\ cmd.step # "container" =>
            containers[Moniker] # None /\ containers[Moniker].status = "created"
      /\ cmd.step \in {"connect", "run"} =>
            containers[Moniker].files = exported[cmd.net][Moniker].files
      /\ cmd.step = "run" => containers[Moniker].net = cmd.net

\* start --start-nodes: the nodes passed run.
RunsSoFar ==
    cmd # Idle /\ cmd.name = "start" /\ cmd.step \in {"push"} \cup Pushing /\ ~cmd.missed =>
        Passed \ NonNode \subseteq Running(cmd.net)

\* stop: the containers still to be stopped are there, and with --remove no others.
StopsSoFar ==
    cmd # Idle /\ cmd.name = "stop" =>
        cmd.todo \subseteq GetContainers /\ (cmd.flag => GetContainers \subseteq cmd.todo)

CmdInv == /\ CmdType /\ LoopRight /\ KeysSoFar /\ ExportsSoFar /\ StartRight
          /\ PushRight /\ RunsSoFar /\ StopsSoFar

\* Nothing runs on a Docker network that is not there.
NetworksRight == \A n \in Network : n \notin networks => Running(n) = {}

\* The nodes that a start has settled have one content of the chain files and
\* their keys, and run from what was exported.
SettledAgrees ==
    \A n \in Network : \A w \in settled[n] :
        /\ exported[n][w].files.key
        /\ \A v \in settled[n] : exported[n][v].files.chain = exported[n][w].files.chain
        /\ w \in Running(n) => containers[w].files = exported[n][w].files

DockerInv == ExportType /\ DockerType /\ NetworksRight /\ SettledAgrees
Inv == DirType /\ DockerInv /\ CmdInv /\ EndType

-----------------------------------------------------------------------------
(* Commands.                                                               *)

\* The nodes of a list in their order, and their names.
LEMMA NodeFacts ==
    ASSUME NEW nodes \in Seq(Node)
    PROVE  /\ Len(nodes) \in Nat /\ DOMAIN nodes = 1 .. Len(nodes)
           /\ \A i \in 1 .. Len(nodes) : nodes[i] \in Node
           /\ \A v \in Listed(nodes) : \E i \in 1 .. Len(nodes) : v = nodes[i]
           /\ Listed(nodes) \subseteq Node /\ Runnable(nodes) = Listed(nodes) \ NonNode
           /\ Node \subseteq Name
<1>1. Len(nodes) \in Nat /\ DOMAIN nodes = 1 .. Len(nodes)
  OBVIOUS
<1>2. \A i \in 1 .. Len(nodes) : nodes[i] \in Node
  OBVIOUS
<1> QED BY <1>1, <1>2 DEF Listed, Runnable, Name

\* A command under way that is not stop loops over the nodes.
LEMMA LoopCommand ==
    ASSUME CmdType, cmd # Idle, cmd.step # "stop"
    PROVE  cmd \in Loop /\ cmd.name # "stop" /\ cmd.net \in Network /\ cmd.nodes \in Seq(Node)
BY DEF CmdType, Stop, Loop

\* A command that goes on to another step or node stays what it is.
LEMMA GoStep ==
    ASSUME cmd \in Loop, NEW step \in Step, NEW i \in Nat, Go(step, i)
    PROVE  /\ cmd' \in Loop /\ cmd' # Idle /\ reported' = reported
           /\ cmd'.name = cmd.name /\ cmd'.net = cmd.net /\ cmd'.flag = cmd.flag
           /\ cmd'.nodes = cmd.nodes /\ cmd'.out = cmd.out
           /\ cmd'.missed = cmd.missed /\ cmd'.step = step /\ cmd'.i = i
BY DEF Go, Loop, Idle

\* A command begins at its first node.
LEMMA BeginStep ==
    ASSUME NEW name \in {"new", "build", "start", "aws", "push"}, NEW n \in Network,
           NEW nodes \in Seq(Node), NEW step \in Step, NEW flag \in BOOLEAN,
           Begin(name, n, nodes, step, flag)
    PROVE  /\ cmd' \in Loop /\ cmd' # Idle /\ reported' = reported
           /\ cmd'.name = name /\ cmd'.net = n /\ cmd'.step = step /\ cmd'.i = 1
           /\ cmd'.flag = flag /\ cmd'.missed = FALSE /\ cmd'.nodes = nodes
<1>1. NoFile \in Chain /\ 1 \in Nat
  BY DEF Chain
<1> QED BY <1>1 DEF Begin, Loop, Idle

\* The node a command is at is one of its list.
LEMMA MonikerFacts ==
    ASSUME CmdType, LoopRight, NEW step \in Step, AtNode(step)
    PROVE  /\ cmd \in Loop /\ cmd.net \in Network /\ cmd.nodes \in Seq(Node)
           /\ cmd.i \in 1 .. Len(cmd.nodes) /\ cmd.i + 1 \in 1 .. Len(cmd.nodes) + 1
           /\ cmd.i \in Nat /\ cmd.i + 1 \in Nat
           /\ Moniker \in Node /\ Moniker \in Name
<1>1. cmd \in Loop /\ cmd.name # "stop" /\ cmd.net \in Network /\ cmd.nodes \in Seq(Node)
  BY LoopCommand DEF AtNode, Step, Pushing
<1>2. cmd.i \in 1 .. Len(cmd.nodes) + 1 /\ Len(cmd.nodes) \in Nat
  BY <1>1, NodeFacts DEF LoopRight, AtNode
<1>3. cmd.i \in 1 .. Len(cmd.nodes) /\ cmd.i + 1 \in 1 .. Len(cmd.nodes) + 1
  BY <1>2 DEF AtNode
<1>4. cmd.i \in Nat /\ cmd.i + 1 \in Nat
  BY <1>2, <1>3
<1> QED BY <1>1, <1>3, <1>4, NodeFacts DEF Moniker

\* A call that fails is counted.
LEMMA CallStep ==
    ASSUME EndType, NEW fails, Call(fails)
    PROVE  fails \in BOOLEAN /\ faults' \in 0 .. MaxFaults
BY NetworkAssumption DEF EndType, Call

\* A command that has ended is under no obligation.
LEMMA IdleRight ==
    ASSUME cmd' = Idle
    PROVE  CmdInv'
BY DEF CmdInv, CmdType, LoopRight, KeysSoFar, ExportsSoFar, StartRight, PushRight,
   RunsSoFar, StopsSoFar

\* Nor is a command that has passed no node, but for what its first step needs.
LEMMA LoopBegins ==
    ASSUME cmd' \in Loop, cmd' # Idle, cmd'.i = 1, cmd'.net \in Network,
           cmd'.step \in Steps(cmd'.name), cmd'.step \notin Pushing,
           cmd'.name # "push" => dir'[cmd'.net] # NoFile,
           cmd'.step = "export" /\ cmd'.flag => cmd'.name = "start",
           cmd'.step = "keys" => dir'[cmd'.net].network_toml = NoFile,
           cmd'.name = "start" /\ cmd'.step = "create" => cmd'.net \notin networks',
           cmd'.name = "start" /\ cmd'.step = "export" =>
              settled'[cmd'.net] = {} /\ (~cmd'.missed => Running(cmd.net)' = {})
    PROVE  CmdInv'
<1>1. Passed' = {}
  BY DEF Passed
<1>2. cmd'.name # "stop"
  BY DEF Loop
<1>3. LoopRight'
  <2>1. Len(cmd'.nodes) \in Nat
    BY DEF Loop
  <2> QED BY <2>1 DEF LoopRight
<1>4. KeysSoFar' /\ ExportsSoFar' /\ RunsSoFar'
  BY <1>1 DEF KeysSoFar, ExportsSoFar, RunsSoFar
<1>5. StartRight'
  BY DEF StartRight
<1> QED BY <1>2, <1>3, <1>4, <1>5 DEF CmdInv, CmdType, PushRight, StopsSoFar

\* The directories are left alone.
LEMMA DirUnchanged ==
    ASSUME DirType, UNCHANGED dir
    PROVE  DirType'
BY DEF DirType

\* The containers are left alone.
LEMMA RunningUnchanged ==
    ASSUME UNCHANGED containers
    PROVE  GetContainers' = GetContainers /\ \A n : Running(n)' = Running(n)
BY DEF GetContainers, Running

\* Docker and the configurations exported for it are left alone.
LEMMA DockerUnchanged ==
    ASSUME DockerInv, UNCHANGED <<exported, networks, containers, settled>>
    PROVE  DockerInv'
<1>1. \A n : Running(n)' = Running(n)
  BY RunningUnchanged
<1>2. ExportType' /\ DockerType'
  BY DEF DockerInv, ExportType, DockerType
<1>3. NetworksRight' /\ SettledAgrees'
  BY <1>1 DEF DockerInv, NetworksRight, SettledAgrees
<1> QED BY <1>2, <1>3 DEF DockerInv

\* A command ends without having changed anything.
LEMMA EndsUnchanged ==
    ASSUME Inv, NEW result \in {"ok", "error"}, End(result), faults' \in 0 .. MaxFaults,
           UNCHANGED <<dir, exported, networks, containers, settled>>
    PROVE  Inv'
<1>1. cmd' = Idle /\ EndType'
  BY DEF End, EndType
<1>2. DirType' /\ DockerInv'
  BY DirUnchanged, DockerUnchanged DEF Inv
<1> QED BY <1>1, <1>2, IdleRight DEF Inv

-----------------------------------------------------------------------------
(* new, build and the operator's editor.                                   *)

\* new makes the directory, without network.toml.
LEMMA NewStep ==
    ASSUME Inv, NEW n \in Network, NEW t \in Version, NEW build \in BOOLEAN, networkNew(n, t, build)
    PROVE  Inv'
<1> DEFINE d == [keys |-> {}, network_toml |-> NoFile, monetd_toml |-> NoFile, chain |-> NoFile]
<1>1. d \in Directory /\ d # NoFile /\ d.network_toml = NoFile
  <2>1. d \in Directory
    BY DEF Directory, Chain
  <2> QED BY <2>1, NetworkAssumption
<1>2. dir' = [dir EXCEPT ![n] = d] /\ DirType
  BY DEF networkNew, Inv, DirType
<1> HIDE DEF d
<1>3. dir'[n] = d /\ DirType'
  BY <1>1, <1>2 DEF DirType
<1>4. Nodes[t] \in Seq(Node)
  BY NetworkAssumption
<1>5. DockerInv'
  BY DockerUnchanged DEF Inv, networkNew
<1>6. /\ cmd' \in Loop /\ cmd' # Idle /\ cmd'.name = "new" /\ cmd'.net = n
      /\ cmd'.step = "keys" /\ cmd'.i = 1 /\ reported' = reported
  BY <1>4, BeginStep DEF networkNew, Step
<1>7. CmdInv'
  BY <1>1, <1>3, <1>6, LoopBegins DEF Steps, Pushing
<1>8. EndType'
  BY <1>6 DEF Inv, EndType, networkNew
<1> QED BY <1>3, <1>5, <1>7, <1>8 DEF Inv

\* A file of the directory of network n is given another content.
LEMMA DirFieldStep ==
    ASSUME DirType, NEW n \in Network, dir[n] # NoFile, NEW d \in Directory,
           dir' = [dir EXCEPT ![n] = d]
    PROVE  /\ DirType' /\ dir'[n] = d /\ dir'[n] # NoFile
           /\ \A m \in Network \ {n} : dir'[m] = dir[m]
BY NetworkAssumption DEF DirType

\* Replacing fields of a directory leaves a directory.
LEMMA DirectoryFields ==
    ASSUME NEW d \in Directory, NEW k \in SUBSET Node, NEW t \in Chain
    PROVE  /\ [d EXCEPT !.keys = k] \in Directory
           /\ [d EXCEPT !.network_toml = t] \in Directory
           /\ [d EXCEPT !.chain = t] \in Directory
           /\ [d EXCEPT !.keys = k].keys = k
           /\ [d EXCEPT !.keys = k].network_toml = d.network_toml
           /\ [d EXCEPT !.network_toml = t].keys = d.keys
           /\ [d EXCEPT !.chain = t].keys = d.keys
           /\ [d EXCEPT !.chain = t].network_toml = d.network_toml
BY DEF Directory

\* A write leaves the old content, the new one, or one nobody can read.
LEMMA WriteOutcome ==
    ASSUME NEW old, NEW new, NEW options, NEW w \in WriteToFile(old, new, options)
    PROVE  w.file \in {old, new, Bad}
<1>1. w \in {Outcome(new, FALSE), Outcome(old, TRUE), Outcome(Bad, TRUE)}
  BY DEF WriteToFile, WriteFile
<1> QED BY <1>1 DEF Outcome

\* generateKeys makes the key of one node, or ends new.
LEMMA GenerateKeysStep ==
    ASSUME Inv, generateKeys
    PROVE  Inv'
<1>1. CmdType /\ LoopRight /\ EndType /\ DirType
  BY DEF Inv, CmdInv, DirType
<1>2. PICK fails \in BOOLEAN :
         /\ Call(fails)
         /\ IF fails \/ Moniker \in dir[cmd.net].keys
            THEN End("error") /\ UNCHANGED dir
            ELSE Go("keys", cmd.i + 1) /\ dir' = [dir EXCEPT ![cmd.net].keys = @ \cup {Moniker}]
  BY DEF generateKeys
<1>3. faults' \in 0 .. MaxFaults
  BY <1>1, <1>2, CallStep
<1>4. CASE End("error") /\ UNCHANGED dir
  BY <1>3, <1>4, EndsUnchanged DEF generateKeys
<1>5. CASE Go("keys", cmd.i + 1) /\ dir' = [dir EXCEPT ![cmd.net].keys = @ \cup {Moniker}]
  <2> DEFINE n == cmd.net
             d == [dir[n] EXCEPT !.keys = dir[n].keys \cup {Moniker}]
  <2>1. /\ cmd \in Loop /\ n \in Network /\ cmd.i \in 1 .. Len(cmd.nodes)
        /\ cmd.i + 1 \in 1 .. Len(cmd.nodes) + 1 /\ cmd.i + 1 \in Nat
        /\ Moniker \in Node /\ Moniker = cmd.nodes[cmd.i]
    BY <1>1, MonikerFacts DEF generateKeys, Step, Moniker
  <2>2. cmd # Idle /\ cmd.step = "keys" /\ cmd.name # "stop"
    BY <2>1 DEF generateKeys, AtNode, Loop
  <2>3. /\ cmd.name = "new" /\ dir[n] # NoFile
        /\ dir[n].network_toml = NoFile /\ Passed \subseteq dir[n].keys
    BY <2>1, <2>2 DEF Inv, CmdInv, LoopRight, KeysSoFar, Steps, Pushing, Loop
  <2>4. dir[n] \in Directory
    BY <1>1, <2>1, <2>3 DEF DirType
  <2>5. d \in Directory /\ d.keys = dir[n].keys \cup {Moniker} /\ d.network_toml = NoFile
    <3>1. dir[n].keys \cup {Moniker} \in SUBSET Node /\ NoFile \in Chain
      BY <2>1, <2>4 DEF Directory, Chain
    <3> QED BY <3>1, <2>3, <2>4, DirectoryFields
  <2>6. dir' = [dir EXCEPT ![n] = d]
    BY <1>5
  <2> HIDE DEF d
  <2>7. /\ DirType' /\ dir'[n] = d /\ dir'[n] # NoFile
        /\ \A m \in Network \ {n} : dir'[m] = dir[m]
    BY <1>1, <2>1, <2>3, <2>5, <2>6, DirFieldStep
  <2>9. DockerInv'
    BY DockerUnchanged DEF Inv, generateKeys
  <2>10. /\ cmd' \in Loop /\ cmd' # Idle /\ cmd'.name = "new" /\ cmd'.net = n
         /\ cmd'.step = "keys" /\ cmd'.i = cmd.i + 1 /\ reported' = reported
         /\ cmd'.nodes = cmd.nodes
    BY <1>5, <2>1, <2>3, GoStep DEF Step
  <2>11. Passed' \subseteq Passed \cup {Moniker}
    <3>1. ASSUME NEW j \in 1 .. cmd'.i - 1 PROVE cmd.nodes[j] \in Passed \cup {Moniker}
      <4>1. j \in 1 .. cmd.i - 1 \/ j = cmd.i
        BY <2>1, <2>10
      <4> QED BY <2>1, <4>1 DEF Passed
    <3> QED BY <3>1, <2>10 DEF Passed
  <2>12. CmdInv'
    BY <2>1, <2>3, <2>5, <2>7, <2>10, <2>11 DEF CmdInv, CmdType, LoopRight, KeysSoFar, ExportsSoFar,
       StartRight, PushRight, RunsSoFar, StopsSoFar, Steps, Pushing
  <2>13. EndType'
    BY <1>1, <1>3, <2>10 DEF EndType
  <2> QED BY <2>7, <2>9, <2>12, <2>13 DEF Inv
<1> QED BY <1>2, <1>4, <1>5

\* generateGivernyConfig writes network.toml and monetd.toml once all keys are
\* made, and goes on to build or ends.
LEMMA GenerateConfigStep ==
    ASSUME Inv, generateGivernyConfig
    PROVE  Inv'
<1> DEFINE n == cmd.net
<1>1. CmdType /\ LoopRight /\ EndType /\ DirType
  BY DEF Inv, CmdInv, DirType
<1>2. PICK t \in Version : \E v \in WriteToFile(NoFile, t, {}), w \in WriteToFile(NoFile, "monetd", {}) :
         /\ Nodes[t] = cmd.nodes
         /\ Call(v.err \/ w.err)
         /\ dir' = [dir EXCEPT ![cmd.net].network_toml = v.file,
                               ![cmd.net].monetd_toml = IF v.err THEN @ ELSE w.file]
         /\ IF v.err THEN End("error") ELSE IF cmd.flag THEN Go("build", 1) ELSE End("ok")
  BY DEF generateGivernyConfig
<1>3. PICK v \in WriteToFile(NoFile, t, {}), w \in WriteToFile(NoFile, "monetd", {}) :
         /\ Call(v.err \/ w.err)
         /\ dir' = [dir EXCEPT ![cmd.net].network_toml = v.file,
                               ![cmd.net].monetd_toml = IF v.err THEN @ ELSE w.file]
         /\ IF v.err THEN End("error") ELSE IF cmd.flag THEN Go("build", 1) ELSE End("ok")
  BY <1>2
<1>4. faults' \in 0 .. MaxFaults
  BY <1>1, <1>3, CallStep
<1>5. v.file \in Chain /\ w.file \in {"monetd", NoFile, Bad}
  BY WriteOutcome DEF Chain
<1>6. /\ cmd \in Loop /\ cmd # Idle /\ cmd.step = "keys" /\ cmd.name = "new"
      /\ n \in Network /\ cmd.i = Len(cmd.nodes) + 1 /\ dir[n] # NoFile /\ dir[n] \in Directory
  <2>1. cmd # Idle /\ cmd.step = "keys" /\ cmd.i > Len(cmd.nodes)
    BY DEF generateGivernyConfig, PastNodes
  <2>2. cmd \in Loop /\ cmd.name # "stop" /\ n \in Network
    BY <1>1, <2>1, LoopCommand
  <2>3. cmd.name = "new" /\ dir[n] # NoFile /\ cmd.i \in 1 .. Len(cmd.nodes) + 1
    BY <1>1, <2>1, <2>2 DEF LoopRight, Steps, Pushing, Loop
  <2>4. cmd.i = Len(cmd.nodes) + 1
    BY <2>1, <2>2, <2>3, NodeFacts
  <2> QED BY <1>1, <2>1, <2>2, <2>3, <2>4 DEF DirType
<1> DEFINE m == IF v.err THEN dir[n].monetd_toml ELSE w.file
           d == [dir[n] EXCEPT !.network_toml = v.file, !.monetd_toml = m]
<1>7. m \in {"monetd", NoFile, Bad}
  BY <1>5, <1>6 DEF Directory
<1>8. dir' = [dir EXCEPT ![n] = d]
  BY <1>1, <1>3, <1>6 DEF DirType, Directory
<1> HIDE DEF m
<1>9. d \in Directory /\ d.keys = dir[n].keys
  BY <1>5, <1>6, <1>7 DEF Directory
<1> HIDE DEF d
<1>10. /\ DirType' /\ dir'[n] = d /\ dir'[n] # NoFile
       /\ \A k \in Network \ {n} : dir'[k] = dir[k]
  BY <1>1, <1>6, <1>8, <1>9, DirFieldStep
<1>12. DockerInv'
  BY DockerUnchanged DEF Inv, generateGivernyConfig
<1>13. CASE End("error") \/ End("ok")
  BY <1>4, <1>10, <1>12, <1>13, IdleRight DEF Inv, End, EndType
<1>14. CASE Go("build", 1)
  <2>1. /\ cmd' \in Loop /\ cmd' # Idle /\ cmd'.name = "new" /\ cmd'.net = n
        /\ cmd'.step = "build" /\ cmd'.i = 1 /\ reported' = reported
    BY <1>6, <1>14, GoStep DEF Step
  <2>2. CmdInv'
    BY <1>6, <1>10, <2>1, LoopBegins DEF Steps, Pushing
  <2> QED BY <1>1, <1>4, <1>10, <1>12, <2>1, <2>2 DEF Inv, EndType
<1> QED BY <1>3, <1>13, <1>14

\* The operator's edit gives network.toml another version.
LEMMA EditStep ==
    ASSUME Inv, NEW n \in Network, NEW t \in Version, editNetwork(n, t)
    PROVE  Inv'
<1> DEFINE d == [dir[n] EXCEPT !.network_toml = t]
<1>1. /\ cmd = Idle /\ dir[n] # NoFile /\ dir[n].network_toml # NoFile
      /\ dir' = [dir EXCEPT ![n] = d] /\ DirType /\ dir[n] \in Directory
  BY DEF editNetwork, Inv, DirType
<1>2. d \in Directory /\ d.keys = dir[n].keys
  <2>1. t \in Chain
    BY DEF Chain
  <2> QED BY <1>1, <2>1, DirectoryFields
<1> HIDE DEF d
<1>3. /\ DirType' /\ dir'[n] = d
      /\ \A k \in Network \ {n} : dir'[k] = dir[k]
  BY <1>1, <1>2, DirFieldStep
<1>5. DockerInv' /\ EndType' /\ cmd' = Idle
  BY <1>1, DockerUnchanged DEF Inv, EndType, editNetwork
<1> QED BY <1>3, <1>5, IdleRight DEF Inv

\* buildNetwork overwrites the chain files and ends.
LEMMA BuildStep ==
    ASSUME Inv, buildNetwork
    PROVE  Inv'
<1> DEFINE n == cmd.net
<1>1. CmdType /\ LoopRight /\ EndType /\ DirType
  BY DEF Inv, CmdInv, DirType
<1>2. PICK w \in WriteToFile(dir[n].chain, dir[n].network_toml, {OverwriteSilently}) :
         /\ Call(w.err)
         /\ dir' = [dir EXCEPT ![n].chain = w.file]
         /\ End("error") \/ End("ok")
  BY DEF buildNetwork
<1>3. n \in Network /\ dir[n] # NoFile /\ dir[n] \in Directory
  <2>1. cmd # Idle /\ cmd.step = "build"
    BY DEF buildNetwork
  <2>2. cmd \in Loop /\ cmd.name # "stop" /\ n \in Network
    BY <1>1, <2>1, LoopCommand
  <2>3. dir[n] # NoFile
    BY <1>1, <2>1, <2>2 DEF LoopRight, Steps, Pushing, Loop
  <2> QED BY <1>1, <2>2, <2>3 DEF DirType
<1> DEFINE d == [dir[n] EXCEPT !.chain = w.file]
<1>4. dir' = [dir EXCEPT ![n] = d]
  BY <1>2
<1>5. d \in Directory /\ d.keys = dir[n].keys /\ d.network_toml = dir[n].network_toml
  <2>1. w.file \in Chain
    BY <1>3, WriteOutcome DEF Directory, Chain
  <2> QED BY <1>3, <2>1, DirectoryFields
<1> HIDE DEF d
<1>6. /\ DirType' /\ dir'[n] = d
      /\ \A k \in Network \ {n} : dir'[k] = dir[k]
  BY <1>1, <1>3, <1>4, <1>5, DirFieldStep
<1>8. DockerInv'
  BY DockerUnchanged DEF Inv, buildNetwork
<1>9. cmd' = Idle /\ EndType'
  BY <1>1, <1>2, CallStep DEF End, EndType
<1> QED BY <1>6, <1>8, <1>9, IdleRight DEF Inv

-----------------------------------------------------------------------------
(* start and aws.                                                          *)

\* A command begins at its first node without having changed anything.
LEMMA BeginsUnchanged ==
    ASSUME Inv, NEW name \in {"build", "start", "aws", "push"}, NEW n \in Network,
           NEW nodes \in Seq(Node), NEW step \in Step \ Pushing, NEW flag \in BOOLEAN,
           Begin(name, n, nodes, step, flag), step \in Steps(name), step # "keys",
           name = "aws" => flag = FALSE, name # "push" => dir[n] # NoFile,
           name = "start" => step # "export" /\ (step = "create" => n \notin networks),
           UNCHANGED <<dir, exported, networks, containers, settled, faults>>
    PROVE  Inv'
<1>1. /\ cmd' \in Loop /\ cmd' # Idle /\ reported' = reported
      /\ cmd'.name = name /\ cmd'.net = n /\ cmd'.step = step /\ cmd'.i = 1
      /\ cmd'.flag = flag
  <2>1. /\ step \in Step /\ name \in {"new", "build", "start", "aws", "push"}
        /\ NoFile \in Chain /\ 1 \in Nat
    BY DEF Chain
  <2> QED BY <2>1 DEF Begin, Loop, Idle
<1>2. DirType' /\ DockerInv' /\ EndType'
  BY <1>1, DirUnchanged, DockerUnchanged DEF Inv, EndType
<1>3. CmdInv'
  <2>1. step = "export" /\ flag => name = "start"
    BY DEF Steps
  <2> QED BY <1>1, <2>1, LoopBegins
<1> QED BY <1>2, <1>3 DEF Inv

\* build begins.
LEMMA BeginBuildStep ==
    ASSUME Inv, NEW n \in Network, BeginBuild(n)
    PROVE  Inv'
<1>1. Nodes[dir[n].network_toml] \in Seq(Node) /\ dir[n] # NoFile
  BY NetworkAssumption DEF BeginBuild
<1> QED BY <1>1, BeginsUnchanged DEF BeginBuild, Steps, Step, Pushing

\* start and aws end at a network.toml they cannot parse.
LEMMA ParseFailsStep ==
    ASSUME Inv, NEW n \in Network, ParseFails(n)
    PROVE  Inv'
BY EndsUnchanged DEF ParseFails, Inv, EndType

\* start begins.
LEMMA StartStep ==
    ASSUME Inv, NEW n \in Network, NEW force \in BOOLEAN, NEW useExisting \in BOOLEAN,
           NEW startNodes \in BOOLEAN, startDockerNetwork(n, force, useExisting, startNodes)
    PROVE  Inv'
<1> DEFINE step == IF n \notin networks THEN "create"
                   ELSE IF useExisting THEN "use" ELSE IF force THEN "remove" ELSE "refuse"
<1>1. /\ step \in Step \ Pushing /\ step \in Steps("start") /\ step \notin {"keys", "export"}
      /\ step = "create" => n \notin networks
  BY DEF Step, Steps, Pushing
<1>2. /\ Begin("start", n, Nodes[dir[n].network_toml], step, startNodes) /\ dir[n] # NoFile
      /\ UNCHANGED <<dir, exported, networks, containers, settled, faults>>
  BY DEF startDockerNetwork
<1>3. Nodes[dir[n].network_toml] \in Seq(Node)
  BY NetworkAssumption DEF startDockerNetwork
<1> HIDE DEF step
<1> QED BY <1>1, <1>2, <1>3, BeginsUnchanged

\* aws begins.
LEMMA AWSStep ==
    ASSUME Inv, NEW n \in Network, networkAWS(n)
    PROVE  Inv'
<1>1. Nodes[dir[n].network_toml] \in Seq(Node) /\ dir[n] # NoFile
  BY NetworkAssumption DEF networkAWS
<1> QED BY <1>1, BeginsUnchanged DEF networkAWS, Steps, Step, Pushing

\* push begins at its node.
LEMMA PushBeginStep ==
    ASSUME Inv, NEW n \in Network, NEW v \in Node, networkPush(n, v)
    PROVE  Inv'
<1>1. <<v>> \in Seq(Node)
  OBVIOUS
<1> QED BY <1>1, BeginsUnchanged DEF networkPush, Steps, Step, Pushing

\* The nodes passed once one more is.
LEMMA PassedNext ==
    ASSUME cmd \in Loop, cmd.i \in 1 .. Len(cmd.nodes),
           cmd'.nodes = cmd.nodes, cmd'.i = cmd.i + 1
    PROVE  Passed' \subseteq Passed \cup {Moniker}
<1>1. Len(cmd.nodes) \in Nat
  BY DEF Loop
<1>2. ASSUME NEW j \in 1 .. cmd'.i - 1 PROVE cmd.nodes[j] \in Passed \cup {Moniker}
  <2>1. j \in 1 .. cmd.i - 1 \/ j = cmd.i
    BY <1>1
  <2> QED BY <2>1 DEF Passed, Moniker
<1> QED BY <1>2 DEF Passed

\* The loops pass over what does not run.
LEMMA SkipStep ==
    ASSUME Inv, skipNonNode
    PROVE  Inv'
<1> DEFINE n == cmd.net
<1>1. CmdInv /\ CmdType /\ LoopRight /\ EndType
  BY DEF Inv, CmdInv
<1>2. AtNode("export") \/ AtNode("push")
  BY DEF skipNonNode
<1>3. /\ cmd \in Loop /\ n \in Network /\ cmd.i \in 1 .. Len(cmd.nodes)
      /\ cmd.i + 1 \in 1 .. Len(cmd.nodes) + 1 /\ cmd.i + 1 \in Nat
      /\ cmd # Idle /\ cmd.step \in {"export", "push"}
  BY <1>1, <1>2, MonikerFacts DEF Step, AtNode
<1>4. Moniker \in NonNode /\ Go(cmd.step, cmd.i + 1)
  BY DEF skipNonNode
<1>5. /\ cmd' \in Loop /\ cmd' # Idle /\ reported' = reported
      /\ cmd'.name = cmd.name /\ cmd'.net = n /\ cmd'.missed = cmd.missed
      /\ cmd'.flag = cmd.flag /\ cmd'.nodes = cmd.nodes /\ cmd'.out = cmd.out
      /\ cmd'.step = cmd.step /\ cmd'.i = cmd.i + 1
  BY <1>3, <1>4, GoStep DEF Step
<1>6. DirType' /\ DockerInv' /\ EndType'
  BY <1>1, <1>5, DirUnchanged, DockerUnchanged DEF Inv, EndType, skipNonNode
<1>7. Passed' \ NonNode \subseteq Passed \ NonNode
  BY <1>3, <1>4, <1>5, PassedNext
<1>8. UNCHANGED <<dir, exported, networks, containers, settled>>
  BY DEF skipNonNode
<1>9. \A m : Running(m)' = Running(m)
  BY <1>8, RunningUnchanged
<1>10. LoopRight'
  BY <1>1, <1>3, <1>5, <1>8 DEF LoopRight, Loop
<1>11. ExportsSoFar' /\ StartRight' /\ RunsSoFar'
  BY <1>1, <1>3, <1>5, <1>7, <1>8, <1>9 DEF CmdInv, ExportsSoFar, StartRight, RunsSoFar
<1>12. CmdInv'
  BY <1>3, <1>5, <1>10, <1>11 DEF CmdInv, CmdType, KeysSoFar, PushRight, StopsSoFar, Loop, Pushing
<1> QED BY <1>6, <1>12 DEF Inv

\* Removing a network on which nothing runs changes no node that runs.
LEMMA DisconnectedStep ==
    ASSUME DockerInv, NEW n \in Network, Running(n) = {}, containers' = Disconnected(n),
           networks' = networks \ {n}, UNCHANGED <<exported, settled>>
    PROVE  /\ DockerInv' /\ \A m \in Network : Running(m)' = Running(m)
           /\ \A v \in Name : containers[v] = None => containers'[v] = None
<1>1. /\ containers \in [Name -> {None} \cup Container]
      /\ None \notin Network /\ None \notin Container
  BY NetworkAssumption DEF DockerInv, DockerType
<1>2. ASSUME NEW v \in Name
      PROVE  containers'[v] = IF v \in GetContainers /\ containers[v].net = n
                              THEN [containers[v] EXCEPT !.net = None] ELSE containers[v]
  BY DEF Disconnected
<1>3. ASSUME NEW v \in Name, containers[v] \in Container
      PROVE  /\ [containers[v] EXCEPT !.net = None] \in Container
             /\ [containers[v] EXCEPT !.net = None].net = None
             /\ [containers[v] EXCEPT !.net = None].status = containers[v].status
  BY <1>3 DEF Container
<1>4. \A v \in Name : v \in GetContainers => containers[v] \in Container
  BY <1>1 DEF GetContainers
<1>5. containers' \in [Name -> {None} \cup Container]
  <2>1. \A v \in Name : containers'[v] \in {None} \cup Container
    BY <1>1, <1>2, <1>3, <1>4
  <2> QED BY <2>1 DEF Disconnected
<1>6. ASSUME NEW m \in Network, NEW v \in Name
      PROVE  /\ v \in Running(m)' <=> v \in Running(m)
             /\ v \in Running(m) => containers'[v] = containers[v]
  <2>1. CASE v \in GetContainers /\ containers[v].net = n
    <3>1. v \in Running(m) => m = n
      BY <2>1 DEF Running
    <3>2. containers'[v].net = None
      BY <1>2, <1>3, <1>4, <2>1
    <3>3. v \notin Running(m)'
      BY <3>2, <1>1 DEF Running
    <3> QED BY <3>1, <3>3
  <2>2. CASE ~(v \in GetContainers /\ containers[v].net = n)
    <3>1. containers'[v] = containers[v]
      BY <1>2, <2>2
    <3> QED BY <3>1 DEF Running, GetContainers
  <2> QED BY <2>1, <2>2
<1>7. \A m \in Network : Running(m)' = Running(m)
  <2>1. ASSUME NEW m \in Network
        PROVE  Running(m) \subseteq Name /\ Running(m)' \subseteq Name
    BY DEF Running, GetContainers
  <2> QED BY <2>1, <1>6
<1>8. \A m \in Network : \A v \in Running(m) : containers'[v] = containers[v]
  BY <1>6 DEF Running, GetContainers
<1>9. ExportType' /\ DockerType'
  BY <1>5 DEF DockerInv, ExportType, DockerType
<1>10. NetworksRight' /\ SettledAgrees'
  BY <1>7, <1>8 DEF DockerInv, NetworksRight, SettledAgrees
<1>11. \A v \in Name : containers[v] = None => containers'[v] = None
  BY <1>2 DEF GetContainers
<1> QED BY <1>7, <1>9, <1>10, <1>11 DEF DockerInv

\* The nodes of a network are no longer settled.
LEMMA UnsettledStep ==
    ASSUME DockerInv, NEW n \in Network, settled' = [settled EXCEPT ![n] = {}],
           networks' \in {networks, networks \cup {n}}, UNCHANGED <<exported, containers>>
    PROVE  DockerInv' /\ settled'[n] = {} /\ \A m : Running(m)' = Running(m)
<1>1. \A m : Running(m)' = Running(m)
  BY RunningUnchanged
<1>2. ExportType' /\ DockerType'
  BY DEF DockerInv, ExportType, DockerType
<1>3. settled'[n] = {} /\ \A m \in Network : settled'[m] \subseteq settled[m]
  BY DEF DockerInv, DockerType
<1>4. NetworksRight'
  BY <1>1 DEF DockerInv, NetworksRight
<1>5. SettledAgrees'
  BY <1>1, <1>3 DEF DockerInv, SettledAgrees
<1> QED BY <1>1, <1>2, <1>3, <1>4, <1>5 DEF DockerInv

\* SafeCreateNetwork uses, removes or creates the Docker network, or ends start.
LEMMA SafeCreateStep ==
    ASSUME Inv, SafeCreateNetwork
    PROVE  Inv'
<1> DEFINE n == cmd.net
<1>1. CmdInv /\ CmdType /\ LoopRight /\ EndType /\ DirType /\ DockerInv
  BY DEF Inv, CmdInv
<1>2. /\ cmd \in Loop /\ cmd # Idle /\ n \in Network /\ cmd.name = "start"
      /\ cmd.step \in {"refuse", "use", "remove", "create"} /\ cmd.i = 1 /\ dir[n] # NoFile
  <2>1. cmd # Idle /\ cmd.step \in {"refuse", "use", "remove", "create"}
    BY DEF SafeCreateNetwork
  <2>2. cmd \in Loop /\ cmd.name # "stop" /\ n \in Network
    BY <1>1, <2>1, LoopCommand
  <2> QED BY <1>1, <2>1, <2>2 DEF LoopRight, Steps, Pushing, Loop
<1>3. DirType' /\ UNCHANGED <<dir, exported>>
  BY <1>1, DirUnchanged DEF SafeCreateNetwork, Inv
<1>4. CASE cmd.step = "refuse" /\ End("error") /\ UNCHANGED <<networks, containers, settled, faults>>
  BY <1>1, <1>3, <1>4, EndsUnchanged DEF EndType
<1>5. CASE /\ cmd.step = "use"
           /\ cmd' = [cmd EXCEPT !.step = "export", !.missed = Running(cmd.net) # {}]
           /\ settled' = [settled EXCEPT ![cmd.net] = {}]
           /\ UNCHANGED <<networks, containers, reported, faults>>
  <2>1. /\ cmd' \in Loop /\ cmd' # Idle /\ cmd'.name = "start" /\ cmd'.net = n
        /\ cmd'.step = "export" /\ cmd'.i = 1
    BY <1>2, <1>5 DEF Loop, Step, Idle
  <2>2. ~cmd'.missed => Running(n) = {}
    BY <1>2, <1>5 DEF Loop
  <2>3. DockerInv' /\ settled'[n] = {} /\ \A m : Running(m)' = Running(m)
    BY <1>1, <1>2, <1>3, <1>5, UnsettledStep
  <2>4. Running(cmd.net)' = Running(n)
    BY <2>1, <2>3
  <2>5. CmdInv'
    BY <1>2, <1>3, <1>5, <2>1, <2>2, <2>3, <2>4, LoopBegins DEF Steps, Pushing
  <2> QED BY <1>1, <1>3, <1>5, <2>3, <2>5 DEF Inv, EndType
<1>6. ASSUME NEW fails \in BOOLEAN, Call(fails), cmd.step = "remove",
             UNCHANGED settled,
             Running(n) = {}, Go("create", 1), networks' = networks \ {n},
             containers' = Disconnected(n)
      PROVE  Inv'
  <2>1. /\ cmd' \in Loop /\ cmd' # Idle /\ cmd'.name = "start" /\ cmd'.net = n
        /\ cmd'.step = "create" /\ cmd'.i = 1 /\ reported' = reported
    BY <1>2, <1>6, GoStep DEF Step
  <2>2. DockerInv'
    BY <1>1, <1>2, <1>3, <1>6, DisconnectedStep
  <2>3. CmdInv'
    BY <1>2, <1>3, <1>6, <2>1, LoopBegins DEF Steps, Pushing
  <2>4. EndType'
    BY <1>1, <1>6, <2>1, CallStep DEF EndType
  <2> QED BY <1>3, <2>2, <2>3, <2>4 DEF Inv
<1>7. ASSUME NEW fails \in BOOLEAN, Call(fails), End("error"),
             UNCHANGED <<networks, containers, settled>>
      PROVE  Inv'
  BY <1>1, <1>3, <1>7, EndsUnchanged, CallStep
<1>8. ASSUME NEW fails \in BOOLEAN, Call(fails), cmd.step = "create",
             UNCHANGED containers, Go("export", 1), networks' = networks \cup {n},
             settled' = [settled EXCEPT ![n] = {}]
      PROVE  Inv'
  <2>1. /\ cmd' \in Loop /\ cmd' # Idle /\ cmd'.name = "start" /\ cmd'.net = n
        /\ cmd'.step = "export" /\ cmd'.i = 1 /\ reported' = reported
    BY <1>2, <1>8, GoStep DEF Step
  <2>2. DockerInv' /\ settled'[n] = {} /\ \A m : Running(m)' = Running(m)
    BY <1>1, <1>2, <1>3, <1>8, UnsettledStep
  <2>3. n \notin networks
    BY <1>1, <1>2, <1>8 DEF CmdInv, StartRight
  <2>4. Running(cmd.net)' = {}
    BY <1>1, <1>2, <2>1, <2>2, <2>3 DEF DockerInv, NetworksRight
  <2>5. CmdInv'
    BY <1>2, <1>3, <1>8, <2>1, <2>2, <2>4, LoopBegins DEF Steps, Pushing
  <2>6. EndType'
    BY <1>1, <1>8, <2>1, CallStep DEF EndType
  <2> QED BY <1>3, <2>2, <2>5, <2>6 DEF Inv
<1>9. CASE /\ cmd.step = "remove"
           /\ \E fails \in BOOLEAN :
                 /\ Call(fails)
                 /\ IF fails \/ Running(cmd.net) # {}
                    THEN End("error") /\ UNCHANGED <<networks, containers>>
                    ELSE /\ Go("create", 1)
                         /\ networks' = networks \ {cmd.net}
                         /\ containers' = Disconnected(cmd.net)
           /\ UNCHANGED settled
  BY <1>6, <1>7, <1>9
<1>10. CASE /\ cmd.step = "create"
            /\ \E fails \in BOOLEAN :
                  /\ Call(fails)
                  /\ IF fails THEN End("error") /\ UNCHANGED <<networks, settled>>
                     ELSE /\ Go("export", 1)
                          /\ networks' = networks \cup {cmd.net}
                          /\ settled' = [settled EXCEPT ![cmd.net] = {}]
            /\ UNCHANGED containers
  BY <1>7, <1>8, <1>10
<1> QED BY <1>4, <1>5, <1>9, <1>10 DEF SafeCreateNetwork

\* A copy leaves the old content, that of the source, or one nobody can read,
\* and that of the source when it succeeds.
LEMMA CopyOutcome ==
    ASSUME NEW src, NEW dst, NEW w \in CopyFileContents(src, dst)
    PROVE  w.file \in {src, dst, Bad} /\ (w.err \/ w.file = src)
<1>1. w = Outcome(dst, TRUE) \/ w = Outcome(src, FALSE) \/ w = Outcome(Bad, TRUE)
  BY DEF CopyFileContents
<1>2. CASE w = Outcome(dst, TRUE)
  BY <1>2 DEF Outcome
<1>3. CASE w = Outcome(src, FALSE)
  BY <1>3 DEF Outcome
<1>4. CASE w = Outcome(Bad, TRUE)
  BY <1>4 DEF Outcome
<1> QED BY <1>1, <1>2, <1>3, <1>4

\* A command at its export of one node, and what the export does to it: it ends
\* with an error, or passes the node and notes a copy it missed.
LEMMA ExportNodeStep ==
    ASSUME CmdInv, EndType, AtNode("export"), NEW old, NEW w, NEW fails \in BOOLEAN,
           NEW out \in [Node -> Chain], ExportNode(old, w, fails, out)
    PROVE  /\ EndType' /\ w \in CopyFileContents(dir[cmd.net].chain, old)
           /\ \/ cmd' = Idle
              \/ /\ cmd' \in Loop /\ cmd' # Idle /\ cmd'.name = cmd.name /\ cmd'.net = cmd.net
                 /\ cmd'.flag = cmd.flag /\ cmd'.nodes = cmd.nodes /\ cmd'.out = out
                 /\ cmd'.step = "export" /\ cmd'.i = cmd.i + 1 /\ ~ExportErrs(fails)
                 /\ cmd'.missed \/ (~cmd.missed /\ ~w.err)
<1>1. /\ cmd \in Loop /\ cmd.i + 1 \in Nat /\ cmd.step = "export"
  BY MonikerFacts DEF CmdInv, Step, AtNode
<1>2. Call(fails \/ (w.err /\ dir[cmd.net].chain # NoFile))
  BY DEF ExportNode
<1>3. faults' \in 0 .. MaxFaults
  BY <1>2, CallStep
<1>4. CASE End("error")
  BY <1>3, <1>4 DEF ExportNode, End, EndType
<1>5. CASE /\ ~ExportErrs(fails)
           /\ cmd' = [cmd EXCEPT !.i = @ + 1, !.missed = @ \/ w.err, !.out = out]
           /\ UNCHANGED reported
  <2>1. /\ cmd' \in Loop /\ cmd' # Idle /\ cmd'.name = cmd.name /\ cmd'.net = cmd.net
        /\ cmd'.step = "export" /\ cmd'.i = cmd.i + 1 /\ cmd'.flag = cmd.flag
        /\ cmd'.nodes = cmd.nodes /\ cmd'.out = out
    BY <1>1, <1>5 DEF Loop, Idle
  <2>2. cmd'.missed \/ (~cmd.missed /\ ~w.err)
    BY <1>1, <1>5 DEF Loop
  <2> QED BY <1>3, <1>5, <2>1, <2>2 DEF ExportNode, EndType
<1> QED BY <1>4, <1>5 DEF ExportNode

\* The configuration of one node is replaced.
LEMMA ExportedStep ==
    ASSUME ExportType, NEW n \in Network, NEW v \in Node, NEW x \in Export,
           exported' = [exported EXCEPT ![n][v] = x]
    PROVE  /\ ExportType' /\ exported'[n][v] = x
           /\ \A u \in Node \ {v} : exported'[n][u] = exported[n][u]
           /\ \A m \in Network \ {n} : exported'[m] = exported[m]
<1> DEFINE f == [exported[n] EXCEPT ![v] = x]
<1>1. exported[n] \in [Node -> Export] /\ exported = [m \in Network |-> exported[m]]
  BY DEF ExportType
<1>2. f \in [Node -> Export] /\ f[v] = x /\ \A u \in Node \ {v} : f[u] = exported[n][u]
  BY <1>1
<1>3. exported' = [exported EXCEPT ![n] = f]
  OBVIOUS
<1> HIDE DEF f
<1>4. exported' = [m \in Network |-> IF m = n THEN f ELSE exported[m]]
  BY <1>1, <1>3
<1>5. \A m \in Network : exported'[m] = IF m = n THEN f ELSE exported[m]
  BY <1>4
<1>6. exported' = [m \in Network |-> exported'[m]]
  BY <1>4, <1>5
<1> QED BY <1>2, <1>5, <1>6 DEF ExportType

\* The nodes passed are nodes.
LEMMA PassedNodes ==
    ASSUME cmd \in Loop, cmd.i \in 1 .. Len(cmd.nodes)
    PROVE  Passed \subseteq Node
<1>1. cmd.nodes \in Seq(Node) /\ Len(cmd.nodes) \in Nat
  BY DEF Loop
<1>2. \A j \in 1 .. cmd.i - 1 : j \in 1 .. Len(cmd.nodes)
  BY <1>1
<1> QED BY <1>1, <1>2, NodeFacts DEF Passed

\* start exports the configuration of one node.
LEMMA ExportDockerStep ==
    ASSUME Inv, exportDockerNodeConfig
    PROVE  Inv'
<1> DEFINE n == cmd.net
           v == Moniker
           e == exported[n][v]
           c == dir[n].chain
<1>1. CmdInv /\ CmdType /\ LoopRight /\ EndType /\ DirType /\ DockerInv /\ ExportType
  BY DEF Inv, CmdInv, DockerInv
<1>2. AtNode("export") /\ cmd.name = "start" /\ v \notin NonNode
  BY DEF exportDockerNodeConfig
<1>3. /\ cmd \in Loop /\ n \in Network /\ cmd.i \in 1 .. Len(cmd.nodes)
      /\ cmd.i + 1 \in 1 .. Len(cmd.nodes) + 1 /\ v \in Node
      /\ cmd # Idle /\ cmd.step = "export" /\ cmd.out \in [Node -> Chain]
  BY <1>1, <1>2, MonikerFacts DEF Step, AtNode, Loop
<1>4. PICK w \in CopyFileContents(c, e.files.chain), fails \in BOOLEAN :
         /\ ExportNode(e.files.chain, w, fails, cmd.out)
         /\ \E ready \in IF ExportErrs(fails) THEN {TRUE, e.ready} ELSE {TRUE},
               key \in IF ExportErrs(fails) THEN {e.files.key, FALSE} ELSE {v \in dir[n].keys} :
               exported' = [exported EXCEPT ![n][v] =
                              [files |-> [chain |-> w.file, key |-> key], ready |-> ready]]
  BY DEF exportDockerNodeConfig
<1>5. PICK ready \in {TRUE, e.ready},
           key \in IF ExportErrs(fails) THEN {e.files.key, FALSE} ELSE {v \in dir[n].keys} :
         exported' = [exported EXCEPT ![n][v] =
                        [files |-> [chain |-> w.file, key |-> key], ready |-> ready]]
  BY <1>4
<1> DEFINE x == [files |-> [chain |-> w.file, key |-> key], ready |-> ready]
<1>6. settled[n] = {} /\ dir[n] # NoFile /\ dir[n] \in Directory
  BY <1>1, <1>2, <1>3 DEF CmdInv, StartRight, LoopRight, DirType
<1>7. w.file \in {c, e.files.chain, Bad} /\ (w.err \/ w.file = c)
  BY CopyOutcome
<1>8. x \in Export /\ x.files.chain = w.file /\ (~ExportErrs(fails) => x.files.key)
  <2>1. e \in Export /\ c \in Chain
    BY <1>1, <1>3, <1>6 DEF ExportType, Directory
  <2>2. e.files.chain \in Chain /\ e.files.key \in BOOLEAN /\ e.ready \in BOOLEAN
    BY <2>1 DEF Export, NodeFiles
  <2>3. w.file \in Chain /\ ready \in BOOLEAN
    BY <1>5, <1>7, <2>1, <2>2 DEF Chain
  <2>4. key \in BOOLEAN /\ (~ExportErrs(fails) => key)
    <3>1. CASE ExportErrs(fails)
      BY <1>5, <2>2, <3>1
    <3>2. CASE ~ExportErrs(fails)
      <4>1. v \in dir[n].keys
        BY <3>2 DEF ExportErrs
      <4>2. key = (v \in dir[n].keys)
        BY <1>5, <3>2
      <4> QED BY <4>1, <4>2
    <3> QED BY <3>1, <3>2
  <2>5. [chain |-> w.file, key |-> key] \in NodeFiles
    BY <2>3, <2>4 DEF NodeFiles
  <2>6. x \in Export
    BY <2>3, <2>5 DEF Export
  <2> QED BY <2>4, <2>6
<1> HIDE DEF x
<1>9. /\ ExportType' /\ exported'[n][v] = x
      /\ \A u \in Node \ {v} : exported'[n][u] = exported[n][u]
      /\ \A m \in Network \ {n} : exported'[m] = exported[m]
  <2> HIDE DEF n, v
  <2>1. exported' = [exported EXCEPT ![n][v] = x]
    BY <1>5 DEF x
  <2> QED BY <2>1, <1>1, <1>3, <1>8, ExportedStep
<1>10. UNCHANGED <<dir, networks, containers, settled>>
  BY DEF exportDockerNodeConfig
<1>11. \A m : Running(m)' = Running(m)
  BY <1>10, RunningUnchanged
<1>12. DockerInv'
  <2>1. DockerType' /\ NetworksRight'
    BY <1>1, <1>10, <1>11 DEF DockerInv, DockerType, NetworksRight
  <2>2. SettledAgrees'
    BY <1>1, <1>6, <1>9, <1>10, <1>11 DEF DockerInv, SettledAgrees
  <2> QED BY <1>9, <2>1, <2>2 DEF DockerInv
<1>13. DirType'
  BY <1>1, <1>10, DirUnchanged DEF Inv
<1>14. /\ EndType'
       /\ \/ cmd' = Idle
          \/ /\ cmd' \in Loop /\ cmd' # Idle /\ cmd'.name = cmd.name /\ cmd'.net = n
             /\ cmd'.nodes = cmd.nodes
             /\ cmd'.step = "export" /\ cmd'.i = cmd.i + 1 /\ ~ExportErrs(fails)
             /\ cmd'.missed \/ (~cmd.missed /\ ~w.err)
  BY <1>1, <1>2, <1>3, <1>4, ExportNodeStep
<1>15. CASE cmd' = Idle
  BY <1>12, <1>13, <1>14, <1>15, IdleRight DEF Inv
<1>16. CASE /\ cmd' \in Loop /\ cmd' # Idle /\ cmd'.name = cmd.name /\ cmd'.net = n
            /\ cmd'.nodes = cmd.nodes
            /\ cmd'.step = "export" /\ cmd'.i = cmd.i + 1 /\ ~ExportErrs(fails)
            /\ cmd'.missed \/ (~cmd.missed /\ ~w.err)
  <2>1. Passed' \subseteq Passed \cup {v}
    BY <1>3, <1>16, PassedNext
  <2>2. LoopRight'
    BY <1>2, <1>3, <1>6, <1>10, <1>16 DEF LoopRight, Steps
  <2>3. ASSUME ~cmd'.missed, NEW u \in Passed' \ NonNode
        PROVE  dir'[n].chain = exported'[n][u].files.chain /\ exported'[n][u].files.key
    <3>1. CASE u = v
      BY <3>1, <2>3, <1>7, <1>8, <1>9, <1>10, <1>16
    <3>2. CASE u # v
      <4>1. u \in Passed \ NonNode
        BY <2>1, <2>3, <3>2
      <4>2. u \in Node
        BY <4>1, <1>3, PassedNodes
      <4>3. c = exported[n][u].files.chain /\ exported[n][u].files.key
        BY <4>1, <2>3, <1>1, <1>2, <1>3, <1>16 DEF CmdInv, ExportsSoFar
      <4> QED BY <4>2, <4>3, <3>2, <1>9, <1>10
    <3> QED BY <3>1, <3>2
  <2>4. ExportsSoFar'
    BY <2>3, <1>2, <1>16 DEF ExportsSoFar
  <2>5. StartRight'
    BY <1>1, <1>2, <1>3, <1>10, <1>11, <1>16 DEF CmdInv, StartRight
  <2>6. CmdInv'
    BY <1>2, <1>16, <2>2, <2>4, <2>5 DEF CmdInv, CmdType, KeysSoFar, PushRight, RunsSoFar,
       StopsSoFar, Pushing
  <2> QED BY <1>12, <1>13, <1>14, <2>6 DEF Inv
<1> QED BY <1>14, <1>15, <1>16

\* aws exports the configuration of one node.
LEMMA ExportAWSStep ==
    ASSUME Inv, exportAWSNodeConfig
    PROVE  Inv'
<1> DEFINE n == cmd.net
           v == Moniker
           c == dir[n].chain
<1>1. CmdInv /\ CmdType /\ LoopRight /\ EndType /\ DirType /\ DockerInv
  BY DEF Inv, CmdInv
<1>2. AtNode("export") /\ cmd.name = "aws" /\ v \notin NonNode
  BY DEF exportAWSNodeConfig
<1>3. /\ cmd \in Loop /\ n \in Network /\ cmd.i \in 1 .. Len(cmd.nodes)
      /\ cmd.i + 1 \in 1 .. Len(cmd.nodes) + 1 /\ v \in Node
      /\ cmd # Idle /\ cmd.step = "export" /\ cmd.out \in [Node -> Chain]
  BY <1>1, <1>2, MonikerFacts DEF Step, AtNode, Loop
<1>0. PICK old \in Chain : \E w \in CopyFileContents(c, old), fails \in BOOLEAN :
           ExportNode(old, w, fails, [cmd.out EXCEPT ![v] = w.file])
  BY DEF exportAWSNodeConfig
<1>4. PICK w \in CopyFileContents(c, old), fails \in BOOLEAN :
         ExportNode(old, w, fails, [cmd.out EXCEPT ![v] = w.file])
  BY <1>0
<1> DEFINE out == [cmd.out EXCEPT ![v] = w.file]
<1>5. dir[n] # NoFile /\ dir[n] \in Directory
  BY <1>1, <1>2, <1>3 DEF LoopRight, DirType
<1>6. w.file \in {c, old, Bad} /\ (w.err \/ w.file = c)
  BY CopyOutcome
<1>7. w.file \in Chain
  BY <1>1, <1>3, <1>5, <1>6 DEF Directory, Chain
<1>8. /\ out \in [Node -> Chain] /\ out[v] = w.file
      /\ \A u \in Node \ {v} : out[u] = cmd.out[u]
  BY <1>3, <1>7
<1> HIDE DEF out
<1>9. UNCHANGED <<dir, exported, networks, containers, settled>>
  BY DEF exportAWSNodeConfig
<1>10. DirType' /\ DockerInv'
  BY <1>1, <1>9, DirUnchanged, DockerUnchanged
<1>11. /\ EndType'
       /\ \/ cmd' = Idle
          \/ /\ cmd' \in Loop /\ cmd' # Idle /\ cmd'.name = cmd.name /\ cmd'.net = n
             /\ cmd'.nodes = cmd.nodes /\ cmd'.out = out
             /\ cmd'.step = "export" /\ cmd'.i = cmd.i + 1 /\ cmd'.flag = cmd.flag
             /\ cmd'.missed \/ (~cmd.missed /\ ~w.err)
  <2>1. ExportNode(old, w, fails, out)
    BY <1>4 DEF out
  <2> QED BY <2>1, <1>1, <1>2, <1>8, ExportNodeStep
<1>12. CASE cmd' = Idle
  BY <1>10, <1>11, <1>12, IdleRight DEF Inv
<1>13. CASE /\ cmd' \in Loop /\ cmd' # Idle /\ cmd'.name = cmd.name /\ cmd'.net = n
            /\ cmd'.nodes = cmd.nodes /\ cmd'.out = out
            /\ cmd'.step = "export" /\ cmd'.i = cmd.i + 1 /\ cmd'.flag = cmd.flag
            /\ cmd'.missed \/ (~cmd.missed /\ ~w.err)
  <2>1. Passed' \subseteq Passed \cup {v}
    BY <1>3, <1>13, PassedNext
  <2>2. LoopRight'
    BY <1>1, <1>2, <1>3, <1>5, <1>9, <1>13 DEF LoopRight, Steps
  <2>3. ASSUME ~cmd'.missed, NEW u \in Passed' \ NonNode
        PROVE  dir'[n].chain = cmd'.out[u]
    <3>1. CASE u = v
      BY <3>1, <2>3, <1>6, <1>8, <1>9, <1>13
    <3>2. CASE u # v
      <4>1. u \in Passed \ NonNode
        BY <2>1, <2>3, <3>2
      <4>2. u \in Node
        BY <4>1, <1>3, PassedNodes
      <4>3. c = cmd.out[u]
        BY <4>1, <2>3, <1>1, <1>2, <1>3, <1>13 DEF CmdInv, ExportsSoFar
      <4> QED BY <4>2, <4>3, <3>2, <1>8, <1>9, <1>13
    <3> QED BY <3>1, <3>2
  <2>4. ExportsSoFar'
    BY <2>3, <1>2, <1>13 DEF ExportsSoFar
  <2>5. CmdInv'
    BY <1>2, <1>13, <2>2, <2>4 DEF CmdInv, CmdType, KeysSoFar, StartRight, PushRight, RunsSoFar,
       StopsSoFar, Pushing
  <2> QED BY <1>10, <1>11, <2>5 DEF Inv
<1> QED BY <1>11, <1>12, <1>13

\* A command behind the last node has passed them all.
LEMMA PastAll ==
    ASSUME CmdType, LoopRight, NEW step \in Step, PastNodes(step)
    PROVE  /\ cmd \in Loop /\ cmd.name # "stop" /\ cmd.net \in Network
           /\ cmd.step = step /\ cmd # Idle
           /\ Runnable(cmd.nodes) \subseteq Passed \ NonNode /\ Runnable(cmd.nodes) \subseteq Node
<1>1. /\ cmd \in Loop /\ cmd.name # "stop" /\ cmd.net \in Network /\ cmd # Idle /\ cmd.step = step
      /\ cmd.nodes \in Seq(Node)
  BY LoopCommand DEF PastNodes, Step, Pushing
<1>2. cmd.i = Len(cmd.nodes) + 1 /\ Len(cmd.nodes) \in Nat
  BY <1>1, NodeFacts DEF LoopRight, PastNodes
<1>3. 1 .. cmd.i - 1 = 1 .. Len(cmd.nodes)
  BY <1>2
<1>4. Listed(cmd.nodes) \subseteq Passed
  BY <1>1, <1>3, NodeFacts DEF Passed
<1>5. Runnable(cmd.nodes) = Listed(cmd.nodes) \ NonNode /\ Listed(cmd.nodes) \subseteq Node
  BY <1>1, NodeFacts
<1> QED BY <1>1, <1>4, <1>5

\* A start that missed nothing settles its nodes: it exported one content to them
\* all, with their keys, and none runs yet.
LEMMA SettledStep ==
    ASSUME DockerInv, CmdInv, PastNodes("export"), cmd.name = "start", ~cmd.missed,
           settled' = [settled EXCEPT ![cmd.net] = Runnable(cmd.nodes)],
           UNCHANGED <<exported, networks, containers>>
    PROVE  DockerInv'
<1> DEFINE n == cmd.net
<1>1. /\ n \in Network /\ cmd # Idle /\ cmd.step = "export"
      /\ Runnable(cmd.nodes) \subseteq Passed \ NonNode /\ Runnable(cmd.nodes) \subseteq Node
  BY PastAll DEF CmdInv, Step
<1>2. Running(n) = {}
  BY <1>1 DEF CmdInv, StartRight
<1>3. \A v \in Runnable(cmd.nodes) :
         exported[n][v].files.chain = dir[n].chain /\ exported[n][v].files.key
  BY <1>1 DEF CmdInv, ExportsSoFar
<1>4. \A m : Running(m)' = Running(m)
  BY RunningUnchanged
<1>5. /\ settled' \in [Network -> SUBSET Node] /\ settled'[n] = Runnable(cmd.nodes)
      /\ \A m \in Network \ {n} : settled'[m] = settled[m]
  BY <1>1 DEF DockerInv, DockerType
<1>6. ExportType' /\ DockerType' /\ NetworksRight'
  BY <1>4, <1>5 DEF DockerInv, ExportType, DockerType, NetworksRight
<1>7. SettledAgrees'
  <2> SUFFICES ASSUME NEW m \in Network, NEW w \in settled'[m]
               PROVE  /\ exported[m][w].files.key
                      /\ \A v \in settled'[m] :
                            exported[m][v].files.chain = exported[m][w].files.chain
                      /\ w \in Running(m) => containers[w].files = exported[m][w].files
    BY <1>4 DEF SettledAgrees
  <2>1. CASE m = n
    BY <1>2, <1>3, <1>5, <2>1
  <2>2. CASE m # n
    BY <1>5, <2>2 DEF DockerInv, SettledAgrees
  <2> QED BY <2>1, <2>2
<1> QED BY <1>6, <1>7 DEF DockerInv

\* All nodes are exported: the command ends, or goes on to push them.
LEMMA ExportConfigsStep ==
    ASSUME Inv, exportConfigs
    PROVE  Inv'
<1>1. CmdInv /\ CmdType /\ LoopRight /\ EndType /\ DirType /\ DockerInv
  BY DEF Inv, CmdInv
<1>2. PastNodes("export") /\ UNCHANGED <<dir, exported, networks, containers, faults>>
  BY DEF exportConfigs
<1>3. /\ cmd \in Loop /\ cmd.name # "stop" /\ cmd.net \in Network
      /\ cmd.step = "export" /\ cmd # Idle
  BY <1>1, <1>2, PastAll DEF Step
<1>4. DirType'
  BY <1>1, <1>2, DirUnchanged
<1>5. DockerInv'
  <2>1. CASE cmd.name = "start" /\ ~cmd.missed
    BY <1>1, <1>2, <2>1, SettledStep DEF exportConfigs
  <2>2. CASE ~(cmd.name = "start" /\ ~cmd.missed)
    <3>1. UNCHANGED settled
      BY <2>2 DEF exportConfigs
    <3> QED BY <3>1, <1>1, <1>2, DockerUnchanged
  <2> QED BY <2>1, <2>2
<1>6. CASE cmd.flag
  <2>1. Go("push", 1)
    BY <1>6 DEF exportConfigs
  <2>2. /\ cmd' \in Loop /\ cmd' # Idle /\ reported' = reported
        /\ cmd'.name = cmd.name /\ cmd'.net = cmd.net /\ cmd'.step = "push" /\ cmd'.i = 1
    BY <1>3, <2>1, GoStep DEF Step
  <2>3. cmd.name = "start" /\ dir[cmd.net] # NoFile
    BY <1>1, <1>3, <1>6 DEF CmdInv, LoopRight
  <2>4. CmdInv'
    BY <1>2, <1>3, <2>2, <2>3, LoopBegins DEF Steps, Pushing
  <2> QED BY <1>1, <1>2, <1>4, <1>5, <2>2, <2>4 DEF Inv, EndType
<1>7. CASE ~cmd.flag
  <2>1. End("ok")
    BY <1>7 DEF exportConfigs
  <2> QED BY <2>1, <1>1, <1>2, <1>4, <1>5, IdleRight DEF Inv, EndType, End
<1> QED BY <1>6, <1>7

-----------------------------------------------------------------------------
(* push.                                                                   *)

\* A container that does not run on a network, or none, takes the place of
\* another: the other containers run on.
LEMMA ContainerStep ==
    ASSUME DockerInv, NEW v \in Name, NEW x \in {None} \cup Container,
           x # None => x.status # "running" \/ x.net = None,
           containers' = [containers EXCEPT ![v] = x],
           UNCHANGED <<exported, networks, settled>>
    PROVE  /\ DockerInv' /\ containers'[v] = x
           /\ \A u \in Name \ {v} : containers'[u] = containers[u]
           /\ \A m \in Network : Running(m)' = Running(m) \ {v}
<1>1. containers \in [Name -> {None} \cup Container] /\ None \notin Network
  BY NetworkAssumption DEF DockerInv, DockerType
<1>2. /\ containers' \in [Name -> {None} \cup Container] /\ containers'[v] = x
      /\ \A u \in Name \ {v} : containers'[u] = containers[u]
  BY <1>1
<1>3. ASSUME NEW m \in Network PROVE Running(m)' = Running(m) \ {v}
  <2>1. v \notin Running(m)'
    BY <1>1, <1>2 DEF Running, GetContainers
  <2>2. \A u \in Name \ {v} : u \in Running(m)' <=> u \in Running(m)
    BY <1>2 DEF Running, GetContainers
  <2>3. Running(m) \subseteq Name /\ Running(m)' \subseteq Name
    BY DEF Running, GetContainers
  <2> QED BY <2>1, <2>2, <2>3
<1>4. \A m \in Network : \A u \in Running(m)' : containers'[u] = containers[u]
  BY <1>2, <1>3 DEF Running, GetContainers
<1>5. ExportType' /\ DockerType'
  BY <1>2 DEF DockerInv, ExportType, DockerType
<1>6. NetworksRight' /\ SettledAgrees'
  BY <1>3, <1>4 DEF DockerInv, NetworksRight, SettledAgrees
<1> QED BY <1>2, <1>3, <1>5, <1>6 DEF DockerInv

\* A push under way belongs to start or push.
LEMMA PushCommand ==
    ASSUME CmdInv, NEW step \in {"push"} \cup Pushing, AtNode(step)
    PROVE  /\ cmd \in Loop /\ cmd # Idle /\ cmd.name \in {"start", "push"} /\ cmd.step = step
           /\ cmd.net \in Network /\ cmd.i \in 1 .. Len(cmd.nodes)
           /\ cmd.i + 1 \in 1 .. Len(cmd.nodes) + 1
           /\ cmd.i \in Nat /\ cmd.i + 1 \in Nat
           /\ Moniker \in Node /\ Moniker \in Name /\ Len(cmd.nodes) \in Nat
<1>1. /\ cmd \in Loop /\ cmd.net \in Network /\ cmd.i \in 1 .. Len(cmd.nodes)
      /\ cmd.i + 1 \in 1 .. Len(cmd.nodes) + 1 /\ cmd.i \in Nat /\ cmd.i + 1 \in Nat
      /\ Moniker \in Node /\ Moniker \in Name /\ Len(cmd.nodes) \in Nat
  BY MonikerFacts DEF CmdInv, Step, Pushing, Loop
<1>2. cmd # Idle /\ cmd.step = step
  BY DEF AtNode
<1>3. cmd.name \in {"start", "push"}
  BY <1>1, <1>2 DEF CmdInv, LoopRight, Steps, Loop, Pushing
<1> QED BY <1>1, <1>2, <1>3

\* A push goes on with its node.
LEMMA PushGoesOn ==
    ASSUME CmdInv, NEW step \in {"push"} \cup Pushing, AtNode(step), NEW next \in Pushing,
           Go(next, cmd.i), UNCHANGED <<dir, settled>>,
           \A m \in Network : Running(m) \subseteq Running(m)', PushRight'
    PROVE  CmdInv' /\ reported' = reported
<1>1. /\ cmd \in Loop /\ cmd # Idle /\ cmd.name \in {"start", "push"} /\ cmd.step = step
      /\ cmd.net \in Network /\ cmd.i \in 1 .. Len(cmd.nodes) /\ cmd.i \in Nat
  BY PushCommand
<1>2. /\ cmd' \in Loop /\ cmd' # Idle /\ reported' = reported
      /\ cmd'.name = cmd.name /\ cmd'.net = cmd.net /\ cmd'.missed = cmd.missed
      /\ cmd'.step = next /\ cmd'.i = cmd.i /\ cmd'.nodes = cmd.nodes
  BY <1>1, GoStep DEF Step
<1>3. LoopRight'
  BY <1>1, <1>2 DEF CmdInv, LoopRight, Steps, Pushing
<1>4. Passed' = Passed
  BY <1>2 DEF Passed
<1>5. RunsSoFar'
  <2>1. Running(cmd.net) \subseteq Running(cmd.net)'
    BY <1>1, <1>2
  <2> QED BY <1>1, <1>2, <1>4, <2>1 DEF CmdInv, RunsSoFar
<1> QED BY <1>1, <1>2, <1>3, <1>5 DEF CmdInv, CmdType, KeysSoFar, ExportsSoFar, StartRight,
        StopsSoFar, Pushing

\* A push passes its node: start goes on to the next one, push ends.
LEMMA PushedStep ==
    ASSUME CmdInv, NEW step \in {"push"} \cup Pushing, AtNode(step), NEW missed \in BOOLEAN,
           Pushed(missed), reported \in {"ok", "error"}, UNCHANGED <<dir, settled>>,
           \A m \in Network : Running(m) \subseteq Running(m)',
           NEW n, n = cmd.net, missed \/ Moniker \in Running(n)'
    PROVE  CmdInv' /\ reported' \in {"ok", "error"}
<1>1. /\ cmd \in Loop /\ cmd # Idle /\ cmd.name \in {"start", "push"} /\ cmd.step = step
      /\ n \in Network /\ cmd.i \in 1 .. Len(cmd.nodes) /\ cmd.i \in Nat
      /\ cmd.i + 1 \in 1 .. Len(cmd.nodes) + 1 /\ cmd.i + 1 \in Nat
  BY PushCommand
<1>2. CASE cmd.name = "push"
  BY <1>2, IdleRight DEF Pushed, End
<1>3. CASE cmd.name = "start"
  <2>1. /\ cmd' = [cmd EXCEPT !.step = "push", !.i = @ + 1, !.missed = @ \/ missed]
        /\ reported' = reported
    BY <1>3 DEF Pushed
  <2>2. /\ cmd' \in Loop /\ cmd' # Idle /\ cmd'.name = "start" /\ cmd'.net = n
        /\ cmd'.step = "push" /\ cmd'.i = cmd.i + 1 /\ cmd'.nodes = cmd.nodes
    BY <1>1, <1>3, <2>1 DEF Loop, Step, Idle
  <2>3. cmd'.missed \/ (~cmd.missed /\ ~missed)
    BY <1>1, <2>1 DEF Loop
  <2>4. Passed' \subseteq Passed \cup {Moniker}
    BY <1>1, <2>2, PassedNext
  <2>5. LoopRight'
    BY <1>1, <1>3, <2>2 DEF CmdInv, LoopRight, Steps
  <2>6. RunsSoFar'
    <3>1. ASSUME ~cmd'.missed, NEW u \in Passed' \ NonNode PROVE u \in Running(n)'
      <4>1. CASE u = Moniker
        BY <3>1, <4>1, <2>3
      <4>2. CASE u # Moniker
        <5>1. u \in Running(n)
          BY <3>1, <4>2, <2>3, <2>4, <1>1, <1>3 DEF CmdInv, RunsSoFar
        <5> QED BY <5>1, <1>1
      <4> QED BY <4>1, <4>2
    <3>2. Running(cmd.net)' = Running(n)'
      BY <2>2
    <3> QED BY <3>1, <3>2 DEF RunsSoFar
  <2> QED BY <2>1, <2>2, <2>5, <2>6 DEF CmdInv, CmdType, KeysSoFar, ExportsSoFar, StartRight,
          PushRight, StopsSoFar, Pushing
<1> QED BY <1>1, <1>2, <1>3

\* push checks the configuration, the network and the name, and goes on, passes
\* the node or ends.
LEMMA PushNodeStep ==
    ASSUME Inv, pushDockerNode
    PROVE  Inv'
<1> DEFINE n == cmd.net
           e == exported[n][Moniker]
<1>1. CmdInv /\ EndType /\ DirType /\ DockerInv
  BY DEF Inv
<1>2. AtNode("push") /\ UNCHANGED <<dir, exported, networks, containers, settled>>
  BY DEF pushDockerNode
<1>3. /\ cmd \in Loop /\ cmd # Idle /\ n \in Network /\ cmd.i \in 1 .. Len(cmd.nodes)
      /\ Moniker \in Node /\ cmd.i \in Nat /\ Len(cmd.nodes) \in Nat
  BY <1>1, <1>2, PushCommand
<1>4. DirType' /\ DockerInv'
  BY <1>1, <1>2, DirUnchanged, DockerUnchanged
<1>5. \A m : Running(m)' = Running(m)
  BY <1>2, RunningUnchanged
<1>6. ASSUME NEW fails \in BOOLEAN, Call(fails), End("error") PROVE Inv'
  BY <1>1, <1>2, <1>6, CallStep, EndsUnchanged
<1>7. ASSUME Call(TRUE), Pushed(TRUE) PROVE Inv'
  <2>1. CmdInv' /\ reported' \in {"ok", "error"}
    BY <1>1, <1>2, <1>5, <1>7, PushedStep DEF EndType
  <2>2. EndType'
    BY <1>1, <1>7, <2>1, CallStep DEF EndType
  <2> QED BY <1>4, <2>1, <2>2 DEF Inv
<1>8. ASSUME NEW fails \in BOOLEAN, Call(fails), e.ready, n \in networks, Go("container", cmd.i)
      PROVE  Inv'
  <2>2. cmd'.net = n /\ cmd'.i = cmd.i /\ cmd'.step = "container" /\ cmd'.nodes = cmd.nodes
    BY <1>3, <1>8, GoStep DEF Step, Pushing
  <2>4. PushRight'
    BY <1>2, <1>3, <1>8, <2>2 DEF PushRight, Moniker
  <2>5. CmdInv' /\ reported' = reported
    BY <1>1, <1>2, <1>5, <1>8, <2>4, PushGoesOn DEF Pushing
  <2>6. EndType'
    BY <1>1, <1>8, <2>5, CallStep DEF EndType
  <2> QED BY <1>4, <2>5, <2>6 DEF Inv
<1> HIDE DEF e
<1>9. CASE /\ Call(TRUE)
           /\ \/ End("error")
              \/ e.ready /\ Pushed(TRUE)
              \/ e.ready /\ n \in networks /\ Go("container", cmd.i)
  BY <1>6, <1>7, <1>8, <1>9
<1>10. CASE /\ Call(FALSE)
            /\ IF ~e.ready \/ n \notin networks \/ Moniker \in GetContainers
               THEN End("error") ELSE Go("container", cmd.i)
  BY <1>6, <1>8, <1>10
<1> QED BY <1>9, <1>10 DEF pushDockerNode, e

\* The last push of start ends it.
LEMMA PushesDoneStep ==
    ASSUME Inv, pushesDone
    PROVE  Inv'
BY EndsUnchanged DEF pushesDone, Inv, EndType

\* A push that could not make, fill, connect or run its container ends.
LEMMA PushFails ==
    ASSUME Inv, NEW fails \in BOOLEAN, Call(fails), End("error"),
           UNCHANGED <<dir, exported, networks, containers, settled>>
    PROVE  Inv'
<1>1. EndType
  BY DEF Inv
<1> QED BY <1>1, CallStep, EndsUnchanged

\* push changes its container, which does not run yet.
LEMMA PushContainer ==
    ASSUME Inv, NEW step \in Pushing, AtNode(step), NEW next \in Pushing, Go(next, cmd.i),
           NEW fails \in BOOLEAN, Call(fails), NEW x \in Container, x.status = "created",
           next \in {"connect", "run"} => x.files = exported[cmd.net][Moniker].files,
           next = "run" => x.net = cmd.net,
           cmd.step = "container" => Moniker \notin GetContainers,
           containers' = [containers EXCEPT ![Moniker] = x],
           UNCHANGED <<dir, exported, networks, settled>>
    PROVE  Inv'
<1> DEFINE n == cmd.net
           v == Moniker
<1>1. CmdInv /\ EndType /\ DirType /\ DockerInv
  BY DEF Inv
<1>2. /\ cmd \in Loop /\ cmd # Idle /\ n \in Network /\ v \in Name /\ cmd.step = step
      /\ cmd.i \in 1 .. Len(cmd.nodes) /\ cmd.i \in Nat /\ Len(cmd.nodes) \in Nat
  BY <1>1, PushCommand
<1>3. n \in networks /\ v \in Node
  BY <1>1, <1>2 DEF CmdInv, PushRight
<1>4. x # None
  BY NetworkAssumption
<1>5. /\ DockerInv' /\ containers'[v] = x
      /\ \A m \in Network : Running(m)' = Running(m) \ {v}
  <2> HIDE DEF v
  <2>1. x.status # "running"
    OBVIOUS
  <2> QED BY <1>1, <1>2, <2>1, ContainerStep DEF v
<1>6. \A m \in Network : v \notin Running(m)
  <2>1. v \notin GetContainers \/ containers[v].status = "created"
    BY <1>1, <1>2 DEF CmdInv, PushRight
  <2> QED BY <2>1 DEF Running
<1>7. \A m \in Network : Running(m) \subseteq Running(m)'
  BY <1>5, <1>6
<1>8. cmd'.net = n /\ cmd'.i = cmd.i /\ cmd'.step = next /\ cmd'.nodes = cmd.nodes
  BY <1>2, GoStep DEF Step
<1>9. Moniker' = v
  BY <1>8 DEF Moniker
<1>10. PushRight'
  BY <1>2, <1>3, <1>4, <1>5, <1>8, <1>9 DEF PushRight
<1>11. CmdInv' /\ reported' = reported
  BY <1>1, <1>7, <1>10, PushGoesOn
<1>12. EndType'
  BY <1>1, <1>11, CallStep DEF EndType
<1>13. DirType'
  BY <1>1, DirUnchanged
<1> QED BY <1>5, <1>11, <1>12, <1>13 DEF Inv

\* push makes its container.
LEMMA CreateStep ==
    ASSUME Inv, CreateContainerFromImage
    PROVE  Inv'
<1>1. AtNode("container") /\ UNCHANGED <<dir, exported, networks, settled>>
  BY DEF CreateContainerFromImage
<1>2. PICK fails \in BOOLEAN :
         /\ Call(fails)
         /\ IF fails \/ Moniker \in GetContainers THEN End("error") /\ UNCHANGED containers
            ELSE /\ Go("copy", cmd.i)
                 /\ containers' = [containers EXCEPT ![Moniker] =
                                     [status |-> "created", files |-> NoFiles, net |-> None]]
  BY DEF CreateContainerFromImage
<1>3. CASE End("error") /\ UNCHANGED containers
  BY <1>1, <1>2, <1>3, PushFails
<1>4. CASE /\ Moniker \notin GetContainers /\ Go("copy", cmd.i)
           /\ containers' = [containers EXCEPT ![Moniker] =
                               [status |-> "created", files |-> NoFiles, net |-> None]]
  <2> DEFINE x == [status |-> "created", files |-> NoFiles, net |-> None]
  <2>1. x \in Container /\ x.status = "created"
    BY DEF Container, NodeFiles, NoFiles, Chain
  <2> HIDE DEF x
  <2> QED BY <1>1, <1>2, <1>4, <2>1, PushContainer DEF Pushing, x
<1> QED BY <1>2, <1>3, <1>4

\* The container of a push is there, not running, from its creation on.
LEMMA PushedContainer ==
    ASSUME Inv, NEW step \in Pushing \ {"container"}, AtNode(step)
    PROVE  /\ containers[Moniker] \in Container /\ containers[Moniker].status = "created"
           /\ cmd.net \in Network /\ Moniker \in Node /\ Moniker \in Name
           /\ cmd.net \in networks
           /\ exported[cmd.net][Moniker] \in Export
           /\ step \in {"connect", "run"} =>
                 containers[Moniker].files = exported[cmd.net][Moniker].files
           /\ step = "run" => containers[Moniker].net = cmd.net
<1>1. CmdInv /\ DockerInv
  BY DEF Inv
<1>2. /\ cmd.net \in Network /\ Moniker \in Node /\ Moniker \in Name
      /\ cmd # Idle /\ cmd.step = step
  BY <1>1, PushCommand
<1>3. containers[Moniker] \in {None} \cup Container /\ exported[cmd.net][Moniker] \in Export
  BY <1>1, <1>2 DEF DockerInv, DockerType, ExportType
<1> QED BY <1>1, <1>2, <1>3 DEF CmdInv, PushRight

\* push fills its container with the exported configuration.
LEMMA CopyStep ==
    ASSUME Inv, CopyToContainer
    PROVE  Inv'
<1> DEFINE c == exported[cmd.net][Moniker].files
           x == [containers[Moniker] EXCEPT !.files = c]
<1>1. AtNode("copy") /\ UNCHANGED <<dir, exported, networks, settled>>
  BY DEF CopyToContainer
<1>2. PICK fails \in BOOLEAN :
         /\ Call(fails)
         /\ IF fails THEN End("error") /\ UNCHANGED containers
            ELSE Go("connect", cmd.i) /\ containers' = [containers EXCEPT ![Moniker].files = c]
  BY DEF CopyToContainer, newTarArchiveFromPath
<1>3. containers[Moniker] \in Container /\ containers[Moniker].status = "created" /\ c \in NodeFiles
  BY <1>1, PushedContainer DEF Pushing, Export
<1>4. CASE End("error") /\ UNCHANGED containers
  BY <1>1, <1>2, <1>4, PushFails
<1>5. CASE Go("connect", cmd.i) /\ containers' = [containers EXCEPT ![Moniker].files = c]
  <2>1. x \in Container /\ x.status = "created" /\ x.files = c
    BY <1>3 DEF Container
  <2>2. containers' = [containers EXCEPT ![Moniker] = x]
    BY <1>5
  <2> HIDE DEF x
  <2> QED BY <1>1, <1>2, <1>5, <2>1, <2>2, PushContainer DEF Pushing, AtNode
<1> QED BY <1>2, <1>4, <1>5

\* push connects its container to the network.
LEMMA ConnectStep ==
    ASSUME Inv, ConnectContainerToNetwork
    PROVE  Inv'
<1> DEFINE x == [containers[Moniker] EXCEPT !.net = cmd.net]
<1>1. AtNode("connect") /\ UNCHANGED <<dir, exported, networks, settled>>
  BY DEF ConnectContainerToNetwork
<1>2. PICK fails \in BOOLEAN :
         /\ Call(fails)
         /\ IF fails THEN End("error") /\ UNCHANGED containers
            ELSE Go("run", cmd.i) /\ containers' = [containers EXCEPT ![Moniker].net = cmd.net]
  BY DEF ConnectContainerToNetwork
<1>3. /\ containers[Moniker] \in Container /\ containers[Moniker].status = "created"
      /\ cmd.net \in Network /\ containers[Moniker].files = exported[cmd.net][Moniker].files
  BY <1>1, PushedContainer DEF Pushing
<1>4. CASE End("error") /\ UNCHANGED containers
  BY <1>1, <1>2, <1>4, PushFails
<1>5. CASE Go("run", cmd.i) /\ containers' = [containers EXCEPT ![Moniker].net = cmd.net]
  <2>1. /\ x \in Container /\ x.status = "created" /\ x.net = cmd.net
        /\ x.files = exported[cmd.net][Moniker].files
    BY <1>3 DEF Container
  <2>2. containers' = [containers EXCEPT ![Moniker] = x]
    BY <1>5
  <2> HIDE DEF x
  <2> QED BY <1>1, <1>2, <1>5, <2>1, <2>2, PushContainer DEF Pushing, AtNode
<1> QED BY <1>2, <1>4, <1>5

\* push runs its container: one more node of the network runs, from the files
\* its configuration has.
LEMMA RunStep ==
    ASSUME DockerInv, NEW n \in networks, NEW v \in Name,
           containers[v] \in Container, containers[v].status = "created", containers[v].net = n,
           containers[v].files = exported[n][v].files,
           containers' = [containers EXCEPT ![v].status = "running"],
           UNCHANGED <<exported, networks, settled>>
    PROVE  /\ DockerInv' /\ v \in Running(n)'
           /\ \A m \in Network : Running(m) \subseteq Running(m)'
<1> DEFINE x == [containers[v] EXCEPT !.status = "running"]
<1>1. /\ x \in Container /\ x # None /\ x.status = "running" /\ x.net = n
      /\ x.files = exported[n][v].files
  BY NetworkAssumption DEF Container
<1>2. containers' = [containers EXCEPT ![v] = x]
  OBVIOUS
<1> HIDE DEF x
<1>3. containers \in [Name -> {None} \cup Container] /\ n \in Network
  BY DEF DockerInv, DockerType
<1>4. /\ containers' \in [Name -> {None} \cup Container] /\ containers'[v] = x
      /\ \A u \in Name \ {v} : containers'[u] = containers[u]
  BY <1>1, <1>2, <1>3
<1>5. /\ v \in Running(n)'
      /\ \A m \in Network \ {n} : v \notin Running(m)' /\ v \notin Running(m)
  BY <1>1, <1>3, <1>4 DEF Running, GetContainers
<1>6. v \notin Running(n)
  BY DEF Running
<1>7. ASSUME NEW m \in Network, NEW u \in Name \ {v}
      PROVE  u \in Running(m)' <=> u \in Running(m)
  BY <1>4 DEF Running, GetContainers
<1>8. ASSUME NEW m \in Network
      PROVE  Running(m) \subseteq Name /\ Running(m)' \subseteq Name
  BY DEF Running, GetContainers
<1>9. \A m \in Network : Running(m)' = IF m = n THEN Running(m) \cup {v} ELSE Running(m)
  <2>1. Running(n)' = Running(n) \cup {v}
    BY <1>3, <1>5, <1>7, <1>8
  <2>2. ASSUME NEW m \in Network, m # n PROVE Running(m)' = Running(m)
    <3>1. \A u : u \in Running(m)' <=> u \in Running(m)
      BY <2>2, <1>5, <1>7, <1>8
    <3> QED BY <3>1
  <2> QED BY <2>1, <2>2
<1>10. ExportType' /\ DockerType'
  BY <1>4 DEF DockerInv, ExportType, DockerType
<1>11. NetworksRight'
  BY <1>9 DEF DockerInv, NetworksRight
<1>12. SettledAgrees'
  <2>1. ASSUME NEW m \in Network, NEW w \in settled[m], w \in Running(m)'
        PROVE  containers'[w].files = exported[m][w].files
    <3>1. CASE w = v
      BY <2>1, <3>1, <1>1, <1>4, <1>5
    <3>2. CASE w # v
      <4>1. w \in Running(m) /\ w \in Name
        BY <2>1, <3>2, <1>8, <1>9
      <4> QED BY <2>1, <3>2, <4>1, <1>4 DEF DockerInv, SettledAgrees
    <3> QED BY <3>1, <3>2
  <2> QED BY <2>1 DEF DockerInv, SettledAgrees
<1> QED BY <1>5, <1>9, <1>10, <1>11, <1>12 DEF DockerInv

\* The last step of a push.
LEMMA StartContainerStep ==
    ASSUME Inv, StartContainer
    PROVE  Inv'
<1>0. PICK n : n = cmd.net
  OBVIOUS
<1>1. /\ AtNode("run") /\ UNCHANGED <<dir, exported, networks, settled>>
      /\ CmdInv /\ EndType /\ DirType /\ DockerInv
  BY DEF StartContainer, Inv
<1>2. PICK fails \in BOOLEAN :
         /\ Call(fails)
         /\ IF fails THEN End("error") /\ UNCHANGED containers
            ELSE Pushed(FALSE) /\ containers' = [containers EXCEPT ![Moniker].status = "running"]
  BY DEF StartContainer
<1>3. CASE End("error") /\ UNCHANGED containers
  BY <1>1, <1>2, <1>3, PushFails
<1>4. CASE Pushed(FALSE) /\ containers' = [containers EXCEPT ![Moniker].status = "running"]
  <2> DEFINE v == Moniker
  <2>1. /\ containers[v] \in Container /\ containers[v].status = "created"
        /\ v \in Name /\ n \in networks
        /\ containers[v].net = n /\ containers[v].files = exported[n][v].files
    BY <1>0, <1>1, PushedContainer DEF Pushing
  <2>2. /\ DockerInv' /\ v \in Running(n)'
        /\ \A m \in Network : Running(m) \subseteq Running(m)'
    <3> HIDE DEF v
    <3> QED BY <1>1, <1>4, <2>1, RunStep DEF v
  <2>3. CmdInv' /\ reported' \in {"ok", "error"}
    BY <1>0, <1>1, <1>4, <2>2, PushedStep DEF EndType, Pushing
  <2>4. EndType'
    BY <1>1, <1>2, <2>3, CallStep DEF EndType
  <2>5. DirType'
    BY <1>1, DirUnchanged
  <2> QED BY <2>2, <2>3, <2>4, <2>5 DEF Inv
<1> QED BY <1>2, <1>3, <1>4

-----------------------------------------------------------------------------
(* stop.                                                                   *)

\* A stop under way.
LEMMA StopCommand ==
    ASSUME CmdInv, cmd # Idle, cmd.step = "stop"
    PROVE  cmd \in Stop /\ cmd.net \in Network /\ cmd.name = "stop"
<1>1. cmd \notin Loop
  BY DEF Loop, Step, Pushing
<1> QED BY <1>1 DEF CmdInv, CmdType, Stop

\* stop is under no obligation but that of its list.
LEMMA StopRight ==
    ASSUME cmd' \in Stop, StopsSoFar'
    PROVE  CmdInv'
<1>1. cmd'.name = "stop" /\ cmd'.step = "stop"
  BY DEF Stop
<1> QED BY <1>1 DEF CmdInv, CmdType, LoopRight, KeysSoFar, ExportsSoFar, StartRight, PushRight,
        RunsSoFar, Pushing

\* stop begins with the list of the containers.
LEMMA StopNetworkStep ==
    ASSUME Inv, NEW n \in Network, NEW remove \in BOOLEAN, StopNetwork(n, remove)
    PROVE  Inv'
<1>1. UNCHANGED <<dir, exported, networks, containers, reported, settled, faults>>
  BY DEF StopNetwork
<1>2. cmd' = [name |-> "stop", net |-> n, step |-> "stop", flag |-> remove, todo |-> GetContainers]
  BY DEF StopNetwork
<1>3. GetContainers \in SUBSET Name
  BY DEF GetContainers
<1>4. cmd' \in Stop /\ cmd'.todo = GetContainers
  BY <1>2, <1>3 DEF Stop
<1>5. GetContainers' = GetContainers
  BY <1>1, RunningUnchanged
<1>6. CmdInv'
  BY <1>4, <1>5, StopRight DEF StopsSoFar
<1>7. DirType' /\ DockerInv' /\ EndType'
  BY <1>1, DirUnchanged, DockerUnchanged DEF Inv, EndType
<1> QED BY <1>6, <1>7 DEF Inv

\* A stopped container does not run.
LEMMA StoppedFacts ==
    ASSUME DockerInv, NEW v \in GetContainers, NEW remove \in BOOLEAN
    PROVE  /\ v \in Name /\ Stopped(v, remove) \in {None} \cup Container
           /\ Stopped(v, remove) # None => Stopped(v, remove).status # "running"
           /\ remove => Stopped(v, remove) = None
<1>1. v \in Name /\ containers[v] \in Container
  BY DEF GetContainers, DockerInv, DockerType
<1>2. CASE remove
  BY <1>1, <1>2 DEF Stopped
<1>3. CASE ~remove
  <2> DEFINE x == [containers[v] EXCEPT !.status = IF @ = "running" THEN "stopped" ELSE @]
  <2>1. x \in Container /\ x.status # "running"
    BY <1>1 DEF Container
  <2>2. Stopped(v, remove) = x
    BY <1>3 DEF Stopped
  <2> QED BY <1>1, <1>3, <2>1, <2>2
<1> QED BY <1>2, <1>3

\* A container is stopped or not, and the command ends.
LEMMA StopEnds ==
    ASSUME Inv, NEW fails \in BOOLEAN, Call(fails), NEW result \in {"ok", "error"}, End(result),
           NEW v \in GetContainers, NEW remove \in BOOLEAN,
           containers' \in {containers, [containers EXCEPT ![v] = Stopped(v, remove)]},
           UNCHANGED <<dir, exported, networks, settled>>
    PROVE  Inv'
<1>1. DockerInv /\ DirType /\ EndType
  BY DEF Inv
<1>2. CASE containers' = containers
  BY <1>1, <1>2, CallStep, EndsUnchanged
<1>3. CASE containers' = [containers EXCEPT ![v] = Stopped(v, remove)]
  <2>1. DockerInv'
    BY <1>1, <1>3, StoppedFacts, ContainerStep
  <2>2. DirType'
    BY <1>1, DirUnchanged
  <2>3. EndType' /\ cmd' = Idle
    BY <1>1, CallStep DEF EndType, End
  <2> QED BY <2>1, <2>2, <2>3, IdleRight DEF Inv
<1> QED BY <1>2, <1>3

\* stop and remove of one node.
LEMMA StopNodeStep ==
    ASSUME Inv, NEW v \in Name, NEW remove \in BOOLEAN, StopNode(v, remove)
    PROVE  Inv'
<1>1. PICK fails \in BOOLEAN :
         /\ Call(fails) /\ End(IF fails THEN "error" ELSE "ok")
         /\ containers' \in IF fails THEN {containers, [containers EXCEPT ![v] = Stopped(v, FALSE)]}
                            ELSE {[containers EXCEPT ![v] = Stopped(v, remove)]}
  BY DEF StopNode
<1>2. v \in GetContainers /\ UNCHANGED <<dir, exported, networks, settled>>
  BY DEF StopNode
<1>3. CASE fails
  BY <1>1, <1>2, <1>3, StopEnds
<1>4. CASE ~fails
  BY <1>1, <1>2, <1>4, StopEnds
<1> QED BY <1>3, <1>4

\* stop takes one container from its list.
LEMMA StopContainerStep ==
    ASSUME Inv, NEW v \in Name, StopContainer(v)
    PROVE  Inv'
<1>1. /\ cmd # Idle /\ cmd.step = "stop" /\ v \in cmd.todo
      /\ UNCHANGED <<dir, exported, networks, settled>>
      /\ DockerInv /\ DirType /\ EndType /\ CmdInv
  BY DEF StopContainer, Inv
<1>2. cmd \in Stop /\ cmd.name = "stop"
  BY <1>1, StopCommand
<1>3. PICK fails \in BOOLEAN :
         /\ Call(fails)
         /\ IF fails
            THEN /\ End("error")
                 /\ containers' \in {containers, [containers EXCEPT ![v] = Stopped(v, FALSE)]}
            ELSE /\ cmd' = [cmd EXCEPT !.todo = @ \ {v}] /\ UNCHANGED reported
                 /\ containers' = [containers EXCEPT ![v] = Stopped(v, cmd.flag)]
  BY DEF StopContainer
<1>4. v \in GetContainers /\ cmd.flag \in BOOLEAN
  BY <1>1, <1>2 DEF CmdInv, StopsSoFar, Stop
<1>5. CASE fails
  BY <1>1, <1>3, <1>4, <1>5, StopEnds
<1>6. CASE ~fails
  <2> DEFINE x == Stopped(v, cmd.flag)
  <2>1. /\ cmd' = [cmd EXCEPT !.todo = @ \ {v}] /\ UNCHANGED reported
        /\ containers' = [containers EXCEPT ![v] = x]
    BY <1>3, <1>6
  <2>2. /\ x \in {None} \cup Container /\ (cmd.flag => x = None)
        /\ x # None => x.status # "running"
    BY <1>1, <1>4, StoppedFacts
  <2> HIDE DEF x
  <2>3. /\ DockerInv' /\ containers'[v] = x
        /\ \A u \in Name \ {v} : containers'[u] = containers[u]
    BY <1>1, <2>1, <2>2, ContainerStep
  <2>4. cmd' \in Stop /\ cmd'.flag = cmd.flag /\ cmd'.todo = cmd.todo \ {v}
    BY <1>2, <2>1 DEF Stop
  <2>5. cmd'.todo \subseteq GetContainers' /\ (cmd.flag => GetContainers' \subseteq cmd'.todo)
    BY <1>1, <1>2, <2>2, <2>3, <2>4 DEF CmdInv, StopsSoFar, GetContainers
  <2>6. CmdInv'
    BY <2>4, <2>5, StopRight DEF StopsSoFar
  <2>7. DirType'
    BY <1>1, DirUnchanged
  <2>8. EndType'
    BY <1>1, <1>3, <2>1, CallStep DEF EndType
  <2> QED BY <2>3, <2>6, <2>7, <2>8 DEF Inv
<1> QED BY <1>5, <1>6

\* stop ends with the removal of the network.
LEMMA RemoveNetworkStep ==
    ASSUME Inv, RemoveNetwork
    PROVE  Inv'
<1>1. /\ cmd # Idle /\ cmd.step = "stop" /\ UNCHANGED <<dir, exported, settled>>
      /\ DockerInv /\ DirType /\ EndType /\ CmdInv
  BY DEF RemoveNetwork, Inv
<1>2. cmd.net \in Network
  BY <1>1, StopCommand
<1>3. PICK fails \in BOOLEAN :
         /\ Call(fails)
         /\ \/ End("error") /\ UNCHANGED <<networks, containers>>
            \/ /\ Running(cmd.net) = {} /\ \E result \in {"ok", "error"} : End(result)
               /\ networks' = networks \ {cmd.net} /\ containers' = Disconnected(cmd.net)
  BY DEF RemoveNetwork
<1>4. CASE End("error") /\ UNCHANGED <<networks, containers>>
  BY <1>1, <1>3, <1>4, CallStep, EndsUnchanged
<1>5. CASE /\ Running(cmd.net) = {} /\ \E result \in {"ok", "error"} : End(result)
           /\ networks' = networks \ {cmd.net} /\ containers' = Disconnected(cmd.net)
  <2>1. DockerInv'
    BY <1>1, <1>2, <1>5, DisconnectedStep
  <2>2. DirType'
    BY <1>1, DirUnchanged
  <2>3. EndType' /\ cmd' = Idle
    BY <1>1, <1>3, <1>5, CallStep DEF EndType, End
  <2> QED BY <2>1, <2>2, <2>3, IdleRight DEF Inv
<1> QED BY <1>3, <1>4, <1>5

\* Somebody else runs a container.
LEMMA RunForeignStep ==
    ASSUME Inv, NEW v \in Foreign, runForeign(v)
    PROVE  Inv'
<1> DEFINE x == [status |-> "running", files |-> NoFiles, net |-> None]
<1>1. /\ cmd' = Idle /\ containers' = [containers EXCEPT ![v] = x]
      /\ UNCHANGED <<dir, exported, networks, reported, settled, faults>>
      /\ DockerInv /\ DirType /\ EndType
  BY DEF runForeign, Inv
<1>2. x \in {None} \cup Container /\ x.net = None /\ v \in Name
  BY DEF Container, NodeFiles, NoFiles, Chain, Name
<1> HIDE DEF x
<1>3. DockerInv'
  BY <1>1, <1>2, ContainerStep
<1>4. DirType' /\ EndType'
  BY <1>1, DirUnchanged DEF EndType
<1> QED BY <1>1, <1>3, <1>4, IdleRight DEF Inv

-----------------------------------------------------------------------------
(* The theorems.                                                           *)

\* Nothing is there in the beginning.
LEMMA InitStep ==
    ASSUME Init
    PROVE  Inv
<1>1. cmd = Idle /\ EndType
  BY NetworkAssumption DEF Init, EndType
<1>2. CmdInv
  BY <1>1 DEF CmdInv, CmdType, LoopRight, KeysSoFar, ExportsSoFar, StartRight, PushRight,
     RunsSoFar, StopsSoFar
<1>3. DirType
  BY DEF Init, DirType
<1>4. ExportType
  <2> DEFINE x == [files |-> NoFiles, ready |-> FALSE]
  <2>1. exported = [n \in Network |-> [v \in Node |-> x]]
    BY DEF Init
  <2>2. x \in Export
    BY DEF Export, NodeFiles, NoFiles, Chain
  <2> HIDE DEF x
  <2>3. \A n \in Network : exported[n] = [v \in Node |-> x]
    BY <2>1
  <2>4. exported = [n \in Network |-> exported[n]]
    BY <2>1, <2>3
  <2> QED BY <2>2, <2>3, <2>4 DEF ExportType
<1>5. DockerType /\ \A n : Running(n) = {}
  BY DEF Init, DockerType, GetContainers, Running
<1>6. NetworksRight /\ SettledAgrees
  BY <1>5 DEF Init, NetworksRight, SettledAgrees
<1> QED BY <1>1, <1>2, <1>3, <1>4, <1>5, <1>6 DEF Inv, DockerInv

\* Every step keeps the invariant.
LEMMA NextStep ==
    ASSUME Inv, [Next]_nvars
    PROVE  Inv'
<1>1. CASE UNCHANGED nvars
  <2>1. \A n : Running(n)' = Running(n)
    BY <1>1, RunningUnchanged DEF nvars
  <2>2. CmdInv'
    <3>1. GetContainers' = GetContainers /\ Passed' = Passed
      BY <1>1 DEF nvars, GetContainers, Passed
    <3>2. Running(cmd.net)' = Running(cmd.net) /\ Moniker' = Moniker
      BY <1>1, <2>1 DEF nvars, Moniker
    <3> QED BY <1>1, <3>1, <3>2 DEF Inv, nvars, CmdInv, CmdType, LoopRight, KeysSoFar, ExportsSoFar,
            StartRight, PushRight, RunsSoFar, StopsSoFar
  <2>3. DirType' /\ DockerInv' /\ EndType'
    BY <1>1, DirUnchanged, DockerUnchanged DEF Inv, nvars, EndType
  <2> QED BY <2>2, <2>3 DEF Inv
<1>2. ASSUME NEW n \in Network, \E t \in Version, build \in BOOLEAN : networkNew(n, t, build)
      PROVE  Inv'
  BY <1>2, NewStep
<1>3. ASSUME NEW n \in Network, \E t \in Version : editNetwork(n, t) PROVE Inv'
  BY <1>3, EditStep
<1>4. ASSUME NEW n \in Network, BeginBuild(n) \/ ParseFails(n) \/ networkAWS(n) PROVE Inv'
  BY <1>4, BeginBuildStep, ParseFailsStep, AWSStep
<1>5. ASSUME NEW n \in Network, \E force, useExisting, startNodes \in BOOLEAN :
                startDockerNetwork(n, force, useExisting, startNodes)
      PROVE  Inv'
  BY <1>5, StartStep
<1>6. ASSUME NEW n \in Network, \E v \in Node : networkPush(n, v) PROVE Inv'
  BY <1>6, PushBeginStep
<1>7. ASSUME NEW n \in Network, \E remove \in BOOLEAN : StopNetwork(n, remove) PROVE Inv'
  BY <1>7, StopNetworkStep
<1>8. CASE generateKeys \/ generateGivernyConfig \/ buildNetwork
  BY <1>8, GenerateKeysStep, GenerateConfigStep, BuildStep
<1>9. CASE \/ skipNonNode \/ SafeCreateNetwork \/ exportDockerNodeConfig
           \/ exportAWSNodeConfig \/ exportConfigs
  BY <1>9, SkipStep, SafeCreateStep, ExportDockerStep, ExportAWSStep, ExportConfigsStep
<1>10. CASE pushDockerNode \/ CreateContainerFromImage \/ CopyToContainer
  BY <1>10, PushNodeStep, CreateStep, CopyStep
<1>11. CASE ConnectContainerToNetwork \/ StartContainer \/ pushesDone
  BY <1>11, ConnectStep, StartContainerStep, PushesDoneStep
<1>12. ASSUME NEW v \in Name, StopContainer(v) \/ \E remove \in BOOLEAN : StopNode(v, remove)
       PROVE  Inv'
  BY <1>12, StopContainerStep, StopNodeStep
<1>13. CASE RemoveNetwork
  BY <1>13, RemoveNetworkStep
<1>14. ASSUME NEW v \in Foreign, runForeign(v) PROVE Inv'
  BY <1>14, RunForeignStep
<1> QED BY <1>1, <1>2, <1>3, <1>4, <1>5, <1>6, <1>7, <1>8, <1>9, <1>10, <1>11, <1>12, <1>13, <1>14
        DEF Next

\* The invariant holds in every reachable state.
THEOREM Invariance == Spec => []Inv
<1>1. Init => Inv
  BY InitStep
<1>2. Inv /\ [Next]_nvars => Inv'
  BY NextStep
<1> QED BY <1>1, <1>2, PTL DEF Spec

\* Type correctness, the loop of a command ends behind the last node.
THEOREM TypeCorrect == Spec => []TypeOK
<1>1. Inv => TypeOK
  <2> SUFFICES ASSUME Inv PROVE TypeOK
    OBVIOUS
  <2>1. cmd # Idle /\ cmd.name # "stop" => cmd.i \in 1 .. Len(cmd.nodes) + 1
    BY DEF Inv, CmdInv, LoopRight
  <2>2. \A n \in Network : exported[n] \in [Node -> [files : NodeFiles, ready : BOOLEAN]]
    BY DEF Inv, DockerInv, ExportType, Export
  <2> QED BY <2>1, <2>2 DEF TypeOK, Inv, DirType, DockerInv, DockerType, EndType
<1> QED BY <1>1, Invariance, PTL

\* A node that a start settled never runs without its private key, whatever
\* nodes the operator adds to network.toml and however the exports fail.
THEOREM NodesAlwaysHaveKeys == Spec => []NodesHaveKeys
<1>1. Inv => NodesHaveKeys
  <2> SUFFICES ASSUME Inv, NEW n \in Network, NEW v \in Running(n) \cap settled[n]
               PROVE  containers[v].files.key
    BY DEF NodesHaveKeys
  <2> QED BY DEF Inv, DockerInv, SettledAgrees
<1> QED BY <1>1, Invariance, PTL

\* An export that missed no copy has given every node the chain files of the
\* network.
THEOREM ExportsAlwaysAgree == Spec => []ExportsAgree
<1>1. Inv => ExportsAgree
  <2> SUFFICES ASSUME Inv, PastNodes("export"), ~cmd.missed, NEW v \in Runnable(cmd.nodes)
               PROVE  dir[cmd.net].chain = IF cmd.name = "aws" THEN cmd.out[v]
                                           ELSE exported[cmd.net][v].files.chain
    BY DEF ExportsAgree
  <2>1. cmd # Idle /\ cmd.step = "export" /\ v \in Passed \ NonNode
    BY PastAll DEF Inv, CmdInv, Step
  <2> QED BY <2>1 DEF Inv, CmdInv, ExportsSoFar
<1> QED BY <1>1, Invariance, PTL

\* The nodes that a start has settled, and that run on its network, start from
\* the same chain files, however often the network is edited, built and exported.
THEOREM NodesAlwaysAgree == Spec => []NodesAgree
<1>1. Inv => NodesAgree
  <2> SUFFICES ASSUME Inv, NEW n \in Network, NEW u \in Running(n) \cap settled[n],
                      NEW v \in Running(n) \cap settled[n]
               PROVE  containers[u].files.chain = containers[v].files.chain
    BY DEF NodesAgree
  <2> QED BY DEF Inv, DockerInv, SettledAgrees
<1> QED BY <1>1, Invariance, PTL

\* A command begins only when none is under way, and only then is network.toml
\* edited.
LEMMA IdleBegins ==
    ASSUME cmd # Idle, NEW n \in Network
    PROVE  /\ \A t \in Version, build \in BOOLEAN : ~networkNew(n, t, build)
           /\ \A t \in Version : ~editNetwork(n, t)
           /\ ~BeginBuild(n) /\ ~ParseFails(n) /\ ~networkAWS(n)
           /\ \A force, useExisting, startNodes \in BOOLEAN :
                 ~startDockerNetwork(n, force, useExisting, startNodes)
           /\ \A v \in Node : ~networkPush(n, v)
           /\ \A remove \in BOOLEAN : ~StopNetwork(n, remove)
BY DEF networkNew, editNetwork, BeginBuild, ParseFails, networkAWS, startDockerNetwork,
   networkPush, StopNetwork, Begin

\* The command that ends without an error is at its last step: only pushesDone
\* ends a start --start-nodes that way.
LEMMA StartEnds ==
    ASSUME Inv, Next, cmd # Idle, cmd' = Idle, reported' = "ok", cmd.name = "start", cmd.flag
    PROVE  pushesDone
<1>1. CmdInv /\ cmd \in Loop /\ cmd.step \in Steps("start")
  BY DEF Inv, CmdInv, CmdType, LoopRight, Stop
<1>2. Idle.name = "idle" /\ ~End("error")
  BY DEF Idle, End
<1>3. \A step, i : ~Go(step, i)
  <2> SUFFICES ASSUME NEW step, NEW i, Go(step, i) PROVE FALSE
    OBVIOUS
  <2>1. cmd'.name = "start"
    BY <1>1 DEF Go, Loop
  <2> QED BY <1>2, <2>1
<1>4. \A missed \in BOOLEAN : ~Pushed(missed)
  <2> SUFFICES ASSUME NEW missed \in BOOLEAN, Pushed(missed) PROVE FALSE
    OBVIOUS
  <2>1. cmd'.name = "start"
    BY <1>1 DEF Pushed, Loop
  <2> QED BY <1>2, <2>1
<1>5. ~generateKeys /\ ~generateGivernyConfig /\ ~buildNetwork
  BY <1>1 DEF generateKeys, generateGivernyConfig, buildNetwork, AtNode, PastNodes, Steps, Pushing
<1>6. ~skipNonNode /\ ~exportConfigs
  BY <1>3 DEF skipNonNode, exportConfigs
<1>7. ~SafeCreateNetwork
  <2>1. ASSUME cmd' = [cmd EXCEPT !.step = "export", !.missed = Running(cmd.net) # {}] PROVE FALSE
    <3>1. cmd'.name = "start"
      BY <1>1, <2>1 DEF Loop
    <3> QED BY <1>2, <3>1
  <2> QED BY <1>2, <1>3, <2>1 DEF SafeCreateNetwork
<1>8. ~exportDockerNodeConfig /\ ~exportAWSNodeConfig
  <2>1. ASSUME NEW old, NEW w, NEW out, NEW fails \in BOOLEAN, ExportNode(old, w, fails, out)
        PROVE  FALSE
    <3>1. \/ End("error")
          \/ cmd' = [cmd EXCEPT !.i = @ + 1, !.missed = @ \/ w.err, !.out = out]
      BY <2>1 DEF ExportNode
    <3>2. CASE cmd' = [cmd EXCEPT !.i = @ + 1, !.missed = @ \/ w.err, !.out = out]
      <4>1. cmd'.name = "start"
        BY <1>1, <3>2 DEF Loop
      <4> QED BY <1>2, <4>1
    <3> QED BY <1>2, <3>1, <3>2
  <2>2. ASSUME exportDockerNodeConfig PROVE FALSE
    <3>1. \E old, w, out : \E fails \in BOOLEAN : ExportNode(old, w, fails, out)
      BY <2>2 DEF exportDockerNodeConfig
    <3> QED BY <3>1, <2>1
  <2>3. ~exportAWSNodeConfig
    BY <1>1 DEF exportAWSNodeConfig
  <2> QED BY <2>2, <2>3
<1>9. ~pushDockerNode /\ ~StartContainer
  BY <1>2, <1>3, <1>4 DEF pushDockerNode, StartContainer
<1>10. ~CreateContainerFromImage /\ ~CopyToContainer /\ ~ConnectContainerToNetwork
  BY <1>2, <1>3 DEF CreateContainerFromImage, CopyToContainer, ConnectContainerToNetwork
<1>11. \A v \in Name : ~StopContainer(v) /\ \A remove \in BOOLEAN : ~StopNode(v, remove)
  BY <1>1 DEF StopContainer, StopNode, Steps, Pushing
<1>12. ~RemoveNetwork /\ \A v \in Foreign : ~runForeign(v)
  BY <1>1 DEF RemoveNetwork, runForeign, Steps, Pushing
<1> QED BY <1>5, <1>6, <1>7, <1>8, <1>9, <1>10, <1>11, <1>12, IdleBegins DEF Next

\* start --start-nodes that ends without an error has every node run.
THEOREM StartedNodesAlwaysRun == Spec => StartedNodesRun
<1>1. ASSUME Inv, [Next]_nvars
      PROVE  [cmd # Idle /\ cmd' = Idle /\ reported' = "ok" /\ cmd.name = "start" /\ cmd.flag
                /\ ~cmd.missed => Runnable(cmd.nodes) \subseteq Running(cmd.net)]_nvars
  <2> SUFFICES ASSUME Next, cmd # Idle, cmd' = Idle, reported' = "ok", cmd.name = "start",
                      cmd.flag, ~cmd.missed
               PROVE  Runnable(cmd.nodes) \subseteq Running(cmd.net)
    BY <1>1
  <2>1. PastNodes("push") /\ CmdInv
    BY <1>1, StartEnds DEF pushesDone, Inv
  <2>2. cmd.step = "push" /\ Runnable(cmd.nodes) \subseteq Passed \ NonNode
    BY <2>1, PastAll DEF CmdInv, Step
  <2> QED BY <2>1, <2>2 DEF CmdInv, RunsSoFar
<1> QED BY <1>1, Invariance, PTL DEF Spec, StartedNodesRun

\* stop --remove that ends without an error leaves no container on its network.
THEOREM StopAlwaysClears == Spec => StopClears
<1>1. ASSUME Inv, [Next]_nvars
      PROVE  [cmd # Idle /\ cmd' = Idle /\ reported' = "ok" /\ cmd.name = "stop" /\ cmd.flag
                => \A v \in GetContainers : containers[v].net # cmd.net]_nvars
  <2> SUFFICES ASSUME Next, cmd # Idle, cmd' = Idle, reported' = "ok", cmd.name = "stop", cmd.flag
               PROVE  \A v \in GetContainers : containers[v].net # cmd.net
    BY <1>1
  <2>1. CmdInv /\ DockerInv /\ cmd \in Stop /\ cmd.step = "stop" /\ cmd.net \in Network
    BY <1>1 DEF Inv, CmdInv, CmdType, Stop, Loop
  <2>2. ~End("error")
    BY DEF End
  <2>3. \A v \in Name : ~StopContainer(v)
    <3> SUFFICES ASSUME NEW v \in Name, cmd' = [cmd EXCEPT !.todo = @ \ {v}] PROVE FALSE
      BY <2>2 DEF StopContainer
    <3>1. cmd'.name = "stop"
      BY <2>1 DEF Stop
    <3> QED BY <3>1 DEF Idle
  <2>4. RemoveNetwork
    <3>1. ~skipNonNode /\ ~SafeCreateNetwork /\ ~exportDockerNodeConfig /\ ~exportAWSNodeConfig
          /\ ~exportConfigs /\ ~generateKeys /\ ~generateGivernyConfig /\ ~buildNetwork
      BY <2>1 DEF skipNonNode, SafeCreateNetwork, exportDockerNodeConfig, exportAWSNodeConfig,
         exportConfigs, generateKeys, generateGivernyConfig, buildNetwork, AtNode, PastNodes
    <3>2. ~pushDockerNode /\ ~CreateContainerFromImage /\ ~CopyToContainer
          /\ ~ConnectContainerToNetwork /\ ~StartContainer /\ ~pushesDone
      BY <2>1 DEF pushDockerNode, CreateContainerFromImage, CopyToContainer,
         ConnectContainerToNetwork, StartContainer, pushesDone, AtNode, PastNodes
    <3>3. \A v \in Name, remove \in BOOLEAN : ~StopNode(v, remove)
      BY DEF StopNode
    <3>4. \A v \in Foreign : ~runForeign(v)
      BY DEF runForeign
    <3> QED BY <2>3, <3>1, <3>2, <3>3, <3>4, IdleBegins DEF Next
  <2>5. cmd.todo = {} /\ GetContainers = {}
    BY <2>1, <2>4 DEF RemoveNetwork, CmdInv, StopsSoFar
  <2> QED BY <2>5
<1> QED BY <1>1, Invariance, PTL DEF Spec, StopClears
=============================================================================
