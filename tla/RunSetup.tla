------------------------------ MODULE RunSetup ------------------------------
(***************************************************************************)
(* Cork processes in one project directory on one host, each from the      *)
(* project metadata to a running container. CorkRun has these steps of one *)
(* process as Setup, Create, Attach and StartContainer, and the stage that *)
(* Start of the runner then runs, which is one phase here.                 *)
(*                                                                         *)
(*   run.go                          loadCorkProjectMetadata               *)
(*   runner.go                       the ports, createCommander, Start     *)
(*   utils/dockerutils/commander.go  Start and Kill of DockerCommander     *)
(*                                                                         *)
(* A process stands for its run: the ID it would generate, its container.  *)
(* What they share is the metadata file, the ports of the host, and what   *)
(* docker has: images, volumes, containers.                                *)
(***************************************************************************)
EXTENDS DockerAuth

CONSTANTS
  Cork,       \* processes
  Port,       \* ports of the host
  Hosts,      \* what is installed: docker configurations, an image, its registry
  Faults      \* what may go wrong, see the actions that name them

NoId   == "noId"
NoPort == 0
Phase  == {"off", "stat", "create", "write", "read", "sshPort", "corkPort", "image", "pull",
           "volume", "container", "attach", "start", "register", "creds", "running", "ended"}

ASSUME SetupAssumption ==
  /\ {NoId, "absent", "empty"} \cap Cork = {} /\ NoPort \notin Port
  /\ Faults \subseteq {"disk", "docker", "death", "ssh"}
  /\ \A h \in Hosts :
       /\ h.host \in Host /\ h.present \in BOOLEAN /\ h.force \in BOOLEAN
       /\ h.files \in Seq(ConfigFile)
       /\ h.opens \subseteq Registry \cup {Anonymous}

VARIABLES
  host,       \* the member of Hosts this is
  phase,      \* control of each process
  outcome,    \* how it ended
  file,       \* .cork/metadata.json: "absent", "empty", or the ID in it
  creators,   \* processes that found the file absent
  id,         \* the metadata each process goes on with
  sshPort, corkPort,
  image,      \* docker has the image
  untried,    \* credentials a pull has yet to try
  volumes,    \* the cache volumes of docker, by ID
  container,
  kill,       \* Kill of its commander: not yet registered, deferred, or what it did
  reached     \* whose container a process connected to through its ports

fileVars == <<file, creators, id>>
portVars == <<sshPort, corkPort>>
pullVars == <<image, untried>>
dockVars == <<volumes, container, kill>>
vars == <<host, phase, outcome, fileVars, portVars, pullVars, dockVars, reached>>

TypeOK ==
  /\ host \in Hosts
  /\ phase \in [Cork -> Phase]
  /\ outcome \in [Cork -> {"none", "failed", "interrupted", "crashed", "panicked", "returned"}]
  /\ file \in {"absent", "empty"} \cup Cork
  /\ creators \subseteq Cork
  /\ id \in [Cork -> Cork \cup {NoId}]
  /\ sshPort \in [Cork -> Port \cup {NoPort}] /\ corkPort \in [Cork -> Port \cup {NoPort}]
  /\ image \in BOOLEAN
  /\ untried \in [Cork -> SUBSET (Registry \cup {Anonymous})]
  /\ volumes \subseteq Cork
  /\ container \in [Cork -> {"none", "created", "running", "gone"}]
  /\ kill \in [Cork -> {"none", "deferred", "done", "failed"}]
  /\ reached \in [Cork -> SUBSET Cork]

Init ==
  /\ host \in Hosts
  /\ phase = [p \in Cork |-> "off"] /\ outcome = [p \in Cork |-> "none"]
  /\ file = "absent" /\ creators = {} /\ id = [p \in Cork |-> NoId]
  /\ sshPort = [p \in Cork |-> NoPort] /\ corkPort = [p \in Cork |-> NoPort]
  /\ image = host.present /\ untried = [p \in Cork |-> {}]
  /\ volumes = {} /\ container = [p \in Cork |-> "none"] /\ kill = [p \in Cork |-> "none"]
  /\ reached = [p \in Cork |-> {}]

Goes(p, from, to) == phase[p] = from /\ phase' = [phase EXCEPT ![p] = to] /\ UNCHANGED <<host, outcome>>

Ends(p, how) ==
  /\ phase' = [phase EXCEPT ![p] = "ended"]
  /\ outcome' = [outcome EXCEPT ![p] = how]
  /\ UNCHANGED host

-----------------------------------------------------------------------------
(* loadCorkProjectMetadata. *)

Begin(p) ==
  /\ Goes(p, "off", "stat")
  /\ UNCHANGED <<fileVars, portVars, pullVars, dockVars, reached>>

\* Faulty variant of StatFile: any error of os.Stat is taken for no file.
StatOrCreate(p) ==
  /\ \/ Goes(p, "stat", "create") /\ creators' = creators \cup {p}
     \/ file # "absent" /\ Goes(p, "stat", "read") /\ UNCHANGED creators
  /\ UNCHANGED <<file, id, portVars, pullVars, dockVars, reached>>

\* The directory is made if need be, and os.Stat looks for the file.
StatFile(p) ==
  /\ IF file = "absent"
     THEN Goes(p, "stat", "create") /\ creators' = creators \cup {p}
     ELSE Goes(p, "stat", "read") /\ UNCHANGED creators
  /\ UNCHANGED <<file, id, portVars, pullVars, dockVars, reached>>

\* ioutil.WriteFile opens the file, which truncates it, and then writes.
CreateFile(p) ==
  /\ Goes(p, "create", "write")
  /\ file' = "empty"
  /\ UNCHANGED <<creators, id, portVars, pullVars, dockVars, reached>>

WriteFile(p) ==
  /\ Goes(p, "write", "sshPort")
  /\ file' = p /\ id' = [id EXCEPT ![p] = p]
  /\ UNCHANGED <<creators, portVars, pullVars, dockVars, reached>>

\* No directory, or a full disk: the file stays as it is at that point.
WriteFails(p) ==
  /\ "disk" \in Faults /\ phase[p] \in {"create", "write"}
  /\ Ends(p, "failed")
  /\ UNCHANGED <<fileVars, portVars, pullVars, dockVars, reached>>

\* Faulty variant of ReadFile: what does not parse is made anew.
ReadOrCreate(p) ==
  /\ IF file = "empty" THEN Goes(p, "read", "create") /\ UNCHANGED id
     ELSE Goes(p, "read", "sshPort") /\ id' = [id EXCEPT ![p] = file]
  /\ UNCHANGED <<file, creators, portVars, pullVars, dockVars, reached>>

\* Faulty variant of ReadFile: the error of json.Unmarshal is ignored.
ReadUnparsed(p) ==
  /\ Goes(p, "read", "sshPort") /\ id' = [id EXCEPT ![p] = file]
  /\ UNCHANGED <<file, creators, portVars, pullVars, dockVars, reached>>

ReadFile(p) ==
  /\ file \in Cork
  /\ Goes(p, "read", "sshPort") /\ id' = [id EXCEPT ![p] = file]
  /\ UNCHANGED <<file, creators, portVars, pullVars, dockVars, reached>>

\* json.Unmarshal of nothing is an error, and so is a file that cannot be read.
ReadFails(p) ==
  /\ phase[p] = "read" /\ (file = "empty" \/ "disk" \in Faults)
  /\ Ends(p, "failed")
  /\ UNCHANGED <<fileVars, portVars, pullVars, dockVars, reached>>

-----------------------------------------------------------------------------
(* The ports. *)

PortsOf(p) == {sshPort[p], corkPort[p]}

\* The ports docker holds for a container.
Bound == UNION {PortsOf(p) : p \in {q \in Cork : container[q] = "running"}}

\* freeport.GetPort binds a free port and gives it up again.
PickSshPort(p) ==
  /\ Goes(p, "sshPort", "corkPort")
  /\ \E port \in Port \ Bound : sshPort' = [sshPort EXCEPT ![p] = port]
  /\ UNCHANGED <<fileVars, corkPort, pullVars, dockVars, reached>>

PickCorkPort(p) ==
  /\ Goes(p, "corkPort", "image")
  /\ \E port \in Port \ Bound : corkPort' = [corkPort EXCEPT ![p] = port]
  /\ UNCHANGED <<fileVars, sshPort, pullVars, dockVars, reached>>

-----------------------------------------------------------------------------
(* Start of the DockerCommander. *)

\* ensureImage.
EnsureImage(p) ==
  /\ IF host.force \/ ~image
     THEN /\ Goes(p, "image", "pull")
          /\ untried' = [untried EXCEPT ![p] = Candidates(host.host, host.files)]
     ELSE Goes(p, "image", "volume") /\ UNCHANGED untried
  /\ UNCHANGED <<fileVars, portVars, image, dockVars, reached>>

\* One PullImage of TryImagePull: a registry lets it pull or not.
PullOnce(p) ==
  /\ phase[p] = "pull"
  /\ \E c \in untried[p] :
       IF c \in host.opens
       THEN Goes(p, "pull", "volume") /\ image' = TRUE /\ untried' = [untried EXCEPT ![p] = {}]
       ELSE /\ untried' = [untried EXCEPT ![p] = @ \ {c}]
            /\ UNCHANGED <<host, phase, outcome, image>>
  /\ UNCHANGED <<fileVars, portVars, dockVars, reached>>

\* No credential is left to try.
PullFails(p) ==
  /\ phase[p] = "pull" /\ untried[p] = {}
  /\ Ends(p, "failed")
  /\ UNCHANGED <<fileVars, portVars, pullVars, dockVars, reached>>

\* ensureVolumesExist creates the volume whether it is there or not.
EnsureVolume(p) ==
  /\ Goes(p, "volume", "container")
  /\ volumes' = volumes \cup {id[p]}
  /\ UNCHANGED <<fileVars, portVars, pullVars, container, kill, reached>>

CreateContainer(p) ==
  /\ Goes(p, "container", "attach")
  /\ container' = [container EXCEPT ![p] = "created"]
  /\ UNCHANGED <<fileVars, portVars, pullVars, volumes, kill, reached>>

\* Faulty variant of AttachToContainer: the container is started first.
StartBeforeAttach(p) ==
  /\ Goes(p, "attach", "start")
  /\ container' = [container EXCEPT ![p] = "running"]
  /\ UNCHANGED <<fileVars, portVars, pullVars, volumes, kill, reached>>

AttachToContainer(p) ==
  /\ Goes(p, "attach", "start")
  /\ UNCHANGED <<fileVars, portVars, pullVars, dockVars, reached>>

Startable(p) == sshPort[p] # corkPort[p] /\ PortsOf(p) \cap Bound = {}

\* docker binds both ports.
StartContainer(p) ==
  /\ Startable(p)
  /\ Goes(p, "start", "register")
  /\ container' = [container EXCEPT ![p] = "running"]
  /\ UNCHANGED <<fileVars, portVars, pullVars, volumes, kill, reached>>

\* Faulty variant of StartFails: the error is only logged.
StartErrorDropped(p) ==
  /\ ~Startable(p)
  /\ Goes(p, "start", "register")
  /\ UNCHANGED <<fileVars, portVars, pullVars, dockVars, reached>>

\* A port was taken since it was found free.
StartFails(p) ==
  /\ phase[p] = "start" /\ ~Startable(p)
  /\ Ends(p, "failed")
  /\ UNCHANGED <<fileVars, portVars, pullVars, dockVars, reached>>

\* Another call of docker fails, the one that makes its client included: Start
\* returns, and Kill is not yet deferred.
DockerFails(p) ==
  /\ "docker" \in Faults
  /\ phase[p] \in {"sshPort", "image", "volume", "container", "attach", "start"}
  /\ Ends(p, "failed")
  /\ UNCHANGED <<fileVars, portVars, pullVars, dockVars, reached>>

-----------------------------------------------------------------------------
(* The run. *)

\* The deferred Kill and OnTerminate.
Register(p) ==
  /\ Goes(p, "register", "creds")
  /\ kill' = [kill EXCEPT ![p] = "deferred"]
  /\ UNCHANGED <<fileVars, portVars, pullVars, volumes, container, reached>>

\* A container that stops is removed (AutoRemove).
Removed(p) == container' = [container EXCEPT ![p] = "gone"]

\* Kill of the commander: any call it makes may fail, and nobody looks.
Kill(p) ==
  \/ Removed(p) /\ kill' = [kill EXCEPT ![p] = "done"]
  \/ "docker" \in Faults /\ UNCHANGED container /\ kill' = [kill EXCEPT ![p] = "failed"]

\* setupDockerCreds copies what the docker configuration has.
SetupDockerCreds(p) ==
  /\ Loaded(host.files) # {}
  /\ Goes(p, "creds", "running")
  /\ UNCHANGED <<fileVars, portVars, pullVars, dockVars, reached>>

\* With no configuration that loads it panics, which runs the deferred Kill.
NoDockerConfig(p) ==
  /\ phase[p] = "creds" /\ Loaded(host.files) = {}
  /\ Ends(p, "panicked") /\ Kill(p)
  /\ UNCHANGED <<fileVars, portVars, pullVars, volumes, reached>>

\* The process sets the credentials over ssh, or runs the stage.
InSession(p) ==
  \/ phase[p] = "creds" /\ Loaded(host.files) # {}
  \/ phase[p] = "running"

\* ssh and the client connect to a port of the process, which docker forwards
\* to whatever container it bound it for.
Connect(p) ==
  /\ InSession(p)
  /\ \E q \in Cork :
       /\ container[q] = "running" /\ PortsOf(p) \cap PortsOf(q) # {}
       /\ reached' = [reached EXCEPT ![p] = @ \cup {q}]
  /\ UNCHANGED <<host, phase, outcome, fileVars, portVars, pullVars, dockVars>>

\* Start returns, with an error or without one, after the deferred Kill.
Finish(p) ==
  /\ InSession(p)
  /\ Ends(p, "returned") /\ Kill(p)
  /\ UNCHANGED <<fileVars, portVars, pullVars, volumes, reached>>

\* log.Fatalf of connect and connectClient, or a panic of the client: the process
\* ends on the spot, and nothing deferred runs.
Crashes(p) ==
  /\ InSession(p)
  /\ "ssh" \in Faults \/ container[p] = "gone"
  /\ Ends(p, "crashed")
  /\ UNCHANGED <<fileVars, portVars, pullVars, dockVars, reached>>

\* Ctrl-C: with nothing registered for it the process exits there and then.
Interrupt(p) ==
  /\ phase[p] \notin {"off", "ended"}
  /\ Ends(p, "interrupted")
  /\ IF kill[p] = "deferred" THEN Kill(p) ELSE UNCHANGED <<container, kill>>
  /\ UNCHANGED <<fileVars, portVars, pullVars, volumes, reached>>

\* The container stops by itself.
ContainerDies(p) ==
  /\ "death" \in Faults /\ container[p] = "running"
  /\ Removed(p)
  /\ UNCHANGED <<host, phase, outcome, fileVars, portVars, pullVars, volumes, kill, reached>>

-----------------------------------------------------------------------------

Metadata(p) ==
  Begin(p) \/ StatFile(p) \/ CreateFile(p) \/ WriteFile(p) \/ WriteFails(p)
  \/ ReadFile(p) \/ ReadFails(p)

Commander(p) ==
  \/ EnsureImage(p) \/ PullOnce(p) \/ PullFails(p) \/ EnsureVolume(p)
  \/ CreateContainer(p) \/ AttachToContainer(p) \/ StartContainer(p) \/ StartFails(p)
  \/ DockerFails(p)

Stage(p) ==
  \/ Register(p) \/ SetupDockerCreds(p) \/ NoDockerConfig(p) \/ Connect(p)
  \/ Finish(p) \/ Crashes(p)

Next ==
  \E p \in Cork :
    \/ Metadata(p) \/ PickSshPort(p) \/ PickCorkPort(p) \/ Commander(p)
    \/ Stage(p) \/ Interrupt(p) \/ ContainerDies(p)

Spec == Init /\ [][Next]_vars

-----------------------------------------------------------------------------
(* Properties. *)

\* All the runs of a project share one cache (run.go:176-211), unless more than
\* one of them was the first to look for the metadata: two IDs in use mean two
\* processes that found no file.
CacheIsShared ==
  \A p, q \in Cork :
    id[p] # NoId /\ id[q] # NoId /\ id[p] # id[q] =>
      \E c, d \in creators : c # d

\* Once the file has an ID and no process is still making one, this holds for
\* ever, with that ID: whoever comes later, or is interrupted, the project keeps
\* its cache.
MetadataIsSettled == file \in Cork /\ \A p \in Cork : phase[p] \notin {"create", "write"}

MetadataIsStable == [][MetadataIsSettled => MetadataIsSettled' /\ file' = file]_vars

\* A process connects to a container of another one only after it lost its own,
\* although the ports it found free may be taken by others before docker binds
\* them (runner.go:106-107): a start that fails ends the run.
ReachesItsOwnContainer ==
  \A p \in Cork : \A q \in reached[p] : q = p \/ container[p] = "gone"

\* Start of DockerCommander returns its first error without killing anything
\* (commander.go:320-351), and Start of the runner defers Kill only afterwards: a
\* process that has ended leaves a container running only if docker refused to
\* kill it, if the process ended without its deferred calls, or if Ctrl-C came
\* between the start of the container and the registration of Kill. A set-up
\* that fails, and a run that returns or panics on its main goroutine, leave none.
NoRunningOrphan ==
  \A p \in Cork :
    phase[p] = "ended" /\ container[p] = "running" =>
      \/ kill[p] = "failed"
      \/ outcome[p] = "crashed"
      \/ outcome[p] = "interrupted" /\ kill[p] = "none"

\* How a key of the i-th configuration is passed over: the file does not load, for
\* which one bad entry is enough; a file before it loads; the search for the host
\* of the image misses the key and finds another one.
Lost(i)             == ~Loads(host.files[i])
Shadowed(i)         == \E j \in DOMAIN host.files : j < i /\ Loads(host.files[j])
Outmatched(i, key)  ==
  /\ <<host.host, key>> \notin Fuzzy
  /\ \E other \in Entries(host.files[i]) : <<host.host, other>> \in Fuzzy

KeysPassedOver ==
  \A i \in DOMAIN host.files : \A key \in Entries(host.files[i]) \cap host.opens :
    Lost(i) \/ Shadowed(i) \/ Outmatched(i, key)

\* A configuration that loads, an empty one too, keeps a public image from being
\* asked for without a credential.
NotPublic == Anonymous \in host.opens => \E i \in DOMAIN host.files : ~Lost(i)

\* A pull gives up (commander.go:102-136) only when every key of every file that
\* would have opened the registry was passed over in one of these three ways, and
\* asking without a credential would not have helped, or a file that loads was in
\* the way of it. The order in which the keys are tried loses none.
PullGivesUpForCause ==
  [][\A p \in Cork : phase[p] = "pull" /\ outcome'[p] = "failed" =>
       KeysPassedOver /\ NotPublic]_vars
=============================================================================
