--------------------------- MODULE RunSetupProofs ---------------------------
(***************************************************************************)
(* What RunSetup promises, for any number of cork processes and ports, and *)
(* whatever is installed on the host.                                      *)
(***************************************************************************)
EXTENDS RunSetup, TLAPS

\* Whoever writes the file, or is named in it, found none.
MakersFoundNoFile ==
  /\ file \in Cork => file \in creators
  /\ \A p \in Cork : phase[p] \in {"create", "write"} => p \in creators
  /\ \A p \in Cork : id[p] # NoId => id[p] \in creators
  /\ \A p \in Cork :
       phase[p] \in {"sshPort", "corkPort", "image", "pull", "volume"} => id[p] \in Cork

\* What a process has of a container, and whether Kill is registered or was
\* called, follow from where it is and how it ended.
ContainerFollowsPhase ==
  \A p \in Cork :
    /\ phase[p] # "ended" => outcome[p] = "none"
    /\ phase[p] = "ended" => outcome[p] # "none"
    /\ container[p] = "none"
         \/ phase[p] \in {"attach", "start", "register", "creds", "running", "ended"}
    /\ phase[p] \in {"attach", "start"} => container[p] = "created"
    /\ phase[p] \in {"register", "creds", "running"} => container[p] \in {"running", "gone"}
    /\ phase[p] \in {"creds", "running"} <=> kill[p] = "deferred" /\ outcome[p] # "crashed"
    /\ phase[p] \notin {"creds", "running", "ended"} => kill[p] = "none"
    /\ kill[p] = "done" => container[p] = "gone"
    /\ outcome[p] = "failed" => container[p] \in {"none", "created"}
    /\ outcome[p] \in {"panicked", "returned"} => kill[p] \in {"done", "failed"}

\* docker binds a port once.
PortsApart ==
  \A p, q \in Cork :
    container[p] = "running" /\ container[q] = "running" /\ PortsOf(p) \cap PortsOf(q) # {}
      => p = q

\* A pull that does not pass over all that opens the registry still has some of it
\* before it.
PullMaySucceed ==
  ~(KeysPassedOver /\ NotPublic) =>
    \A p \in Cork : phase[p] = "pull" => \E c \in untried[p] : c \in host.opens

IInv ==
  /\ TypeOK
  /\ MakersFoundNoFile
  /\ ContainerFollowsPhase
  /\ PortsApart
  /\ ReachesItsOwnContainer
  /\ PullMaySucceed

-----------------------------------------------------------------------------
(* The credentials. *)

\* The first file that loads is the one whose entries are loaded.
LEMMA LoadedIsFirst ==
  ASSUME NEW files \in Seq(ConfigFile),
         NEW i \in DOMAIN files, Loads(files[i]),
         \A j \in DOMAIN files : Loads(files[j]) => i <= j
  PROVE  Loaded(files) = {Entries(files[i])}
<1>1. DOMAIN files \subseteq Nat
  OBVIOUS
<1>2. \A k \in DOMAIN files :
        Loads(files[k]) /\ (\A j \in DOMAIN files : Loads(files[j]) => k <= j) => k = i
  BY <1>1
<1> QED
  BY <1>2 DEF Loaded

\* When no file loads the pull is anonymous.
LEMMA NoneLoaded ==
  ASSUME NEW name, NEW files, \A i \in DOMAIN files : ~Loads(files[i])
  PROVE  Candidates(name, files) = {Anonymous}
<1>1. Loaded(files) = {}
  BY DEF Loaded
<1> QED
  BY <1>1 DEF Candidates

\* A key of the loaded file is among what is tried, when the host of the image is
\* found in it or in no key of that file.
LEMMA KeyIsTried ==
  ASSUME NEW name, NEW files, NEW keys, Loaded(files) = {keys}, NEW key \in keys,
         <<name, key>> \in Fuzzy \/ \A other \in keys : <<name, other>> \notin Fuzzy
  PROVE  key \in Candidates(name, files)
<1>1. (CHOOSE k \in Loaded(files) : TRUE) = keys
  OBVIOUS
<1>2. CASE <<name, key>> \in Fuzzy
  <2>1. key \in Narrow(name, keys)
    BY <1>2 DEF Narrow
  <2> QED
    BY <1>1, <2>1 DEF Candidates
<1>3. CASE \A other \in keys : <<name, other>> \notin Fuzzy
  <2>1. Narrow(name, keys) = {}
    BY <1>3 DEF Narrow
  <2> QED
    BY <1>1, <2>1 DEF Candidates
<1> QED
  BY <1>2, <1>3

\* Only keys of a configuration are tried, or none.
LEMMA CandidatesTyped ==
  ASSUME NEW name, NEW files \in Seq(ConfigFile)
  PROVE  Candidates(name, files) \subseteq Registry \cup {Anonymous}
<1>1. \A keys \in Loaded(files) : keys \subseteq Registry
  <2>1. \A i \in DOMAIN files : files[i] \in ConfigFile
    OBVIOUS
  <2>2. \A c \in ConfigFile : c.good \subseteq Registry
    BY DEF ConfigFile
  <2> QED
    BY <2>1, <2>2 DEF Loaded, Loads
<1>2. CASE Loaded(files) = {}
  BY <1>2 DEF Candidates
<1>3. CASE Loaded(files) # {}
  <2>1. (CHOOSE k \in Loaded(files) : TRUE) \subseteq Registry
    BY <1>1, <1>3
  <2> QED
    BY <1>3, <2>1 DEF Candidates, Narrow
<1> QED
  BY <1>2, <1>3

\* A process that begins to pull has a key before it that opens the registry, or
\* has passed over all of them.
LEMMA PullBegins ==
  ASSUME TypeOK, ~(KeysPassedOver /\ NotPublic)
  PROVE  \E c \in Candidates(host.host, host.files) : c \in host.opens
<1>1. host.files \in Seq(ConfigFile)
  BY SetupAssumption DEF TypeOK
<1>2. CASE ~KeysPassedOver
  <2>1. PICK i \in DOMAIN host.files : \E key \in Entries(host.files[i]) \cap host.opens :
          ~Lost(i) /\ ~Shadowed(i) /\ ~Outmatched(i, key)
    BY <1>2 DEF KeysPassedOver
  <2>2. PICK key \in Entries(host.files[i]) \cap host.opens :
          ~Lost(i) /\ ~Shadowed(i) /\ ~Outmatched(i, key)
    BY <2>1
  <2>3. \A j \in DOMAIN host.files : Loads(host.files[j]) => i <= j
    <3>1. DOMAIN host.files \subseteq Nat
      BY <1>1
    <3> QED
      BY <2>2, <3>1 DEF Shadowed
  <2>4. Loaded(host.files) = {Entries(host.files[i])}
    BY <1>1, <2>2, <2>3, LoadedIsFirst DEF Lost
  <2> QED
    BY <2>2, <2>4, KeyIsTried DEF Outmatched
<1>3. CASE ~NotPublic
  BY <1>3, NoneLoaded DEF NotPublic, Lost
<1> QED
  BY <1>2, <1>3

-----------------------------------------------------------------------------
(* The strengthened invariant. *)

\* No process has done anything.
LEMMA InitIInv == Init => IInv
<1> SUFFICES ASSUME Init PROVE IInv
  OBVIOUS
<1>1. TypeOK
  BY SetupAssumption DEF Init, TypeOK, Phase
<1>2. MakersFoundNoFile /\ ContainerFollowsPhase /\ PortsApart /\ ReachesItsOwnContainer
  BY SetupAssumption DEF Init, MakersFoundNoFile, ContainerFollowsPhase, PortsApart,
    ReachesItsOwnContainer
<1>3. PullMaySucceed
  BY DEF Init, PullMaySucceed
<1> QED
  BY <1>1, <1>2, <1>3 DEF IInv

\* One step of one process keeps the types.
LEMMA StepTyped ==
  ASSUME TypeOK, MakersFoundNoFile, NEW p \in Cork,
         Metadata(p) \/ PickSshPort(p) \/ PickCorkPort(p) \/ Commander(p)
           \/ Stage(p) \/ Interrupt(p) \/ ContainerDies(p)
  PROVE  TypeOK'
<1> USE DEF TypeOK, Phase, Goes, Ends, fileVars, portVars, pullVars, dockVars
<1>1. CASE Begin(p)
  BY <1>1 DEF Begin
<1>2. CASE StatFile(p)
  BY <1>2 DEF StatFile
<1>3. CASE CreateFile(p)
  BY <1>3 DEF CreateFile
<1>4. CASE WriteFile(p)
  BY <1>4 DEF WriteFile
<1>5. CASE WriteFails(p)
  BY <1>5 DEF WriteFails
<1>6. CASE ReadFile(p)
  BY <1>6 DEF ReadFile
<1>7. CASE ReadFails(p)
  BY <1>7 DEF ReadFails
<1>8. CASE PickSshPort(p)
  BY <1>8 DEF PickSshPort
<1>9. CASE PickCorkPort(p)
  BY <1>9 DEF PickCorkPort
<1>10. CASE EnsureImage(p)
  BY <1>10, SetupAssumption, CandidatesTyped DEF EnsureImage
<1>11. CASE PullOnce(p)
  <2>1. PICK c \in untried[p] :
          IF c \in host.opens
          THEN Goes(p, "pull", "volume") /\ image' = TRUE /\ untried' = [untried EXCEPT ![p] = {}]
          ELSE /\ untried' = [untried EXCEPT ![p] = @ \ {c}]
               /\ UNCHANGED <<host, phase, outcome, image>>
    BY <1>11 DEF PullOnce
  <2>2. CASE c \in host.opens
    BY <1>11, <2>1, <2>2 DEF PullOnce
  <2>3. CASE c \notin host.opens
    <3>1. untried' = [untried EXCEPT ![p] = untried[p] \ {c}]
      BY <2>1, <2>3
    <3>2. untried' \in [Cork -> SUBSET (Registry \cup {Anonymous})]
      BY <3>1
    <3>3. UNCHANGED <<host, phase, outcome, image>>
      BY <2>1, <2>3
    <3> QED
      BY <1>11, <3>2, <3>3 DEF PullOnce
  <2> QED
    BY <2>2, <2>3
<1>12. CASE PullFails(p)
  BY <1>12 DEF PullFails
<1>13. CASE EnsureVolume(p)
  BY <1>13 DEF EnsureVolume, MakersFoundNoFile
<1>14. CASE CreateContainer(p)
  BY <1>14 DEF CreateContainer
<1>15. CASE AttachToContainer(p)
  BY <1>15 DEF AttachToContainer
<1>16. CASE StartContainer(p)
  BY <1>16 DEF StartContainer, Startable
<1>17. CASE StartFails(p)
  BY <1>17 DEF StartFails, Startable
<1>18. CASE DockerFails(p)
  BY <1>18 DEF DockerFails
<1>19. CASE Register(p)
  BY <1>19 DEF Register
<1>20. CASE SetupDockerCreds(p)
  BY <1>20 DEF SetupDockerCreds
<1>21. CASE NoDockerConfig(p)
  BY <1>21 DEF NoDockerConfig, Kill, Removed
<1>22. CASE Connect(p)
  BY <1>22 DEF Connect, InSession
<1>23. CASE Finish(p)
  BY <1>23 DEF Finish, InSession, Kill, Removed
<1>24. CASE Crashes(p)
  BY <1>24 DEF Crashes, InSession
<1>25. CASE Interrupt(p)
  BY <1>25 DEF Interrupt, Kill, Removed
<1>26. CASE ContainerDies(p)
  BY <1>26 DEF ContainerDies, Removed
<1> QED
  BY <1>1, <1>2, <1>3, <1>4, <1>5, <1>6, <1>7, <1>8, <1>9, <1>10, <1>11, <1>12, <1>13, <1>14,
    <1>15, <1>16, <1>17, <1>18, <1>19, <1>20, <1>21, <1>22, <1>23, <1>24, <1>25, <1>26
    DEF Metadata, Commander, Stage

\* One step of one process keeps what is known of the metadata.
LEMMA StepKeepsMakers ==
  ASSUME TypeOK, MakersFoundNoFile, NEW p \in Cork,
         Metadata(p) \/ PickSshPort(p) \/ PickCorkPort(p) \/ Commander(p)
           \/ Stage(p) \/ Interrupt(p) \/ ContainerDies(p)
  PROVE  MakersFoundNoFile'
<1> USE DEF TypeOK, Phase, Goes, Ends, fileVars, portVars, pullVars, dockVars, MakersFoundNoFile
<1>1. CASE Begin(p)
  BY <1>1, SetupAssumption DEF Begin
<1>2. CASE StatFile(p)
  BY <1>2, SetupAssumption DEF StatFile
<1>3. CASE CreateFile(p)
  BY <1>3, SetupAssumption DEF CreateFile
<1>4. CASE WriteFile(p)
  BY <1>4, SetupAssumption DEF WriteFile
<1>5. CASE WriteFails(p)
  BY <1>5, SetupAssumption DEF WriteFails
<1>6. CASE ReadFile(p)
  BY <1>6, SetupAssumption DEF ReadFile
<1>7. CASE ReadFails(p)
  BY <1>7, SetupAssumption DEF ReadFails
<1>8. CASE PickSshPort(p)
  BY <1>8, SetupAssumption DEF PickSshPort
<1>9. CASE PickCorkPort(p)
  BY <1>9, SetupAssumption DEF PickCorkPort
<1>10. CASE EnsureImage(p)
  BY <1>10, SetupAssumption DEF EnsureImage
<1>11. CASE PullOnce(p)
  BY <1>11, SetupAssumption DEF PullOnce
<1>12. CASE PullFails(p)
  BY <1>12, SetupAssumption DEF PullFails
<1>13. CASE EnsureVolume(p)
  BY <1>13, SetupAssumption DEF EnsureVolume
<1>14. CASE CreateContainer(p)
  BY <1>14, SetupAssumption DEF CreateContainer
<1>15. CASE AttachToContainer(p)
  BY <1>15, SetupAssumption DEF AttachToContainer
<1>16. CASE StartContainer(p)
  BY <1>16, SetupAssumption DEF StartContainer, Startable
<1>17. CASE StartFails(p)
  BY <1>17, SetupAssumption DEF StartFails, Startable
<1>18. CASE DockerFails(p)
  BY <1>18, SetupAssumption DEF DockerFails
<1>19. CASE Register(p)
  BY <1>19, SetupAssumption DEF Register
<1>20. CASE SetupDockerCreds(p)
  BY <1>20, SetupAssumption DEF SetupDockerCreds
<1>21. CASE NoDockerConfig(p)
  BY <1>21, SetupAssumption DEF NoDockerConfig, Kill, Removed
<1>22. CASE Connect(p)
  BY <1>22, SetupAssumption DEF Connect, InSession
<1>23. CASE Finish(p)
  BY <1>23, SetupAssumption DEF Finish, InSession, Kill, Removed
<1>24. CASE Crashes(p)
  BY <1>24, SetupAssumption DEF Crashes, InSession
<1>25. CASE Interrupt(p)
  BY <1>25, SetupAssumption DEF Interrupt, Kill, Removed
<1>26. CASE ContainerDies(p)
  BY <1>26, SetupAssumption DEF ContainerDies, Removed
<1> QED
  BY <1>1, <1>2, <1>3, <1>4, <1>5, <1>6, <1>7, <1>8, <1>9, <1>10, <1>11, <1>12, <1>13, <1>14,
    <1>15, <1>16, <1>17, <1>18, <1>19, <1>20, <1>21, <1>22, <1>23, <1>24, <1>25, <1>26
    DEF Metadata, Commander, Stage

\* One step of one process keeps what is known of its container.
LEMMA StepKeepsContainer ==
  ASSUME TypeOK, ContainerFollowsPhase, NEW p \in Cork,
         Metadata(p) \/ PickSshPort(p) \/ PickCorkPort(p) \/ Commander(p)
           \/ Stage(p) \/ Interrupt(p) \/ ContainerDies(p)
  PROVE  ContainerFollowsPhase'
<1> USE DEF TypeOK, Phase, Goes, Ends, fileVars, portVars, pullVars, dockVars,
      ContainerFollowsPhase
<1>1. CASE Begin(p)
  BY <1>1 DEF Begin
<1>2. CASE StatFile(p)
  BY <1>2 DEF StatFile
<1>3. CASE CreateFile(p)
  BY <1>3 DEF CreateFile
<1>4. CASE WriteFile(p)
  BY <1>4 DEF WriteFile
<1>5. CASE WriteFails(p)
  BY <1>5 DEF WriteFails
<1>6. CASE ReadFile(p)
  BY <1>6 DEF ReadFile
<1>7. CASE ReadFails(p)
  BY <1>7 DEF ReadFails
<1>8. CASE PickSshPort(p)
  BY <1>8 DEF PickSshPort
<1>9. CASE PickCorkPort(p)
  BY <1>9 DEF PickCorkPort
<1>10. CASE EnsureImage(p)
  BY <1>10 DEF EnsureImage
<1>11. CASE PullOnce(p)
  BY <1>11 DEF PullOnce
<1>12. CASE PullFails(p)
  BY <1>12 DEF PullFails
<1>13. CASE EnsureVolume(p)
  BY <1>13 DEF EnsureVolume
<1>14. CASE CreateContainer(p)
  BY <1>14 DEF CreateContainer
<1>15. CASE AttachToContainer(p)
  BY <1>15 DEF AttachToContainer
<1>16. CASE StartContainer(p)
  BY <1>16 DEF StartContainer, Startable
<1>17. CASE StartFails(p)
  BY <1>17 DEF StartFails, Startable
<1>18. CASE DockerFails(p)
  BY <1>18 DEF DockerFails
<1>19. CASE Register(p)
  BY <1>19 DEF Register
<1>20. CASE SetupDockerCreds(p)
  BY <1>20 DEF SetupDockerCreds
<1>21. CASE NoDockerConfig(p)
  BY <1>21 DEF NoDockerConfig, Kill, Removed
<1>22. CASE Connect(p)
  BY <1>22 DEF Connect, InSession
<1>23. CASE Finish(p)
  BY <1>23 DEF Finish, InSession, Kill, Removed
<1>24. CASE Crashes(p)
  BY <1>24 DEF Crashes, InSession
<1>25. CASE Interrupt(p)
  BY <1>25 DEF Interrupt, Kill, Removed
<1>26. CASE ContainerDies(p)
  BY <1>26 DEF ContainerDies, Removed
<1> QED
  BY <1>1, <1>2, <1>3, <1>4, <1>5, <1>6, <1>7, <1>8, <1>9, <1>10, <1>11, <1>12, <1>13, <1>14,
    <1>15, <1>16, <1>17, <1>18, <1>19, <1>20, <1>21, <1>22, <1>23, <1>24, <1>25, <1>26
    DEF Metadata, Commander, Stage

\* One step of one process keeps bound ports apart: a port is picked before the
\* container runs, and only what is free is bound.
LEMMA StepKeepsPorts ==
  ASSUME TypeOK, ContainerFollowsPhase, PortsApart, NEW p \in Cork,
         Metadata(p) \/ PickSshPort(p) \/ PickCorkPort(p) \/ Commander(p)
           \/ Stage(p) \/ Interrupt(p) \/ ContainerDies(p)
  PROVE  PortsApart'
<1>1. CASE StartContainer(p)
  <2>1. /\ UNCHANGED <<sshPort, corkPort>>
        /\ container' = [container EXCEPT ![p] = "running"]
        /\ \A q \in Cork : container[q] = "running" => PortsOf(p) \cap PortsOf(q) = {}
    BY <1>1 DEF StartContainer, Startable, Bound, portVars
  <2>2. \A q \in Cork : PortsOf(q)' = PortsOf(q)
    BY <2>1 DEF PortsOf
  <2>3. \A q \in Cork : q # p => container'[q] = container[q]
    BY <2>1 DEF TypeOK
  <2> QED
    BY <2>1, <2>2, <2>3 DEF PortsApart
<1>2. CASE PickSshPort(p) \/ PickCorkPort(p)
  <2>1. container[p] = "none" /\ UNCHANGED container
    BY <1>2 DEF ContainerFollowsPhase, PickSshPort, PickCorkPort, Goes, dockVars
  <2>2. \A q \in Cork : q # p => sshPort'[q] = sshPort[q] /\ corkPort'[q] = corkPort[q]
    BY <1>2 DEF TypeOK, PickSshPort, PickCorkPort
  <2>3. \A q \in Cork : q # p => PortsOf(q)' = PortsOf(q)
    BY <2>2 DEF PortsOf
  <2> QED
    BY <2>1, <2>3 DEF PortsApart
<1>3. CASE ~(StartContainer(p) \/ PickSshPort(p) \/ PickCorkPort(p))
  <2>1. /\ UNCHANGED <<sshPort, corkPort>>
        /\ \A q \in Cork : container'[q] = "running" => container[q] = "running"
    BY <1>3 DEF TypeOK, Metadata, Commander, Begin, StatFile, CreateFile, WriteFile, WriteFails,
      ReadFile, ReadFails, EnsureImage, PullOnce, PullFails, EnsureVolume, CreateContainer,
      AttachToContainer, StartFails, DockerFails, Stage, Register,
      SetupDockerCreds, NoDockerConfig, Connect, Finish, Crashes, Interrupt, Kill,
      ContainerDies, Removed, portVars, dockVars
  <2>2. \A q \in Cork : PortsOf(q)' = PortsOf(q)
    BY <2>1 DEF PortsOf
  <2> QED
    BY <2>1, <2>2 DEF PortsApart
<1> QED
  BY <1>1, <1>2, <1>3

\* One step of one process keeps to its own container: while that runs, no other
\* is behind its ports.
LEMMA StepKeepsReach ==
  ASSUME TypeOK, ContainerFollowsPhase, PortsApart, ReachesItsOwnContainer, NEW p \in Cork,
         Metadata(p) \/ PickSshPort(p) \/ PickCorkPort(p) \/ Commander(p)
           \/ Stage(p) \/ Interrupt(p) \/ ContainerDies(p)
  PROVE  ReachesItsOwnContainer'
<1>1. CASE Connect(p)
  <2>1. PICK q \in Cork :
          /\ container[q] = "running" /\ PortsOf(p) \cap PortsOf(q) # {}
          /\ reached' = [reached EXCEPT ![p] = @ \cup {q}]
    BY <1>1 DEF Connect
  <2>2. container[p] \in {"running", "gone"} /\ UNCHANGED container
    BY <1>1 DEF Connect, InSession, ContainerFollowsPhase, dockVars
  <2>3. q = p \/ container[p] = "gone"
    BY <2>1, <2>2 DEF PortsApart
  <2> QED
    BY <2>1, <2>2, <2>3 DEF ReachesItsOwnContainer, TypeOK
<1>2. CASE ~Connect(p)
  <2>1. /\ UNCHANGED reached
        /\ \A q \in Cork : container[q] = "gone" => container'[q] = "gone"
    BY <1>2 DEF TypeOK, ContainerFollowsPhase, Metadata, Commander, Begin, StatFile, CreateFile,
      WriteFile, WriteFails, ReadFile, ReadFails, PickSshPort, PickCorkPort, EnsureImage,
      PullOnce, PullFails, EnsureVolume, CreateContainer, AttachToContainer, StartContainer,
      StartFails, DockerFails, Stage, Register, SetupDockerCreds, NoDockerConfig, Finish, Crashes,
      Interrupt, Kill, ContainerDies, Removed, Goes, dockVars
  <2> QED
    BY <2>1 DEF ReachesItsOwnContainer
<1> QED
  BY <1>1, <1>2

\* One step of one process keeps the credential it needs for its pull.
LEMMA StepKeepsPull ==
  ASSUME TypeOK, PullMaySucceed, NEW p \in Cork,
         Metadata(p) \/ PickSshPort(p) \/ PickCorkPort(p) \/ Commander(p)
           \/ Stage(p) \/ Interrupt(p) \/ ContainerDies(p)
  PROVE  PullMaySucceed'
<1>1. UNCHANGED host
  BY DEF Metadata, Commander, Begin, StatFile, CreateFile, WriteFile, WriteFails, ReadFile,
    ReadFails, PickSshPort, PickCorkPort, EnsureImage, PullOnce, PullFails, EnsureVolume,
    CreateContainer, AttachToContainer, StartContainer, StartFails, DockerFails, Stage,
    Register, SetupDockerCreds, NoDockerConfig, Connect, Finish, Crashes, Interrupt,
    ContainerDies, Goes, Ends
<1>2. SUFFICES ASSUME ~(KeysPassedOver /\ NotPublic), NEW q \in Cork, phase'[q] = "pull"
               PROVE  \E c \in untried'[q] : c \in host.opens
  BY <1>1 DEF PullMaySucceed, KeysPassedOver, NotPublic, Lost, Shadowed, Outmatched
<1>3. CASE EnsureImage(p)
  <2>1. CASE q = p
    <3>1. untried'[p] = Candidates(host.host, host.files)
      BY <1>2, <1>3, <2>1 DEF EnsureImage, Goes, TypeOK, Phase
    <3> QED
      BY <1>2, <2>1, <3>1, PullBegins
  <2>2. CASE q # p
    BY <1>2, <1>3, <2>2 DEF EnsureImage, Goes, TypeOK, PullMaySucceed
  <2> QED
    BY <2>1, <2>2
<1>4. CASE PullOnce(p)
  <2>1. phase[q] = "pull"
    BY <1>2, <1>4 DEF PullOnce, Goes, TypeOK
  <2>2. PICK d \in untried[p] :
          \/ d \in host.opens /\ phase' = [phase EXCEPT ![p] = "volume"]
             /\ untried' = [untried EXCEPT ![p] = {}]
          \/ d \notin host.opens /\ untried' = [untried EXCEPT ![p] = @ \ {d}]
    BY <1>4 DEF PullOnce, Goes, TypeOK
  <2>3. CASE q = p
    <3>1. d \notin host.opens /\ untried'[p] = untried[p] \ {d}
      BY <1>2, <2>2, <2>3 DEF TypeOK
    <3> QED
      BY <1>2, <2>1, <2>3, <3>1 DEF PullMaySucceed
  <2>4. CASE q # p
    <3>1. untried'[q] = untried[q]
      BY <2>2, <2>4 DEF TypeOK
    <3> QED
      BY <1>2, <2>1, <3>1 DEF PullMaySucceed
  <2> QED
    BY <2>3, <2>4
<1>5. CASE ~EnsureImage(p) /\ ~PullOnce(p)
  <2>1. UNCHANGED untried /\ (phase'[q] = "pull" => phase[q] = "pull")
    BY <1>5 DEF TypeOK, Phase, Metadata, Commander, Begin, StatFile, CreateFile, WriteFile,
      WriteFails, ReadFile, ReadFails, PickSshPort, PickCorkPort, PullFails, EnsureVolume,
      CreateContainer, AttachToContainer, StartContainer, StartFails, DockerFails, Stage,
      Register, SetupDockerCreds, NoDockerConfig, Connect, Finish, Crashes, Interrupt, Kill,
      ContainerDies, Goes, Ends, pullVars
  <2> QED
    BY <1>2, <2>1 DEF PullMaySucceed
<1> QED
  BY <1>3, <1>4, <1>5

\* Every step of any process preserves it.
LEMMA NextIInv == IInv /\ [Next]_vars => IInv'
<1> SUFFICES ASSUME IInv, [Next]_vars PROVE IInv'
  OBVIOUS
<1>1. CASE Next
  BY <1>1, StepTyped, StepKeepsMakers, StepKeepsContainer, StepKeepsPorts, StepKeepsReach,
    StepKeepsPull DEF Next, IInv
<1>2. CASE UNCHANGED vars
  BY <1>2 DEF IInv, TypeOK, MakersFoundNoFile, ContainerFollowsPhase, PortsApart, PortsOf,
    ReachesItsOwnContainer, PullMaySucceed, KeysPassedOver, NotPublic, Lost, Shadowed,
    Outmatched, vars, fileVars, portVars,
    pullVars, dockVars
<1> QED
  BY <1>1, <1>2

\* The strengthened invariant holds of every behaviour.
THEOREM SetupIInv == Spec => []IInv
<1> QED
  BY InitIInv, NextIInv, PTL DEF Spec

\* The state of the set-up keeps its types (TypeOK).
THEOREM SetupTypeCorrect == Spec => []TypeOK
<1>1. IInv => TypeOK
  BY DEF IInv
<1> QED
  BY <1>1, SetupIInv, PTL

\* The runs of a project share its cache, however many there are, unless two of
\* them raced to make it (CacheIsShared).
THEOREM CacheIsSharedHolds == Spec => []CacheIsShared
<1>1. IInv => CacheIsShared
  BY DEF IInv, MakersFoundNoFile, CacheIsShared
<1> QED
  BY <1>1, SetupIInv, PTL

\* No process gets through to the container of another one, whatever ports are
\* taken in between (ReachesItsOwnContainer).
THEOREM ReachesItsOwnContainerHolds == Spec => []ReachesItsOwnContainer
<1>1. IInv => ReachesItsOwnContainer
  BY DEF IInv
<1> QED
  BY <1>1, SetupIInv, PTL

\* A process that has ended left no container running, unless docker refused to
\* kill it, the process crashed, or Ctrl-C came before Kill was registered
\* (NoRunningOrphan).
THEOREM NoRunningOrphanHolds == Spec => []NoRunningOrphan
<1>1. IInv => NoRunningOrphan
  BY DEF IInv, TypeOK, ContainerFollowsPhase, NoRunningOrphan
<1> QED
  BY <1>1, SetupIInv, PTL

\* The metadata of a project, once made, is never made again (MetadataIsStable).
THEOREM MetadataIsStableHolds == Spec => MetadataIsStable
<1>1. IInv /\ [Next]_vars => [MetadataIsSettled => MetadataIsSettled' /\ file' = file]_vars
  <2> SUFFICES ASSUME IInv, Next, MetadataIsSettled
               PROVE  MetadataIsSettled' /\ file' = file
    OBVIOUS
  <2>1. file \in Cork /\ file # "absent" /\ file # "empty"
    BY SetupAssumption DEF MetadataIsSettled
  <2>2. \A p \in Cork : phase[p] \notin {"create", "write"}
    BY DEF MetadataIsSettled
  <2>3. PICK p \in Cork :
          Metadata(p) \/ PickSshPort(p) \/ PickCorkPort(p) \/ Commander(p)
            \/ Stage(p) \/ Interrupt(p) \/ ContainerDies(p)
    BY DEF Next
  <2>4. UNCHANGED file
    BY <2>2, <2>3 DEF Metadata, Commander, Begin, StatFile, CreateFile, WriteFile, WriteFails,
      ReadFile, ReadFails, PickSshPort, PickCorkPort, EnsureImage, PullOnce, PullFails,
      EnsureVolume, CreateContainer, AttachToContainer, StartContainer, StartFails, DockerFails,
      Stage, Register,
      SetupDockerCreds, NoDockerConfig, Connect, Finish, Crashes, Interrupt, Kill,
      ContainerDies, Goes, fileVars
  <2>5. \A q \in Cork : phase'[q] \notin {"create", "write"}
    BY <2>1, <2>2, <2>3 DEF IInv, TypeOK, Metadata, Commander, Begin, StatFile, CreateFile,
      WriteFile, WriteFails, ReadFile, ReadFails, PickSshPort, PickCorkPort, EnsureImage,
      PullOnce, PullFails, EnsureVolume, CreateContainer, AttachToContainer, StartContainer,
      StartFails, DockerFails, Stage, Register,
      SetupDockerCreds, NoDockerConfig, Connect, Finish, Crashes, Interrupt, Kill,
      ContainerDies, Goes, Ends
  <2> QED
    BY <2>1, <2>4, <2>5 DEF MetadataIsSettled
<1> QED
  BY <1>1, SetupIInv, PTL DEF Spec, MetadataIsStable

\* A pull that gives up has passed over every key that opens the registry, as a key
\* of a file that does not load, of a file behind one that does, or of a host the
\* search misses while it finds another (PullGivesUpForCause).
THEOREM PullGivesUpForCauseHolds == Spec => PullGivesUpForCause
<1>1. IInv /\ [Next]_vars =>
        [\A p \in Cork : phase[p] = "pull" /\ outcome'[p] = "failed"
           => KeysPassedOver /\ NotPublic]_vars
  <2> SUFFICES ASSUME IInv, Next, NEW q \in Cork, phase[q] = "pull", outcome'[q] = "failed"
               PROVE  KeysPassedOver /\ NotPublic
    OBVIOUS
  <2>1. outcome[q] = "none"
    BY DEF IInv, ContainerFollowsPhase
  <2>2. PICK p \in Cork :
          Metadata(p) \/ PickSshPort(p) \/ PickCorkPort(p) \/ Commander(p)
            \/ Stage(p) \/ Interrupt(p) \/ ContainerDies(p)
    BY DEF Next
  <2>3. PullFails(q)
    BY <2>1, <2>2 DEF IInv, TypeOK, Metadata, Commander, Begin, StatFile, CreateFile,
      WriteFile, WriteFails, ReadFile, ReadFails, PickSshPort, PickCorkPort, EnsureImage,
      PullOnce, PullFails, EnsureVolume, CreateContainer, AttachToContainer, StartContainer,
      StartFails, DockerFails, Stage, Register,
      SetupDockerCreds, NoDockerConfig, Connect, Finish, Crashes, Interrupt, Kill,
      ContainerDies, Goes, Ends
  <2> QED
    BY <2>3 DEF PullFails, IInv, PullMaySucceed
<1> QED
  BY <1>1, SetupIInv, PTL DEF Spec, PullGivesUpForCause

=============================================================================
