------------------------ MODULE ServerLifecycleProofs ------------------------
(***************************************************************************)
(* Theorems of ServerLifecycle for every container, every number of        *)
(* attempts and all faults: its type invariant and safety invariants, that *)
(* it implements ServerContract, and whom the client may wait for.         *)
(***************************************************************************)
EXTENDS ServerLifecycle, TLAPS

(* The inductive invariant. *)

\* The hook runs between the loading of the definition and Serve, and the server
\* is initialized by it, or by having none.
HookFollowsServer ==
  /\ server \in {"off", "before", "listen", "load", "initialize"} => hook = "none" /\ ~initialized
  /\ server = "hook" => hook = "running" /\ ~initialized
  /\ server = "serve" => hook \in {"none", "ok", "failed"} /\ (initialized <=> hook # "failed")
  /\ initialized => hook \in {"none", "ok"}

\* A hook that runs is one the kernel lets root execute.
HookCanRun == server = "hook" => RootCanExec(box.hook)

\* Only a server that serves an initialized client is told to stop.
KilledWhileServing == killed => server \in {"serve"} \cup Exited /\ initialized

\* An attempt that got as far as Status is not the last one counted.
AttemptsLeft == client = "status" => retries < MaxRetries

\* The environment is there before the server listens.
LoadedBefore ==
  server \in {"listen", "load", "initialize", "hook", "serve"} =>
    \A n \in box.vars : environment[n] = box.env[n]

\* Until another container makes an id_rsa.pub, this one's is empty only if it
\* was, or while it is made here.
PubFollowsStartup ==
  /\ startup = "keygen" /\ other = "off" => pub = "empty"
  /\ startup \in {"begin", "make"} /\ other = "off" => pub = box.pub
  /\ startup = "copy" /\ other = "off" => pub # "absent" /\ (pub = "whole" \/ box.pub = "empty")

IInv ==
  /\ TypeOK /\ HookFollowsServer /\ KilledWhileServing /\ AttemptsLeft /\ LoadedBefore
  /\ HookCanRun /\ PubFollowsStartup
  /\ StatusTellsTheTruth /\ EnvironmentArrives /\ FailureIsTheHooks /\ KeyIsAuthorized

-----------------------------------------------------------------------------

\* Nothing has been started.
LEMMA InitIInv == Init => IInv
<1>1. [n \in Name |-> Empty] \in [Name -> Value] /\ 0 \in 0 .. MaxRetries
  BY ServerAssumption
<1>2. Init => pub \in PubFile
  BY ServerAssumption DEF Init
<1> QED
  BY <1>1, <1>2 DEF Init, IInv, TypeOK, HookFollowsServer, KilledWhileServing, AttemptsLeft,
    LoadedBefore, HookCanRun, PubFollowsStartup, KeyIsAuthorized, PubFile,
    StatusTellsTheTruth, EnvironmentArrives, FailureIsTheHooks, Listening, Exited

\* What the file holds is what docker set.
LEMMA LoadedIsSet ==
  ASSUME TypeOK, HasEnv
  PROVE  /\ Loaded \in [Name -> Value]
         /\ \A n \in box.vars : n \in Name /\ Loaded[n] = box.env[n]
<1>1. box.env \in [Name -> Value] /\ NoOne \notin box.vars /\ box.vars \in SUBSET Name
  BY ServerAssumption DEF TypeOK, HasEnv
<1>2. \A n \in box.vars : Saved(box)[n] = box.env[n]
  BY <1>1 DEF Saved
<1>3. \A n \in Name : (IF n \in box.vars THEN Saved(box)[n] ELSE environment[n]) \in Value
  BY <1>1, <1>2 DEF TypeOK
<1> QED
  BY <1>1, <1>2, <1>3 DEF Loaded

\* What CheckCommandPath accepts, the kernel lets root execute.
LEMMA CheckedCanRun == \A f \in File : CheckCommandPath(f) => RootCanExec(f)
  BY DEF File, CheckCommandPath, RootCanExec

\* The steps of startup.sh, here and in another container.
LEMMA StartupPreserves ==
  ASSUME IInv, Startup \/ OtherContainer
  PROVE  IInv'
<1> USE DEF IInv, TypeOK, HookFollowsServer, KilledWhileServing, AttemptsLeft, LoadedBefore,
          HookCanRun, PubFollowsStartup, KeyIsAuthorized, StatusTellsTheTruth,
          EnvironmentArrives, FailureIsTheHooks, Listening, Exited, PubFile, keyVars,
          serverVars, hookVars, clientVars
<1>1. CASE FindPub
  BY <1>1 DEF FindPub
<1>2. CASE TruncatePub
  BY <1>2 DEF TruncatePub
<1>3. CASE Keygen
  BY <1>3 DEF Keygen
<1>4. CASE CopyPub
  BY <1>4 DEF CopyPub
<1>5. CASE SaveEnv
  BY <1>5 DEF SaveEnv
<1>6. CASE SaveEnvFails
  BY <1>6 DEF SaveEnvFails
<1>7. CASE StartupFails
  BY <1>7 DEF StartupFails
<1>8. CASE OtherContainer
  BY <1>8 DEF OtherContainer
<1> QED
  BY <1>1, <1>2, <1>3, <1>4, <1>5, <1>6, <1>7, <1>8 DEF Startup

\* The steps of the server.
LEMMA ServesPreserves ==
  ASSUME IInv, Serves \/ ServerLost
  PROVE  IInv'
<1> USE DEF IInv, TypeOK, HookFollowsServer, KilledWhileServing, AttemptsLeft, LoadedBefore, HookCanRun,
    PubFollowsStartup, KeyIsAuthorized, keyVars,
          StatusTellsTheTruth, EnvironmentArrives, FailureIsTheHooks, Listening, Exited,
          boxVars, hookVars, clientVars, ServerGoes
<1>1. CASE StartServer
  BY <1>1 DEF StartServer
<1>2. CASE LoadEnv
  <2>1. environment' \in [Name -> Value] /\ \A n \in box.vars : environment'[n] = box.env[n]
    BY <1>2, LoadedIsSet DEF LoadEnv
  <2> QED
    BY <1>2, <2>1 DEF LoadEnv
<1>3. CASE LoadEnvFails
  BY <1>3 DEF LoadEnvFails
<1>4. CASE Listen
  BY <1>4 DEF Listen
<1>5. CASE ListenFails
  BY <1>5 DEF ListenFails
<1>6. CASE LoadDefinition
  BY <1>6 DEF LoadDefinition
<1>7. CASE Initialize
  <2>1. server' = "hook" => RootCanExec(box.hook)
    BY <1>7, CheckedCanRun, ServerAssumption DEF Initialize
  <2> QED
    BY <1>7, <2>1 DEF Initialize
<1>8. CASE HookEnds
  <2>1. PICK ok \in BOOLEAN :
          /\ ok = (RootCanExec(box.hook) /\ box.succeeds)
          /\ server = "hook" /\ server' = "serve"
          /\ hook' = (IF ok THEN "ok" ELSE "failed") /\ initialized' = ok
          /\ UNCHANGED <<boxVars, environment, killed, clientVars>>
    BY <1>8 DEF HookEnds
  <2>2. ~ok => hook' = "failed" /\ ~initialized'
    BY <2>1
  <2>3. ok => hook' = "ok" /\ initialized'
    BY <2>1
  <2>4. FailureIsTheHooks'
    BY <2>1
  <2> QED
    BY <2>1, <2>2, <2>3, <2>4
<1>9. CASE KillTimer
  BY <1>9 DEF KillTimer
<1>10. CASE ServerLost
  BY <1>10 DEF ServerLost
<1> QED
  BY <1>1, <1>2, <1>3, <1>4, <1>5, <1>6, <1>7, <1>8, <1>9, <1>10 DEF Serves

\* The steps of the client.
LEMMA ClientPreserves ==
  ASSUME IInv, Client
  PROVE  IInv'
<1> USE ServerAssumption
    DEF IInv, TypeOK, HookFollowsServer, KilledWhileServing, AttemptsLeft, LoadedBefore, HookCanRun,
    PubFollowsStartup, KeyIsAuthorized, keyVars,
        StatusTellsTheTruth, EnvironmentArrives, FailureIsTheHooks, Listening, Exited,
        boxVars, hookVars, serverVars
<1>1. CASE Attempt
  BY <1>1 DEF Attempt
<1>2. CASE Retry
  BY <1>2 DEF Retry
<1>3. CASE GiveUp
  BY <1>3 DEF GiveUp
<1>4. CASE StatusAnswered
  BY <1>4 DEF StatusAnswered
<1>5. CASE StatusLost
  BY <1>5 DEF StatusLost
<1>6. CASE Kill
  BY <1>6 DEF Kill
<1>7. CASE KillAnswered
  BY <1>7 DEF KillAnswered
<1>8. CASE KillLost
  BY <1>8 DEF KillLost
<1> QED
  BY <1>1, <1>2, <1>3, <1>4, <1>5, <1>6, <1>7, <1>8 DEF Client

\* Every step of script, server and client preserves it.
LEMMA NextIInv == IInv /\ [Next]_vars => IInv'
<1> SUFFICES ASSUME IInv, [Next]_vars PROVE IInv'
  OBVIOUS
<1>1. CASE Next
  BY <1>1, StartupPreserves, ServesPreserves, ClientPreserves DEF Next
<1>2. CASE UNCHANGED vars
  BY <1>2 DEF IInv, TypeOK, HookFollowsServer, KilledWhileServing, AttemptsLeft, LoadedBefore, HookCanRun,
    PubFollowsStartup, KeyIsAuthorized, keyVars,
    StatusTellsTheTruth, EnvironmentArrives, FailureIsTheHooks, Listening, Exited,
    vars, boxVars, serverVars, hookVars, clientVars
<1> QED
  BY <1>1, <1>2

\* The strengthened invariant holds of every behaviour.
THEOREM ServerIInv == Spec => []IInv
<1> QED
  BY InitIInv, NextIInv, PTL DEF Spec

-----------------------------------------------------------------------------

\* The state of the server keeps its types (TypeOK).
THEOREM ServerTypeCorrect == Spec => []TypeOK
<1>1. IInv => TypeOK
  BY DEF IInv
<1> QED
  BY <1>1, ServerIInv, PTL

\* A client goes on, or gives up, for what became of the startup hook.
THEOREM StatusTellsTheTruthHolds == Spec => []StatusTellsTheTruth
<1>1. IInv => StatusTellsTheTruth
  BY DEF IInv
<1> QED
  BY <1>1, ServerIInv, PTL

\* A server that listens has the environment docker gave the container.
THEOREM EnvironmentArrivesHolds == Spec => []EnvironmentArrives
<1>1. IInv => EnvironmentArrives
  BY DEF IInv
<1> QED
  BY <1>1, ServerIInv, PTL

\* A hook the server accepts is never one the kernel refuses.
THEOREM FailureIsTheHooksHolds == Spec => []FailureIsTheHooks
<1>1. IInv => FailureIsTheHooks
  BY DEF IInv
<1> QED
  BY <1>1, ServerIInv, PTL

\* sshd runs with a key unless an empty one was there, or another container was
\* at it too.
THEOREM KeyIsAuthorizedHolds == Spec => []KeyIsAuthorized
<1>1. IInv => KeyIsAuthorized
  BY DEF IInv
<1> QED
  BY <1>1, ServerIInv, PTL

\* A settled id_rsa.pub stays whatever the containers of the user do.
THEOREM PubIsStableHolds == Spec => PubIsStable
<1>1. IInv /\ [Next]_vars => [PubIsSettled => PubIsSettled']_vars
  <2> SUFFICES ASSUME IInv, [Next]_vars, PubIsSettled PROVE PubIsSettled'
    OBVIOUS
  <2> USE DEF IInv, TypeOK, PubIsSettled, PubFile, keyVars, boxVars
  <2>1. CASE Startup
    BY <2>1 DEF Startup, FindPub, TruncatePub, Keygen, CopyPub, SaveEnv, SaveEnvFails, StartupFails
  <2>2. CASE OtherContainer
    BY <2>2 DEF OtherContainer
  <2>3. CASE Serves \/ ServerLost
    BY <2>3 DEF Serves, ServerLost, StartServer, LoadEnv, LoadEnvFails, Listen, ListenFails,
      LoadDefinition, Initialize, HookEnds, KillTimer
  <2>4. CASE Client \/ UNCHANGED vars
    BY <2>4 DEF Client, Attempt, Retry, GiveUp, StatusAnswered, StatusLost, Kill, KillAnswered,
      KillLost, vars
  <2> QED
    BY <2>1, <2>2, <2>3, <2>4 DEF Next
<1> QED
  BY <1>1, ServerIInv, PTL DEF Spec, PubIsStable

-----------------------------------------------------------------------------
(* The refinement. *)

\* The server as the run sees it, as in the definition of Promise.
Seen ==
  CASE server = "off" -> "off"
    [] server = "exited0" -> "exitedOk"
    [] server = "exited1" -> "exitedFailed"
    [] server = "serve" /\ killed -> "stopping"
    [] server = "serve" /\ ~killed -> IF initialized THEN "serving" ELSE "hookFailed"
    [] OTHER -> "starting"

\* The contract begins where the server does.
LEMMA InitPromised == Init => Promise!ServerInit
  BY DEF Init, Promise!ServerInit

\* Every step is one the contract allows, or changes nothing a run sees.
LEMMA StepPromised ==
  ASSUME IInv, [Next]_vars
  PROVE  Promise!ServerNext \/ Seen' = Seen
<1> USE DEF IInv, TypeOK, HookFollowsServer, KilledWhileServing, Exited, Seen, ServerGoes,
          boxVars, hookVars, serverVars, clientVars
<1>1. CASE Startup \/ OtherContainer \/ UNCHANGED vars
  BY <1>1 DEF Startup, OtherContainer, FindPub, TruncatePub, Keygen, CopyPub, SaveEnv,
    SaveEnvFails, StartupFails, vars
<1>2. CASE StartServer
  BY <1>2 DEF StartServer, Promise!ServerNext, Promise!Begin
<1>3. CASE LoadEnv \/ Listen
  BY <1>3 DEF LoadEnv, Listen
<1>4. CASE LoadEnvFails
  BY <1>4 DEF LoadEnvFails, Promise!ServerNext, Promise!GiveUp
<1>5. CASE ListenFails \/ LoadDefinition
  BY <1>5 DEF ListenFails, LoadDefinition, Promise!ServerNext, Promise!Die
<1>6. CASE Initialize \/ HookEnds
  BY <1>6 DEF Initialize, HookEnds, Promise!ServerNext, Promise!Serve
<1>7. CASE KillTimer
  BY <1>7 DEF KillTimer, Promise!ServerNext, Promise!Exit
<1>8. CASE ServerLost
  BY <1>8 DEF ServerLost, Promise!ServerNext, Promise!Die
<1>9. CASE Kill
  BY <1>9 DEF Kill, StatusTellsTheTruth, Promise!ServerNext, Promise!Stop
<1>10. CASE Client /\ ~Kill
  BY <1>10 DEF Client, Attempt, Retry, GiveUp, StatusAnswered, StatusLost, KillAnswered, KillLost
<1> QED
  BY <1>1, <1>2, <1>3, <1>4, <1>5, <1>6, <1>7, <1>8, <1>9, <1>10
    DEF Next, Serves

\* The server, with its environment, its hook and the timer of Kill, does no
\* more than ServerContract allows (ImplementsServerContract).
THEOREM ServerContractImplemented == Spec => ImplementsServerContract
<1>1. IInv /\ [Next]_vars => [Promise!ServerNext]_Seen
  BY StepPromised
<1> QED
  BY <1>1, InitPromised, ServerIInv, PTL DEF Spec, ImplementsServerContract, Promise!ServerSpec, Seen

-----------------------------------------------------------------------------
(* Whom the client waits for. *)

\* When the client can take its next step: the guards of its actions.
ClientCan ==
  \/ client = "attempt"
  \/ client = "status" /\ server \in {"serve"} \cup Exited
  \/ client = "connected" /\ server \in {"serve", "exited1"}
  \/ client = "kill" /\ server \in {"serve"} \cup Exited

\* The client is through: the run has its verdict on the server.
ClientOver == client \in {"refused", "fatal", "done", "failed"}

\* A client that cannot go on has asked for the status of a server that is on its
\* way to Serve, and that needs nobody for it but its startup hook.
ClientWaitsForServe ==
  ClientOver \/ ClientCan \/ (client = "status" /\ server \in {"load", "initialize", "hook"})

\* Who was answered was answered by a server that serves, and only its own Kill
\* lets that server exit with 0.
ClientFollowsServer ==
  /\ client = "status" => Listening \/ server \in Exited
  /\ client \in {"connected", "kill"} => server \in {"serve"} \cup Exited
  /\ client \in {"attempt", "status", "connected"} => ~killed
  /\ client = "connected" => server # "exited0"

\* Each step of the server leaves the client an answer to wait for, or to take.
LEMMA NextClientFollows == IInv /\ ClientFollowsServer /\ [Next]_vars => ClientFollowsServer'
<1> SUFFICES ASSUME IInv, ClientFollowsServer, [Next]_vars PROVE ClientFollowsServer'
  OBVIOUS
<1> USE DEF IInv, TypeOK, ClientFollowsServer, Listening, Exited, ServerGoes,
          boxVars, hookVars, serverVars, clientVars
<1>1. CASE Startup \/ OtherContainer \/ UNCHANGED vars
  BY <1>1 DEF Startup, OtherContainer, FindPub, TruncatePub, Keygen, CopyPub, SaveEnv,
    SaveEnvFails, StartupFails, vars
<1>2. CASE StartServer \/ LoadEnv \/ LoadEnvFails \/ Listen \/ ListenFails
  BY <1>2 DEF StartServer, LoadEnv, LoadEnvFails, Listen, ListenFails
<1>3. CASE LoadDefinition \/ Initialize \/ HookEnds
  BY <1>3 DEF LoadDefinition, Initialize, HookEnds
<1>4. CASE KillTimer \/ ServerLost
  BY <1>4 DEF KillTimer, ServerLost
<1>5. CASE Attempt \/ Retry \/ GiveUp \/ StatusAnswered \/ StatusLost
  BY <1>5 DEF Attempt, Retry, GiveUp, StatusAnswered, StatusLost
<1>6. CASE Kill \/ KillAnswered \/ KillLost
  BY <1>6 DEF Kill, KillAnswered, KillLost
<1> QED
  BY <1>1, <1>2, <1>3, <1>4, <1>5, <1>6 DEF Next, Serves, Client

\* The client never waits for what will not come (ClientWaitsForServe): not for a
\* server that is gone, nor for the end of one that it did not kill.
THEOREM ClientWaitsForServeHolds == Spec => []ClientWaitsForServe
<1>1. Init => ClientFollowsServer
  BY DEF Init, ClientFollowsServer
<1>2. IInv /\ ClientFollowsServer => ClientWaitsForServe
  BY DEF IInv, TypeOK, ClientFollowsServer, ClientWaitsForServe, ClientOver, ClientCan, Listening,
    Exited
<1> QED
  BY <1>1, <1>2, NextClientFollows, ServerIInv, PTL DEF Spec
=============================================================================
