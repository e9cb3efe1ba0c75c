# TLA+ models of cork

cork runs a named *stage* of a project inside a container. The `cork` process
starts the container, opens an ssh session in it to start `cork-server serve`,
connects to that server over gRPC and asks it to execute the stage. The server
has a `definition.yml` that says which steps a stage has: commands run on a
pseudo terminal, exports of what they wrote, further containers, other stages.

This directory holds TLA+ modules of that program, TLC configurations that check
them, and TLAPS proofs. Paths below are relative to the root of the repository.

## Components

| Component | State it keeps | Operations | Talks to |
|---|---|---|---|
| run control: `run.go`, `runner.go`, `ssh.go` | `Control` (children counted, kill channels, `Terminating`), the goroutines of `Start` | `executeCorkRun`, `Start`, `runClient`, `startSSHCommand`, `HandleTerminate`, `OnTerminate` | docker, ssh, the server by gRPC |
| container lifecycle: `utils/dockerutils/commander.go` | container, attached streams, `CloseWaiter` | `Start`, `Kill` | docker |
| server lifecycle: `server/main.go`, `containers/base/startup.sh`, the retries of `runner.go` and `client/client.go` | listener, startup hook result, `IsInitialized`, the timer of `Kill` | `startup.sh`, `serve`, `Initialize`, `CheckInitialization`, `Status`, `Kill`, `connectClient` | the client, the ssh session |
| environment file: `server/environment`, `server/saveenv.go` | `/cork.env.json` | `save-env`, `Before` of `serve` | `startup.sh`, the server |
| ssh keys: `ssh.go`, `containers/base/startup.sh` | `id_rsa.pub` of the user, `authorized_keys` of the container | `ChooseSSHAgentManager`, the key part of `startup.sh` | agent, sshd, the containers of other runs |
| server definition: `server/definition` | stages, params, required params of each stage | `LoadFromBytes`, `Validate`, `ListSteps`, `RequiredUserParamsForStage`, `Render` | read by the executor |
| parameters: `run.go`, `utils/params`, `server/main.go` | provided values, resolved values | options, `LoadParams`, request and response of the handshake | user, stream |
| stage execution: `client/client.go`, `server/main.go`, `server/executor/executor.go` | the stream, the step reached, three channels of a step, the outputs | client loop, stdin copier, handshake, `ExecuteStep` select loop, `receiveInput` | the step runners |
| step runners: `server/executor/{command,export}.go`, `server/streamer` | process, pty, temporary outputs directory | `Run`, `HandleInput`, `getOutputs` | the channels of the executor |
| container step: `server/executor/container.go` | none | none that anything calls | |
| docker credentials and image pull: `utils/dockerutils/{auth,commander}.go` | the image in docker | `NewAuthConfigurationsFromDockerCfg`, `NarrowAuthSearch`, `TryImagePull`, `ExportAuthConfigsFromDockerCfg` | files, credential helpers, registries |
| project metadata: `run.go` 176-211 | `.cork/metadata.json` | `loadCorkProjectMetadata` | disk |
| command line: `main.go`, `init.go`, `ext-run.go` | none | option parsing, files of `cork init` | user |
| gRPC protocol: `protocol` | none | generated code | |

What makes each hard, and what makes it correct:

- **Stage execution.** Five goroutines in two processes. The client has no
  message for success, it takes the end of the stream for it. Input comes from
  a goroutine that knows nothing of steps. A connection may drop while a
  command runs. Correct: success means all steps complete; commands run one at
  a time; the handshake cannot be broken by typing; exports are those of the
  last export step; a lost connection frees the handler; the client returns.
- **Run control and containers.** The end of a run is a race of the client
  goroutine, the ssh session, a half-second timer in the server and Ctrl-C,
  which ends the process through an unsynchronised list of children. Correct:
  "Cork is done!" only after a stage that ran; no container left, unless docker
  refuses or the process dies past its deferred calls; no double close; the run
  ends.
- **Definition.** Stages call stages; validation renders every template with no
  values to learn what it reads; its three maps are per walk. Correct: what an
  accepted definition reads whatever the values are is declared before (behind a
  condition it may not be, see `guarded_lookup`), circles are refused, the
  parameters kept for a stage are those of all its steps.
- **Parameters.** Four sources and two maps walked in any order. Correct:
  precedence of the sources, and every lookup at run time has been asked for.
- **Metadata, ports, containers of several runs.** Any number of cork processes
  share a metadata file that is written in place, the ports of the host, which
  are found free before docker binds them, and docker itself. Every call may
  fail and every process may be interrupted. Correct: one cache per project, a
  run never talks to the container of another one, and a container is left running
  only by a run that docker, a crash or an early Ctrl-C kept from killing it.
- **Docker credentials.** Sequential, with partial failures: the files are tried
  in turn, one bad entry loses a file, and the entries are narrowed by a fuzzy
  search before they are tried. Correct: a pull gives up only if every key that
  would do was passed over in one of the ways the code has for it.
- **Server lifecycle.** The port is bound before the startup hook runs, and
  served after it; the environment takes a way through a file; whether there is
  a key to let the user in depends on files in his home that other containers
  write too. Correct: `Status` tells the truth, the environment arrives, no
  container locks the user out, and the exit status means what the run takes it
  to mean.

`PROJECT.json` lists each hazard with its line.

## Modules

| Module | Models | Kind |
|---|---|---|
| `StageContract` | what a `StageExecute` call promises | abstract specification |
| `StageExecution` | the call itself, client to command | detailed; implements `StageContract` |
| `ServerContract` | what a `cork-server` promises the run that starts it | abstract specification |
| `ServerLifecycle` | the container's command, the server and the client that waits for it | detailed; implements `ServerContract` |
| `CommandPath` | `CheckCommandPath` and what the kernel lets root execute | operators |
| `CorkRun` | one `cork run`; its stage is an instance of `StageContract`, its server one of `ServerContract` | detailed, composed |
| `DockerAuth` | which credentials are tried for an image | operators |
| `RunSetup` | several cork processes on one host, from the metadata to the container | detailed |
| `StageSteps` | steps, `resolveSteps`, what templates look up | operators |
| `Definition` | `Validate` and `walkSteps` | detailed |
| `Parameters` | values from options, file, default and user to the templates | detailed |
| `MC...` | instances for TLC | |
| `...Proofs` | theorems | |

So `StageExecution` implements `StageContract`, and `CorkRun` uses the contract
in its place: `StageRuns` is any step of the contract that reports while the
server serves. In the same way `ServerLifecycle` implements `ServerContract`, and
`CorkRun` is shown to have its server do nothing else (`ServerAsPromised`): what
it assumes of the server's exit statuses and of the timer of `Kill` is what the
detailed server does. `RunSetup` spells out, for many processes at once, the steps
that are `Setup`, `Create`, `Attach` and `StartContainer` in `CorkRun`.

### StageExecution

One action per piece of code between two points where goroutines meet. A
goroutine is a control variable: `client`, `handler`, `receiver`, `runner[i]`;
the environment is `proc[i]` (the command), `typed` (the user) and `connected`.
The stream is two queues, `c2s` and `s2c`. An unbuffered Go channel has no
variable: a goroutine that sends on one is in `"sendInput"`, `"sendError"`,
`"sendDone"`, and the receiving branch of the select moves both. When the handler
returns early nobody receives any more: the runner stays in such a state for ever,
which is the goroutine that the code leaks when a step fails.

- `Open`, `OpenPanics`: `client.StageExecute` opens the stream and sends the first
  message before it looks at the error. With the connection lost there is no
  stream, and the process panics (`client.go:99`): `client` is `"panicked"` for ever.
  A loss that gRPC has not noticed yet goes by `Open`.
- `ClientRecv` ... `ClientRecvError`: the loop; a write to the user's stdout may
  fail, which returns from it. `Type` is the goroutine that copies stdin, started
  only after the params response; it goes on after such a return.
- `RecvRequest`, `RecvParams`, `HandshakeLost`: the handler's handshake.
  `RecvParams` rejects a message that is not the params response.
- `BeginStep`, `RefuseStep`, `SelectInput`, `SelectInputError`, `SelectError`,
  `SelectDone`, `CollectOutputs`, `CollectFails`, `ExecuteReturns`: `Execute`
  and `ExecuteStep`, with the removal of the outputs directory on every return.
- `ReceiveInput`, `ReceiveError`: the receiving goroutine of the executor.
- `Prepare` ... `Wait`: the goroutine of `CommandStepRunner.Run` and the
  `StepStreamer`; `RunExport`: that of an export.
- `HandleInput`: the handler calls into a runner that may not have set its
  streamer yet. The write to a nil streamer is a panic of the server.

A chunk of stdin is one value: what the user types in it does not matter, only
which command it reaches. Outputs and exports carry values, and `Escape` is what
`html/template` does to one it inserts.

### CorkRun

Control of the goroutines of the cork process (`main`, `terminator`, `child`,
`client`, `ssh`), the `server` process, the `container`, and the counters of
`Control`. `AddChild` is two steps, count and append, because nothing orders it
with `NotifyAll`. `exit` tells how the process ended: `"done"` and `"failed"` are
printed by `executeCorkRun`, `"terminated"` is Ctrl-C, `"fatal"` a `log.Fatalf`,
`"panic"` a panic, `"returned"` an error before `Start`. `Connect` is the answered
`Status`, `OpenStage` the stream of the stage; between them the server may die, and
`OpenPanics` ends the process. What may fail is chosen by
`Faults`: `setup` (metadata, docker client), `docker` (any call), `config` (no
docker configuration), `ssh` (sessions break), `env` (no environment file), `hook`
(the startup hook fails), `write` (the exports file), `slow` (the killed server
exits before its answer is read).

### RunSetup, DockerAuth

`RunSetup` has the control of each process in `phase`, an action for each step
between two calls of the operating system or of docker, and an action for each
way such a call may fail. A process stands for the ID that it would generate and
for its container. What the processes share is `file` (which `ioutil.WriteFile`
truncates before it writes it: `CreateFile`, `WriteFile`), the ports of the host
(`Bound` is what docker holds), `image`, `volumes` and `container`. `kill` follows the
`Kill` of the commander: `Register` defers it and gives it to `OnTerminate`, and
each call of it (`Kill`) may fail, which the code drops. After `Register` a process
sets the credentials (`"creds"`: `SetupDockerCreds`, or the panic of `NoDockerConfig`,
which still runs the deferred call) and runs its stage. It ends by `Finish` (`Start`
returns, with or without an error), by `Crashes` (a `log.Fatalf` of `ssh.go` or
`connectClient`, or a panic of the client goroutine: nothing deferred runs), or by
`Interrupt`, which ends a process anywhere and kills only after `Register`. `outcome`
tells which it was. `reached` records
whose container a process connected to, as docker forwards a port to whatever
bound it.

`DockerAuth` says which entries of the docker configurations are tried: `Entries`
tells the two formats apart, `Loads` loses a file for one bad entry, `Loaded` is the
first file that loads, `Narrow` the fuzzy search. The order of the tries is that of
a Go map, so `PullOnce` takes any that is left. A registry's answer depends on the
credential alone; a call of docker that fails without effect is `DockerFails`.

### ServerLifecycle, CommandPath

`startup` is the control of `startup.sh`: `FindPub`, `TruncatePub`, `Keygen` and
`CopyPub` make `authorized_keys` out of the user's files, `SaveEnv` is `save-env`, and
any other command may fail (`StartupFails`), which ends the script. `OtherContainer`
is the same part of the script in the container of another run. `server` follows
`main` and `cmdServe`: `LoadEnv` (`Before`), `Listen`, `LoadDefinition`, `Initialize`,
`HookEnds`, `KillTimer`. From `Listen` on a connection is accepted and a call waits;
it is answered when the server is in `"serve"`. `client` is `connectClient` with its
retries, `Status`, and the `Kill` at the end. The member of `Containers` in `box`
never changes: it is the user's keys, the environment docker gave, and the
definition's startup hook.

`CheckCommandPath` is a predicate of the file's kind, owner, group and permission
bits. `os.Stat` follows links, so its branch for a link is never taken.

### StageSteps, Definition, Parameters

A step is a record of what validation can tell apart: type, name, called stage,
declared outputs, the parameters and outputs its templates look up whatever the
values are (`params`, `reads`), the parameters and outputs it looks up behind a
condition (`guarded`, `hidden`), and whether a template does not parse. Names are
sequences of the parts between dots. `resolveSteps` is `ResolvedAt`, a recursive
function of the depth, and `ResolveBody`, its loop over the steps of a stage; both
return a set of at most one list, empty for an error.

`Definition` has an action per stage walked and per step walked, and one for
each way to be refused. The order of the stages is free, as for a Go map. A
lookup without a dot is a panic (`PanicAtStep`).

`Parameters` applies the options one by one, sends the request, resolves the
parameters in any order, and renders the steps. `missing` are the parameters a
rendering looked up that had not been resolved, `early` the outputs that no step
before had declared. Its lists of steps are those of accepted definitions
(`ListsAssumption`, which is what `OutputsAvailable` says of them). A template may test
an output as well as a parameter, so what is in `hidden` may be looked up as soon as
anything has a value.

## Runs

| Run | Instance | Shows |
|---|---|---|
| `stage` (`StageExecution.cfg`) | stages of at most 4 steps: a dialogue, two with exports, one whose commands have the same name, one whose export comes before its command, one with a step that has no runner, one whose command may not run, one with an export that may fail, an empty one, an unknown one; 2 chunks typed at any time; connection and files may fail; only the goroutines fair | types, `SuccessIsComplete`, `CommandsDoNotOverlap`, `OutputsDirOutlivesCommand`, `HandshakeNeverRejected`, `ExportsDelivered`, `ImplementsContract`, `LostConnectionEndsStage` |
| `prompted` | the dialogue, a user who types only to answer; user and commands fair too | `AnswersReachTheCommand`, `ClientReturns` |
| `interrupted` | Ctrl-C at any time, every fault but docker's and the environment file's | types, `DoneMeansStageRan`, `ContainerRemoved`, `PanicsForCause`, `ServerAsPromised` |
| `run_ends` | Ctrl-C at any time, every fault | `RunEnds`, `InterruptEndsRun`, `SuccessIsReported` |
| `setup` | two processes, three ports, twelve hosts (image there or not, every format and order of configurations); disk, docker, ssh and containers may fail | types, `CacheIsShared`, `MetadataIsStable`, `ReachesItsOwnContainer`, `NoRunningOrphan`, `PullGivesUpForCause` |
| `server` | every state of the user's keys, every startup hook, each way the environment file goes missing; another container at the same time | types, `StatusTellsTheTruth`, `EnvironmentArrives`, `FailureIsTheHooks`, `KeyIsAuthorized`, `PubIsStable`, `ImplementsServerContract`, `ClientLearns` |
| `definition` | every assignment of six bodies to three stages, and one definition for each other cause, among them a chain of four stages, deeper than `MaxDepth`, and a malformed stage step | types, `OutputsAvailable`, `RequiredParamsCollected`, `RefusedForCause`, `LookupsFound` |
| `parameters` | two parameters with every combination of file, option, default; three lists of steps, with a parameter and an output behind conditions | types, `EveryLookupAnswered`, `GivenValuesWin` |

`RefusedForCause` compares validation with a reference that never resolves
stages: a definition is `Circular` if there is a set of stages each of which calls
one of the set. An `ASSUME` of `MCDefinition` compares that in turn with the graph
of the calls and its transitive closure (`Graphs`), for every definition of the run.

`ExportsDelivered` allows an export whose reference no earlier step declares: it
renders to nothing. Validation refuses such a reference when it sees it, and a dot
in a name or a condition in a template can hide it (the stage `hidden`, and the run
`guarded_lookup`).

`OutputsAvailable` and `LookupsFound` speak of the outputs in `reads`, those a step
looks up whatever the values are. Of the ones in `hidden` validation learns nothing:
an accepted definition may look up one of them before it is declared. What becomes of
both at run time is `EveryLookupAnswered` of `Parameters`, which the run `parameters`
checks of lists whose conditions hide nothing that is not seen elsewhere too, and
`guarded_lookup` violates with one that hides a parameter and an output.

`LookupsFound` is stated of names without dots. Validation knows an output as
"step.output", the lookup at run time takes the first two of all parts between
dots: with a dot in a name the two disagree, and the template gets nothing.

`NoRunningOrphan` names the three ways in which an ended process leaves its container
running: docker refused to kill it and `Kill`'s error was dropped (`runner.go:122`),
the process crashed past its deferred calls, or it was interrupted between docker's
start of the container and `OnTerminate`. Each of them happens in the run. In
particular a set-up that fails, a run that returns, and the panic of
`setupDockerCreds` leave none behind for any other reason.

`PullGivesUpForCause` does not promise that a key which opens the registry is tried.
It names the ways in which the code passes one over: its file does not load, for
which one bad entry is enough (`Lost`), a file before it loads (`Shadowed`), or the
fuzzy search misses it and finds another one (`Outmatched`); and a file that loads,
an empty one too, keeps cork from asking without a credential. All of them happen in
the run. What the property excludes is any other way to give up.

`PanicsForCause`: a process panics without a docker configuration, on the stream of a
server that died after `Status`, or when the child of Ctrl-C and the deferred call
both close the `CloseWaiter`. `ClientReturns` counts the panic of the client as an
end of `StageExecute` only if the connection was lost before the handler had taken
the first message.

`KeyIsAuthorized` excuses a container that begins with an empty `id_rsa.pub`, and one
beside which another container makes the file. Both happen: `startup.sh` line 19
truncates the file before `ssh-keygen` runs, `ssh-keygen` fails for a key with a
passphrase, and line 15 of every later run then takes the empty file for a key.
`PubIsStable` says that it takes one of these two to lock the user out: a file that
is whole, with no container at work on it, stays so.

Four runs end in a violation. Each is a disagreement of the code with what the
repository says of it:

| Run | Property | What happens |
|---|---|---|
| `env_lost` | `DoneMeansStageRan` | `server/main.go:324` drops the error of `app.Run`. A server without its environment file exits with status 0, the ssh session ends well, and cork prints "Cork is done!" for a stage that never ran. |
| `no_docker_config` | `CredentialsAreOptional` | `auth.go:180` ranges over the field of a nil pointer when there is no docker configuration (the error is returned at `auth.go:73` and ignored at line 177), though `runner.go:211` treats that case as harmless. |
| `sensitive_shown` | `SensitiveInputHidden` | `server/main.go:105` does not copy `IsSensitive` into the message, so the prompt always echoes. |
| `guarded_lookup` | `EveryLookupAnswered` | templates are rendered without values to learn what they require, so a parameter behind a test of another is never asked for, and an output behind one may be undeclared, against the rule of `server.go:182`. |

Not findings but worth knowing: `client.go:99` sends on the stream before the error
of opening it is looked at (108), so with the server lost since `Status` the stream is
nil and the process panics past its deferred `Kill`, where it means to report the error
(`PanicsForCause` names it, and a container it leaves is one of the exceptions of
`ContainerRemoved` and `NoRunningOrphan`); the commented example of the test server says
that a default stage must be specified, and nothing checks it; and the help for
`CannotRunSSHCommand` at `run.go:305` is never printed, since `ssh.go:79` is the only
place that makes such an error and `ChooseSSHAgentManager` drops it.

### Bounds

- Four steps (`MaxSteps`): two commands with an output of the same name and two
  exports of the same variable, the smallest stage where a wrong order, a wrong
  step or a stale value shows. What may go wrong between steps goes wrong
  between two of them.
- Two chunks of input (`MaxInput`): one for each of two commands, or one too
  many for one.
- A command's script has at most two events: one to print and one to ask.
- Two attempts to connect (`MaxRetries`; the code has 15): the first fails, and
  the last fails.
- Two processes in one project, since every hazard there is one of two; three
  ports, so that two processes that want two each must sometimes meet and may
  also avoid each other (one process may find the same port twice).
- One other container of the user: what it does to `id_rsa.pub` does not depend
  on how many do it. Two variables, one of them empty, and a hook of every kind,
  owner, group and set of permission bits.
- `MaxDepth` is 2: with three stages only circles are deeper than it, and one
  definition has a chain of four; the code has 50, and refuses a chain of more
  stages than that as circular too.
- Deadlock is not checked: all of these programs stop.

### Fairness

`StageExecution`: `ServerSpec` has weak fairness of each goroutine (the Go
scheduler runs what can run) and none of the command, the user or the network.
`FairSpec` adds that a user who is asked answers and that a command goes on with
its script and exits; without that no stage need end, and `ClientReturns` makes
no sense. `CorkRun`: `InterruptSpec` has weak fairness of the two goroutines of
Ctrl-C only, so `InterruptEndsRun` holds though the stage, docker or ssh hang;
`RunEnds` assumes in its own statement (`OthersGoOn`) that the other goroutines
run, and that ssh, server and stage get somewhere. `ServerLifecycle`: weak fairness of
the script, of the server (with it, that the startup hook ends) and of the client;
`ClientLearns` needs the second, as a `Status` call has no deadline. `RunSetup` has no
liveness property. Nothing is fair about faults or about the signal.

### Faulty variants

Definitions marked "Faulty variant of X" are what X would be after a plausible
mistake: a guard dropped, an order swapped, a status ignored. They are in no
specification. Each property of each passing run is violated when one of them
takes the place of X, which shows that the property depends on that code. They
are listed under `mutants` in `PROJECT.json`.

## Proofs

TLC checks instances; these hold for every value of the constants that meets the
`ASSUME`s of the module: any definition, any number of steps, any names and
values, any faults.

- `StageExecutionProofs`: `TypeCorrect`, `SuccessIsCompleteHolds`,
  `ContractImplemented`. The property that success means completion is not
  inductive: it speaks of the client, and the truth is in the goroutines of the
  server. `IInv` follows it there: a report of success in flight exists only if
  the handler succeeded (`SuccessIsReported`); it is then past the last step
  (`WhereTheHandlerIs`); the runners of earlier steps have ended
  (`RunnersFollowTheHandler`); a command runner that ended, or is about to say
  so, saw status 0 (`CommandsFollowTheirRunner`); the outputs were collected
  (`OutputsCollected`). `OutputFollowsTheScript` bounds the forwarded output,
  which typing needs. The refinement takes a step begun when its runner is, and
  complete when the handler has moved past it; the only steps of the contract
  are `BeginStep`, the collection of outputs, the client's last receive and the
  failures, all others stutter.
- `StageOrderProofs`, on top of `IInv`: `CommandsDoNotOverlapHolds`,
  `OutputsDirOutlivesCommandHolds`, `HandshakeNeverRejectedHolds`. The first two
  need `NobodyIsAbandoned`: while the connection stands a runner is at work only
  as long as the handler waits in its select loop, and a command runs only under
  its runner. The last needs `HandshakeInOrder` (`HandshakeInOrderHolds`), on both
  queues at once: what the client may have queued behind its first message as long
  as the handler has not answered it.
- `StageMessageProofs`, on top of both, about what the two queues carry.
  - `ExportsDeliveredHolds`, from `DeliveryInv`: an output that the handler keeps is
    the one of the last step to declare it (`OutputsAreLatest`); nothing is behind
    the report of success (`SuccessIsLast`), so that a client that has it has all;
    and for each variable, what the client will have once its queue is empty
    (`WillBe`) is what the last export step that has run renders to
    (`ExportsOnTheirWay`). `ExportsWrittenHolds` adds that of a stage whose exports
    all refer to an output that an earlier step declares, every variable is
    handed on with a value that one of the steps wrote, never with nothing.
  - `AnswersReachTheCommandHolds`, from `Answers`: there is one unanswered question
    at a time, in one of four places (on its way to the screen, on the screen,
    answered and on its way back, in the receiving goroutine), and it is the last
    one of the command of the current step (`OneQuestion`); `Dialogue` counts
    questions and answers of each command. `OnlyInputFollowsHolds` is what is
    needed of the handshake: nothing but input comes behind it.
  - `WaitsForTheCommandHolds`: no deadlock. When the client, the handler, the
    receiving goroutine and all runners wait, they wait for a command that has
    not exited and whose output is all on the screen; and if it waits for an
    answer, the user, if he types only to answer, has a question that he has not
    answered. It is the safety core of `ClientReturns`. `ProgressInv` names for
    each goroutine the one that is at the work it waits for. The guards of the
    actions are written out (`ClientCan`, ...), as ENABLED is out of reach of the
    prover; on the two configurations of the stage TLC found them equal to it.
- `CorkRunProofs`: `RunTypeCorrect`, `DoneMeansStageRanHolds` (if the environment
  file is there), `ContainerRemovedHolds`, `PanicsForCauseHolds` (from
  `KillsBegun`: as long as the process lives, closed streams mean that one of the two
  that call Kill has begun it, and the other one needs a signal).
  `SuccessIsHandedOn` traces a success from the client through the killed server
  and the ssh session to the exit.
  `KillsRemoveTheContainer` says who may have killed the container, and that
  nobody can before the child is registered. `ServerAsPromisedHolds`: only the
  client that a server serves can tell it to stop, and a session that ends takes
  along a server that runs, never one that has not begun (`NotDialled`).
  `RunGoesOnHolds`: no deadlock of a run, whatever has failed: `WaitInv` says of the
  main goroutine in its select, of the client and of the session that there is a
  server, or the end of one, for what they wait for. `InterruptGoesOnHolds`: Ctrl-C
  is held up only by a child that is counted and was not notified, the one of a
  signal between the two steps of `AddChild`. (Guards written out here too.)
- `RunSetupProofs`: `SetupTypeCorrect`, `CacheIsSharedHolds`, `MetadataIsStableHolds`,
  `ReachesItsOwnContainerHolds`, `NoRunningOrphanHolds`, `PullGivesUpForCauseHolds`, for
  any number of processes and ports and any configurations. `MakersFoundNoFile`
  traces every ID in use to a process that found no file; `ContainerFollowsPhase`
  ties the container, and what became of `Kill`, to where its process is and how it
  ended; `PortsApart` is docker's part; `PullMaySucceed` says that a key is left to
  try unless all were passed over, on lemmas about `Candidates` (`LoadedIsFirst`,
  `KeyIsTried`, `NoneLoaded`).
- `ServerLifecycleProofs`: `ServerTypeCorrect`, `StatusTellsTheTruthHolds`,
  `EnvironmentArrivesHolds`, `FailureIsTheHooksHolds`, `KeyIsAuthorizedHolds`,
  `PubIsStableHolds`, `ServerContractImplemented`. `HookFollowsServer` relates the hook,
  `initialized` and where the server is, which `Status` shows the client only later;
  `KilledWhileServing` is what the refinement needs to tell `Exit` from `GiveUp`;
  `PubFollowsStartup` is what is known of `id_rsa.pub` while the script makes it.
  `ClientWaitsForServeHolds`: whatever fails, the client can go on, or it has asked
  for the status of a server that has bound its port and that goes on to `Serve` or
  its exit by itself.
- `DefinitionProofs`: `DefinitionTypeCorrect`, `OutputsAvailableHolds`,
  `RequiredParamsCollectedHolds`, `LookupsFoundHolds`. `Walk` is what is known of the
  steps walked so far of the current stage, `Stages` what is known of the stages
  done; these use nothing of `ResolveSteps` but that it returns a list of steps or
  none. `RefusedForCauseHolds` is about what it returns, for every definition and
  every `MaxDepth`. `resolveSteps` cannot be proved about by the induction theorems
  of the library, so the proof takes the least depth, or the least step of a list,
  at which a claim fails (`LeastNumber`) and shows that it does not. A circle fails
  at every depth (`CircleFails`); without one, fewer and fewer stages can fail at
  greater depths, each for a call of one that fails below it (`FewerFail`), so that
  only a chain of more than `MaxDepth` + 1 stages is left; and the steps listed are
  those of the stages called, no others (`ListHolds`). `VerdictInvariant` is what the
  walk makes of it, in whatever order: a stage walked has passed, a refusal has a
  stage that fails.
- `ParametersProofs`: `ParametersTypeCorrect`, `GivenValuesWinHolds`, for any
  number of options, and `EveryLookupAnsweredHolds` for definitions that meet
  `Foreseen`: what a template looks up behind a condition is a parameter that is
  asked for without it, or an output that a step before declares. The outputs in
  `reads` need no such assumption, `ListsAssumption` is what validation has made sure
  of. The run `guarded_lookup` shows that `Foreseen` is needed.
  `Provided` says what the options applied so far have left for each parameter,
  `Resolved` what the loader makes of it.

Only model-checked: liveness (`ClientReturns`, `LostConnectionEndsStage`, `RunEnds`,
`InterruptEndsRun`, `SuccessIsReported`, `ClientLearns`), which is beyond TLAPS; of
these, `ClientReturns`, `RunEnds` and `ClientLearns` have a theorem above that nobody
waits there for what will not come. Every safety invariant and
every action property of the passing runs is a theorem, and so are the two
implementations.

## Not modelled

- The container step: `GetRunner` has no runner for its type, so a stage that has
  one fails there, which `StageExecution` shows. Nothing calls the handler of
  `container.go`, which returns at once, nor the code of `executor/step.go`.
- `cork init` (it does nothing yet), the parsing of options, debug logging,
  terminal sizes, colours, the exit status of cork.
- Arguments of commands after rendering: only parameters looked up are.
- The content of the outputs files: any output a step declares, with any value.
- gRPC and ssh beyond FIFO delivery until the connection is lost; agent
  forwarding. Authentication is whether the container has the user's key and
  whether the process can sign with it.
- Reasons of the kernel not to execute a startup hook other than its permissions.
- A registry that refuses a right credential once and takes it later: cork tries
  each credential once.
- `cork.pb.go` is generated; fixtures, images, the web page and the docs.

## Plan

Written, in this order: `StageContract`, `StageExecution`, `CorkRun`, `StageSteps`,
`Definition`, `Parameters`, `DockerAuth`, `RunSetup`, `CommandPath`, `ServerContract`,
`ServerLifecycle`, and the proofs above. To come:

1. `Definition` composed with `StageExecution`: what was validated has every
   reference answered when it runs. Now `LookupsFound` says it of the lists of
   steps, and `ExportsWrittenHolds` of their execution takes it as an assumption
   (`ReferencesDeclared`).
2. `CorkRun` composed with `RunSetup`: that the steps they share are the same is so
   far a matter of reading.
