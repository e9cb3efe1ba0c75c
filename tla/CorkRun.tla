------------------------------- MODULE CorkRun -------------------------------
(***************************************************************************)
(* One "cork run": the goroutines of the cork process, the container it    *)
(* starts, and the cork server it runs there over ssh.                     *)
(*                                                                         *)
(*   run.go                          executeCorkRun, Control, Ctrl-C       *)
(*   runner.go                       Start, runClient, startSSHCommand     *)
(*   ssh.go                          the goroutine of the ssh session      *)
(*   utils/dockerutils/commander.go  the life of the container             *)
(*   server/main.go                  serve, the startup hook and Kill      *)
(*                                                                         *)
(* How the stage itself is executed is left to StageContract, which        *)
(* StageExecution implements. A run ends when "exit" leaves "none": every  *)
(* goroutine is gone then, and only the container can be left behind.      *)
(***************************************************************************)
EXTENDS Naturals

CONSTANTS
  StageName, StepCount,  \* of StageContract
  MaxRetries,            \* connectClient's attempts (maxRetries in ssh.go)
  Faults                 \* what may go wrong, see the actions that name them

ASSUME RunAssumption ==
  /\ DOMAIN StepCount \subseteq StageName
  /\ \A s \in DOMAIN StepCount : StepCount[s] \in Nat
  /\ MaxRetries \in Nat
  /\ Faults \subseteq {"setup", "docker", "config", "ssh", "env", "hook", "write", "slow"}

VARIABLES
  stage, begun, completed, report,  \* the stage, as in StageContract
  main,        \* control of the main goroutine, in executeCorkRun and Start
  failing,     \* Start is returning an error
  panicking,   \* the main goroutine runs its deferred calls for a panic
  signal,      \* "none", "sent" to the process, or "taken" from Control.Kill
  terminator,  \* control of the goroutine of HandleTerminate
  child,       \* control of the goroutine of OnTerminate
  children,    \* Control.ChildrenCount
  killSignals, \* length of Control.ChildKillSignals
  client,      \* control of the goroutine of runClient
  retries,     \* attempts of connectClient so far
  exported,    \* the exports file was written
  ssh,         \* control of the goroutine that runs the server over ssh
  server,      \* the cork-server process
  container,   \* the container
  closed,      \* CloseWaiter.Close was called
  exit         \* how the process ended

stageVars == <<stage, begun, completed, report>>
mainVars  == <<main, failing, panicking>>
termVars  == <<signal, terminator, child, children, killSignals>>
dockVars  == <<container, closed>>
farVars   == <<client, retries, exported, ssh, server>>
vars == <<stageVars, mainVars, termVars, farVars, dockVars, exit>>

Contract == INSTANCE StageContract

Alive   == exit = "none"
Serving == server \in {"serving", "hookFailed", "stopping"}

TypeOK ==
  /\ stage \in StageName
  /\ begun \in Nat /\ completed \in Nat
  /\ report \in {"none", "ok", "error"}
  /\ main \in {"setup", "create", "attach", "start", "count", "append",
               "creds", "session", "select", "close", "kill", "report"}
  /\ failing \in BOOLEAN /\ panicking \in BOOLEAN
  /\ signal \in {"none", "sent", "taken"}
  /\ terminator \in {"wait", "notify", "send", "waitAll"}
  /\ child \in {"off", "wait", "close", "kill", "sendDone", "ended"}
  /\ children \in 0 .. 1 /\ killSignals \in 0 .. children
  /\ client \in {"off", "connect", "open", "execute", "write", "killServer",
                 "awaitAnswer", "sendEOF", "sendErr", "ended", "panicked"}
  /\ retries \in 0 .. MaxRetries
  /\ exported \in BOOLEAN
  /\ ssh \in {"off", "dial", "run", "sendOk", "sendFailed", "ended"}
  /\ server \in {"off", "starting", "serving", "hookFailed", "stopping",
                 "exitedOk", "exitedFailed"}
  /\ container \in {"none", "created", "running", "gone"}
  /\ closed \in BOOLEAN
  /\ exit \in {"none", "returned", "done", "failed", "terminated", "fatal", "panic"}

Init ==
  /\ Contract!ContractInit
  /\ main = "setup" /\ failing = FALSE /\ panicking = FALSE
  /\ signal = "none" /\ terminator = "wait" /\ child = "off"
  /\ children = 0 /\ killSignals = 0
  /\ client = "off" /\ retries = 0 /\ exported = FALSE
  /\ ssh = "off" /\ server = "off"
  /\ container = "none" /\ closed = FALSE
  /\ exit = "none"

-----------------------------------------------------------------------------
(* The main goroutine. *)

MainGoes(from, to) == Alive /\ main = from /\ main' = to

\* The project metadata, the docker client and the options of the runner.
Setup ==
  /\ MainGoes("setup", "create")
  /\ UNCHANGED <<stageVars, failing, panicking, termVars, farVars, dockVars, exit>>

\* An error here is returned up to main.go, which drops it: the exit status is 0.
SetupFails ==
  /\ Alive /\ main = "setup" /\ "setup" \in Faults
  /\ exit' = "returned"
  /\ UNCHANGED <<stageVars, mainVars, termVars, farVars, dockVars>>

\* Commander.Start: the image, the volume and the container; attach; start.
Create ==
  /\ MainGoes("create", "attach")
  /\ container' = "created"
  /\ UNCHANGED <<stageVars, failing, panicking, termVars, farVars, closed, exit>>

Attach ==
  /\ MainGoes("attach", "start")
  /\ UNCHANGED <<stageVars, failing, panicking, termVars, farVars, dockVars, exit>>

StartContainer ==
  /\ MainGoes("start", "count")
  /\ container' = "running"
  /\ UNCHANGED <<stageVars, failing, panicking, termVars, farVars, closed, exit>>

\* Any of the three fails: the deferred Kill is not yet in place.
CommanderFails ==
  /\ "docker" \in Faults
  /\ Alive /\ main \in {"create", "attach", "start"}
  /\ main' = "report" /\ failing' = TRUE
  /\ UNCHANGED <<stageVars, panicking, termVars, farVars, dockVars, exit>>

\* Faulty variant of CountChild: the slice is extended before the count.
AppendFirst ==
  /\ MainGoes("count", "append")
  /\ killSignals' = killSignals + 1
  /\ UNCHANGED <<stageVars, failing, panicking, signal, terminator, child,
                 children, farVars, dockVars, exit>>

\* AddChild, unsynchronised with the terminator: the count, then the slice.
CountChild ==
  /\ MainGoes("count", "append")
  /\ children' = children + 1
  /\ UNCHANGED <<stageVars, failing, panicking, signal, terminator, child,
                 killSignals, farVars, dockVars, exit>>

AppendChild ==
  /\ MainGoes("append", "creds")
  /\ killSignals' = killSignals + 1 /\ child' = "wait"
  /\ UNCHANGED <<stageVars, failing, panicking, signal, terminator, children,
                 farVars, dockVars, exit>>

\* setupDockerCreds: the credentials are copied by an ssh command of their own.
SetupCreds ==
  /\ container = "running"
  /\ MainGoes("creds", "session")
  /\ UNCHANGED <<stageVars, failing, panicking, termVars, farVars, dockVars, exit>>

\* Without a configuration file auths is nil and auths.Configs a panic, which
\* runs the deferred Kill.
NoDockerConfig ==
  /\ "config" \in Faults
  /\ MainGoes("creds", "close")
  /\ panicking' = TRUE
  /\ UNCHANGED <<stageVars, failing, termVars, farVars, dockVars, exit>>

\* The command of the credentials fails, or there is no ssh agent and no
\* readable key.
CredsFail ==
  /\ "ssh" \in Faults \/ container = "gone"
  /\ MainGoes("creds", "close")
  /\ failing' = TRUE
  /\ UNCHANGED <<stageVars, panicking, termVars, farVars, dockVars, exit>>

\* ssh.Dial failed maxRetries times: log.Fatalf exits the process, and no
\* deferred call is made.
CredsFatal ==
  /\ Alive /\ main = "creds"
  /\ "ssh" \in Faults \/ container = "gone"
  /\ exit' = "fatal"
  /\ UNCHANGED <<stageVars, mainVars, termVars, farVars, dockVars>>

\* startSSHCommand starts the goroutines of the session and of runClient.
OpenSession ==
  /\ MainGoes("session", "select")
  /\ ssh' = "dial" /\ client' = "connect"
  /\ UNCHANGED <<stageVars, failing, panicking, termVars, retries, exported, server,
                 dockVars, exit>>

SessionFails ==
  /\ "ssh" \in Faults
  /\ MainGoes("session", "close")
  /\ failing' = TRUE
  /\ UNCHANGED <<stageVars, panicking, termVars, farVars, dockVars, exit>>

\* Faulty variant of SelectClientErr: the error is logged, the select goes on.
SelectClientErrLogged ==
  /\ Alive /\ main = "select" /\ client = "sendErr"
  /\ client' = "ended"
  /\ UNCHANGED <<stageVars, mainVars, termVars, retries, exported, ssh, server, dockVars, exit>>

SelectClientErr ==
  /\ client = "sendErr" /\ client' = "ended"
  /\ MainGoes("select", "close")
  /\ failing' = TRUE
  /\ UNCHANGED <<stageVars, panicking, termVars, retries, exported, ssh, server, dockVars, exit>>

\* Faulty variants of SelectClientEOF: it is taken for an error; it closes the
\* CloseWaiter, as Kill will.
SelectClientEOFAsError ==
  /\ client = "sendEOF" /\ client' = "ended"
  /\ MainGoes("select", "close")
  /\ failing' = TRUE
  /\ UNCHANGED <<stageVars, panicking, termVars, retries, exported, ssh, server, dockVars, exit>>

SelectClientEOFCloses ==
  /\ Alive /\ main = "select" /\ client = "sendEOF"
  /\ client' = "ended" /\ closed' = TRUE
  /\ UNCHANGED <<stageVars, mainVars, termVars, retries, exported, ssh, server, container, exit>>

SelectClientEOF ==
  /\ Alive /\ main = "select" /\ client = "sendEOF"
  /\ client' = "ended"
  /\ UNCHANGED <<stageVars, mainVars, termVars, retries, exported, ssh, server, dockVars, exit>>

\* Faulty variant of SelectCommandEnd: the error of the command is dropped.
SelectCommandEndUnseen ==
  /\ MainGoes("select", "close")
  /\ ssh \in {"sendOk", "sendFailed"} /\ ssh' = "ended"
  /\ failing' = FALSE
  /\ UNCHANGED <<stageVars, panicking, termVars, client, retries, exported, server, dockVars, exit>>

SelectCommandEnd ==
  /\ MainGoes("select", "close")
  /\ \/ ssh = "sendFailed" /\ failing' = TRUE
     \/ ssh = "sendOk" /\ failing' = FALSE
  /\ ssh' = "ended"
  /\ UNCHANGED <<stageVars, panicking, termVars, client, retries, exported, server, dockVars, exit>>

\* Start has returned to executeCorkRun.
Report ==
  /\ Alive /\ main = "report"
  /\ exit' = IF panicking THEN "panic" ELSE IF failing THEN "failed" ELSE "done"
  /\ UNCHANGED <<stageVars, mainVars, termVars, farVars, dockVars>>

-----------------------------------------------------------------------------
(* DockerCommander.Kill, deferred by Start and called by the child. *)

\* A second close of the CloseWaiter's channel is a panic, which ends the
\* process at once.
Close ==
  \/ closed /\ exit' = "panic" /\ UNCHANGED closed
  \/ ~closed /\ closed' = TRUE /\ UNCHANGED exit

\* The container is killed, and what runs in it; AutoRemove does the rest.
KillContainer ==
  /\ container' = "gone"
  /\ server' = IF server \in {"off", "exitedOk"} THEN server ELSE "exitedFailed"

\* CloseWaiter.Wait or KillContainer fails, and Kill returns; its callers drop
\* the error.
KillFails == "docker" \in Faults /\ UNCHANGED <<container, server>>

MainCloses ==
  /\ Alive /\ main = "close"
  /\ Close
  /\ main' = "kill"
  /\ UNCHANGED <<stageVars, failing, panicking, termVars, farVars, container>>

MainKills ==
  /\ MainGoes("kill", "report")
  /\ KillContainer \/ KillFails
  /\ UNCHANGED <<stageVars, failing, panicking, termVars, client, retries, exported,
                 ssh, closed, exit>>

ChildCloses ==
  /\ Alive /\ child = "close"
  /\ Close
  /\ child' = "kill"
  /\ UNCHANGED <<stageVars, mainVars, signal, terminator, children, killSignals,
                 farVars, container>>

\* Faulty variant of ChildKills: a child that fails to kill does not report.
ChildKillsOrLeaves ==
  /\ Alive /\ child = "kill"
  /\ \/ KillContainer /\ child' = "sendDone"
     \/ KillFails /\ child' = "ended"
  /\ UNCHANGED <<stageVars, mainVars, signal, terminator, children, killSignals,
                 client, retries, exported, ssh, closed, exit>>

ChildKills ==
  /\ Alive /\ child = "kill"
  /\ KillContainer \/ KillFails
  /\ child' = "sendDone"
  /\ UNCHANGED <<stageVars, mainVars, signal, terminator, children, killSignals,
                 client, retries, exported, ssh, closed, exit>>

-----------------------------------------------------------------------------
(* Ctrl-C. Control.Kill holds two signals and only one is ever taken: what    *)
(* comes after the first changes nothing.                                     *)

Interrupt ==
  /\ Alive /\ signal = "none"
  /\ signal' = "sent"
  /\ UNCHANGED <<stageVars, mainVars, terminator, child, children, killSignals,
                 farVars, dockVars, exit>>

TakeSignal ==
  /\ Alive /\ terminator = "wait" /\ signal = "sent"
  /\ signal' = "taken" /\ terminator' = "notify"
  /\ UNCHANGED <<stageVars, mainVars, child, children, killSignals, farVars, dockVars, exit>>

\* NotifyAll ranges over the children appended so far.
NotifyAll ==
  /\ Alive /\ terminator = "notify"
  /\ terminator' = IF killSignals = 0 THEN "waitAll" ELSE "send"
  /\ UNCHANGED <<stageVars, mainVars, signal, child, children, killSignals,
                 farVars, dockVars, exit>>

NotifyChild ==
  /\ Alive /\ terminator = "send" /\ child = "wait"
  /\ terminator' = "waitAll" /\ child' = "close"
  /\ UNCHANGED <<stageVars, mainVars, signal, children, killSignals, farVars, dockVars, exit>>

\* Faulty variant of WaitForAll: the children are notified and not waited for.
WaitForNone ==
  /\ Alive /\ terminator = "waitAll"
  /\ exit' = "terminated"
  /\ UNCHANGED <<stageVars, mainVars, signal, terminator, child, children, killSignals,
                 farVars, dockVars>>

\* WaitForAll receives from Control.Done as often as children are counted.
WaitForAll ==
  /\ Alive /\ terminator = "waitAll"
  /\ \/ children = 0 /\ UNCHANGED child
     \/ children = 1 /\ child = "sendDone" /\ child' = "ended"
  /\ exit' = "terminated"
  /\ UNCHANGED <<stageVars, mainVars, signal, terminator, children, killSignals,
                 farVars, dockVars>>

-----------------------------------------------------------------------------
(* The goroutine of runClient. *)

ClientGoes(from, to) == Alive /\ client = from /\ client' = to

\* Status answers.
Connect ==
  /\ ClientGoes("connect", IF server = "hookFailed" THEN "sendErr" ELSE "open")
  /\ Serving
  /\ UNCHANGED <<stageVars, mainVars, termVars, retries, exported, ssh, server, dockVars, exit>>

RetryConnect ==
  /\ Alive /\ client = "connect" /\ ~Serving /\ retries < MaxRetries
  /\ retries' = retries + 1
  /\ UNCHANGED <<stageVars, mainVars, termVars, client, exported, ssh, server, dockVars, exit>>

\* log.Fatalf exits the process: no deferred call is made.
ConnectFatal ==
  /\ Alive /\ client = "connect" /\ ~Serving /\ retries = MaxRetries
  /\ exit' = "fatal"
  /\ UNCHANGED <<stageVars, mainVars, termVars, farVars, dockVars>>

\* StageExecute opens its stream; a loss of the server may go unnoticed.
OpenStage ==
  /\ ClientGoes("open", "execute")
  /\ UNCHANGED <<stageVars, mainVars, termVars, retries, exported, ssh, server, dockVars, exit>>

\* The server is gone and there is no stream: the request is sent on a nil
\* pointer. The panic of this goroutine ends the process, and no deferred call
\* of the main one is made.
OpenPanics ==
  /\ ClientGoes("open", "panicked")
  /\ server = "exitedFailed"
  /\ exit' = "panic"
  /\ UNCHANGED <<stageVars, mainVars, termVars, retries, exported, ssh, server, dockVars>>

\* The end of StageExecute.
StageOk ==
  /\ ClientGoes("execute", "write")
  /\ Contract!ReportSuccess
  /\ UNCHANGED <<mainVars, termVars, retries, exported, ssh, server, dockVars, exit>>

StageError ==
  /\ ClientGoes("execute", "sendErr")
  /\ Contract!ReportFailure
  /\ UNCHANGED <<mainVars, termVars, retries, exported, ssh, server, dockVars, exit>>

WriteExports ==
  /\ ClientGoes("write", "killServer")
  /\ exported' = TRUE
  /\ UNCHANGED <<stageVars, mainVars, termVars, retries, ssh, server, dockVars, exit>>

WriteFails ==
  /\ "write" \in Faults
  /\ ClientGoes("write", "sendErr")
  /\ UNCHANGED <<stageVars, mainVars, termVars, retries, exported, ssh, server, dockVars, exit>>

\* Faulty variant of KillServer: the handler itself exits.
KillServerAtOnce ==
  /\ ClientGoes("killServer", "awaitAnswer")
  /\ server = "serving" /\ server' = "exitedOk"
  /\ UNCHANGED <<stageVars, mainVars, termVars, retries, exported, ssh, dockVars, exit>>

\* The Kill call: the server answers, and exits half a second later.
KillServer ==
  /\ ClientGoes("killServer", "awaitAnswer")
  /\ server = "serving" /\ server' = "stopping"
  /\ UNCHANGED <<stageVars, mainVars, termVars, retries, exported, ssh, dockVars, exit>>

ServerKilled ==
  /\ ClientGoes("awaitAnswer", "sendEOF")
  /\ UNCHANGED <<stageVars, mainVars, termVars, retries, exported, ssh, server, dockVars, exit>>

\* There is no server to answer any more: it died, or its timer was faster than
\* a slow network.
KillServerFails ==
  /\ \/ server = "exitedFailed" /\ ClientGoes("killServer", "sendErr")
     \/ server = "exitedFailed" /\ ClientGoes("awaitAnswer", "sendErr")
     \/ server = "exitedOk" /\ "slow" \in Faults /\ ClientGoes("awaitAnswer", "sendErr")
  /\ UNCHANGED <<stageVars, mainVars, termVars, retries, exported, ssh, server, dockVars, exit>>

-----------------------------------------------------------------------------
(* The ssh session and the server at its end. *)

\* The session is open and runs cork-server.
Dial ==
  /\ Alive /\ ssh = "dial" /\ container = "running"
  /\ ssh' = "run" /\ server' = "starting"
  /\ UNCHANGED <<stageVars, mainVars, termVars, client, retries, exported, dockVars, exit>>

\* log.Fatalf of connect, as in CredsFatal.
DialFatal ==
  /\ Alive /\ ssh = "dial"
  /\ "ssh" \in Faults \/ container = "gone"
  /\ exit' = "fatal"
  /\ UNCHANGED <<stageVars, mainVars, termVars, farVars, dockVars>>

\* session.Run returns the exit status of cork-server.
SessionEnds ==
  /\ Alive /\ ssh = "run" /\ server \in {"exitedOk", "exitedFailed"}
  /\ ssh' = IF server = "exitedOk" THEN "sendOk" ELSE "sendFailed"
  /\ UNCHANGED <<stageVars, mainVars, termVars, client, retries, exported, server, dockVars, exit>>

\* No session is to be had, or it is lost, and with its terminal the server.
SessionBreaks ==
  /\ "ssh" \in Faults /\ Alive /\ ssh \in {"dial", "run"}
  /\ ssh' = "sendFailed"
  /\ server' = IF server \in {"off", "exitedOk"} THEN server ELSE "exitedFailed"
  /\ UNCHANGED <<stageVars, mainVars, termVars, client, retries, exported, dockVars, exit>>

\* The startup hook is over and Serve is called.
Serve ==
  /\ Alive /\ server = "starting"
  /\ server' \in {"serving"} \cup (IF "hook" \in Faults THEN {"hookFailed"} ELSE {})
  /\ UNCHANGED <<stageVars, mainVars, termVars, client, retries, exported, ssh, dockVars, exit>>

\* The environment file of save-env cannot be loaded: Before returns an error,
\* which main drops, as save-env dropped its own. The exit status is 0.
ServeReturns ==
  /\ Alive /\ server = "starting" /\ "env" \in Faults
  /\ server' = "exitedOk"
  /\ UNCHANGED <<stageVars, mainVars, termVars, client, retries, exported, ssh, dockVars, exit>>

\* cmdServe exits with 1, or the server panics (StageExecution has the case).
ServerDies ==
  /\ Alive /\ server \in {"starting", "serving"} /\ "ssh" \in Faults
  /\ server' = "exitedFailed"
  /\ UNCHANGED <<stageVars, mainVars, termVars, client, retries, exported, ssh, dockVars, exit>>

\* The timer of Kill.
ServerExits ==
  /\ Alive /\ server = "stopping"
  /\ server' = "exitedOk"
  /\ UNCHANGED <<stageVars, mainVars, termVars, client, retries, exported, ssh, dockVars, exit>>

\* The server goes on with the stage while a client executes it.
StageRuns ==
  /\ Alive /\ client = "execute" /\ server = "serving"
  /\ Contract!BeginNext \/ Contract!Complete
  /\ UNCHANGED <<mainVars, termVars, farVars, dockVars, exit>>

-----------------------------------------------------------------------------

Main ==
  \/ Setup \/ SetupFails \/ Create \/ Attach \/ StartContainer \/ CommanderFails
  \/ CountChild \/ AppendChild
  \/ SetupCreds \/ CredsFail \/ CredsFatal \/ NoDockerConfig
  \/ OpenSession \/ SessionFails
  \/ SelectClientErr \/ SelectClientEOF \/ SelectCommandEnd
  \/ MainCloses \/ MainKills \/ Report

Terminator == TakeSignal \/ NotifyAll \/ NotifyChild \/ WaitForAll

Child == ChildCloses \/ ChildKills

Client ==
  \/ Connect \/ RetryConnect \/ ConnectFatal
  \/ OpenStage \/ OpenPanics \/ StageOk \/ StageError
  \/ WriteExports \/ WriteFails \/ KillServer \/ ServerKilled \/ KillServerFails

Session == Dial \/ DialFatal \/ SessionEnds

Server == Serve \/ ServeReturns \/ ServerExits

Next ==
  \/ Main \/ Interrupt \/ Terminator \/ Child \/ Client
  \/ Session \/ SessionBreaks \/ Server \/ ServerDies \/ StageRuns

Spec == Init /\ [][Next]_vars

\* The goroutines of Ctrl-C alone: the stage may run for ever.
InterruptSpec == Spec /\ WF_vars(Terminator) /\ WF_vars(Child)

\* The other goroutines of the process keep running; ssh answers, a server
\* starts, a stage ends.
OthersGoOn ==
  /\ WF_vars(Main) /\ WF_vars(Client) /\ WF_vars(Session)
  /\ WF_vars(Server) /\ WF_vars(StageRuns)

FairSpec == InterruptSpec /\ OthersGoOn

-----------------------------------------------------------------------------
(* Properties. *)

\* "Cork is done!" is printed, with exit status 0, only when every step of the
\* stage is complete and the exports file it names was written.
DoneMeansStageRan ==
  exit = "done" =>
    /\ stage \in DOMAIN StepCount /\ completed = StepCount[stage]
    /\ exported

\* No container is left behind by a run that returns from Start, nor by a
\* Ctrl-C that found the child of Start, unless docker failed.
ContainerRemoved ==
  /\ "docker" \notin Faults
  /\ exit \in {"done", "failed"} \/ (exit = "terminated" /\ children = 1)
  => container = "gone"

\* The process panics for three causes only: the two that call Kill, the deferred
\* one and the child of Ctrl-C, both close the CloseWaiter, for which the child
\* must have been notified; there was no configuration of docker; or the server
\* died, or was killed, between Status and the stream of the stage.
PanicsForCause ==
  exit = "panic" =>
    \/ child \in {"kill", "sendDone"}
    \/ panicking
    \/ client = "panicked" /\ server = "exitedFailed"

\* A run comes to its end whatever fails, if its goroutines and ssh go on.
RunEnds == OthersGoOn => <>(exit # "none")

\* Ctrl-C ends the run once the child of Start is registered, even if the
\* stage never ends.
InterruptEndsRun == (terminator = "notify" /\ killSignals = 1) ~> (exit # "none")

\* The client could not write or kill, or the server or its session broke while
\* the container was still there.
BrokeAfterwards ==
  \/ client = "sendErr"
  \/ container # "gone" /\ (ssh = "sendFailed" \/ server = "exitedFailed")

\* A stage whose exports the client is about to write makes the run succeed,
\* unless it is interrupted or something breaks before its end: neither the end
\* of the killed server (runner.go:277-285) nor that of the client is taken for
\* a failure.
SuccessIsReported ==
  OthersGoOn => ((client = "write" /\ main = "select")
                 ~> (exit = "done" \/ signal # "none" \/ BrokeAfterwards))

\* The cork-server the run talks to is one that keeps its promise, which
\* ServerLifecycle shows of the real one.
Promise == INSTANCE ServerContract

ServerAsPromised == Promise!ServerSpec

\* A user without docker credentials has the run go on without them
\* (setupDockerCreds).
CredentialsAreOptional == ~panicking
=============================================================================
