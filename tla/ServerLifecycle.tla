-------------------------- MODULE ServerLifecycle --------------------------
(***************************************************************************)
(* A cork-server in its container, from the container's start to the       *)
(* server's exit, and the client that waits for it.                        *)
(*                                                                         *)
(*   containers/base/startup.sh         the container's command            *)
(*   ssh.go                             ChooseSSHAgentManager              *)
(*   server/saveenv.go, environment.go  the environment file               *)
(*   server/main.go                     Before, serve, Initialize, Kill    *)
(*   client/client.go, runner.go        Status, Kill and the retries       *)
(*                                                                         *)
(* sshd gives its sessions none of the environment docker gave the         *)
(* container: save-env writes it to a file before sshd runs, and serve     *)
(* loads the file. sshd lets in who has the key of the user's id_rsa.pub,  *)
(* which startup.sh makes in the user's home if there is none, as do the   *)
(* containers of other runs of the user.                                   *)
(***************************************************************************)
EXTENDS Naturals, CommandPath

CONSTANTS
  Name, Value,   \* of environment variables
  Containers,    \* what a container may be, see ServerAssumption
  MaxRetries,    \* connectClient's attempts (maxRetries in ssh.go)
  Faults         \* what may go wrong, see the actions that name them

Empty   == ""         \* os.Getenv of what is not set
NoOne   == "noOne"    \* strings.Split of an empty CORK_VARS: one empty name
PubFile == {"absent", "empty", "whole"}

\* The user's keys: id_rsa and id_rsa.pub, whether his agent has the key cork
\* looks for, and whether that is id_rsa. The environment docker gives, the
\* names in CORK_VARS, whether CORK_ENV_PATH moves the environment file. Whether
\* the definition is valid, the startup hook and whether it succeeds.
ASSUME ServerAssumption ==
  /\ Empty \in Value /\ NoOne \notin Name
  /\ Root \in User
  /\ MaxRetries \in Nat
  /\ Faults \subseteq {"keys", "disk", "port", "lost", "slow"}
  /\ \A c \in Containers :
       /\ c.key \in {"absent", "locked", "open"} /\ c.pub \in PubFile
       /\ c.agent \in BOOLEAN /\ c.same \in BOOLEAN
       /\ c.env \in [Name -> Value] /\ c.vars \in (SUBSET Name) \cup {{NoOne}}
       /\ c.moved \in BOOLEAN /\ c.valid \in BOOLEAN
       /\ c.hook \in File /\ c.succeeds \in BOOLEAN

VARIABLES
  box,          \* the member of Containers this is
  startup,      \* control of startup.sh
  pub,          \* id_rsa.pub in the home of the user
  authorized,   \* authorized_keys of the container
  other,        \* another container of the user that found no id_rsa.pub
  envFile,      \* /cork.env.json: whether it is there, and whole
  server,       \* control of cork-server
  environment,  \* of cork-server
  hook,         \* the startup hook
  initialized,  \* IsInitialized
  killed,       \* the timer of Kill runs
  client,       \* control of connectClient, and of Kill
  retries       \* attempts of connectClient so far

keyVars    == <<pub, authorized, other>>
boxVars    == <<box, startup, envFile, keyVars>>
hookVars   == <<hook, initialized>>
serverVars == <<server, environment, hookVars, killed>>
clientVars == <<client, retries>>
vars == <<boxVars, serverVars, clientVars>>

Exited    == {"exited0", "exited1"}
Listening == server \in {"load", "initialize", "hook", "serve"}

\* What save-env writes.
Saved(c) == [n \in c.vars |-> IF n = NoOne THEN Empty ELSE c.env[n]]

TypeOK ==
  /\ box \in Containers
  /\ startup \in {"begin", "make", "keygen", "copy", "save", "sshd", "stopped"}
  /\ pub \in PubFile /\ authorized \in PubFile
  /\ other \in {"off", "make", "keygen", "done"}
  /\ envFile \in {"absent", "broken", "whole"}
  /\ server \in {"off", "before", "listen", "load", "initialize", "hook", "serve"} \cup Exited
  /\ environment \in [Name -> Value]
  /\ hook \in {"none", "running", "ok", "failed"}
  /\ initialized \in BOOLEAN /\ killed \in BOOLEAN
  /\ client \in {"attempt", "status", "connected", "refused", "fatal", "kill", "done", "failed"}
  /\ retries \in 0 .. MaxRetries

Init ==
  /\ box \in Containers /\ startup = "begin" /\ envFile = "absent"
  /\ pub = box.pub /\ authorized = "absent" /\ other = "off"
  /\ server = "off" /\ environment = [n \in Name |-> Empty]
  /\ hook = "none" /\ initialized = FALSE /\ killed = FALSE
  /\ client = "attempt" /\ retries = 0

-----------------------------------------------------------------------------
(* startup.sh. *)

\* Faulty variant of FindPub: id_rsa.pub is made from id_rsa when that is there.
FindKeyFirst ==
  /\ startup = "begin"
  /\ startup' = IF box.key # "absent" THEN "make" ELSE "copy"
  /\ UNCHANGED <<box, envFile, keyVars, serverVars, clientVars>>

\* Is there an id_rsa.pub, or an id_rsa to make it from?
FindPub ==
  /\ startup = "begin"
  /\ startup' = IF pub # "absent" THEN "copy" ELSE IF box.key # "absent" THEN "make" ELSE "stopped"
  /\ UNCHANGED <<box, envFile, keyVars, serverVars, clientVars>>

\* The shell truncates id_rsa.pub, and then runs ssh-keygen.
TruncatePub ==
  /\ startup = "make" /\ startup' = "keygen" /\ pub' = "empty"
  /\ UNCHANGED <<box, envFile, authorized, other, serverVars, clientVars>>

\* Faulty variant of Keygen: startup.sh goes on whatever fails (no "set -e").
KeygenUnchecked ==
  /\ startup = "keygen" /\ startup' = "copy"
  /\ pub' = IF box.key = "open" THEN "whole" ELSE pub
  /\ UNCHANGED <<box, envFile, authorized, other, serverVars, clientVars>>

\* There is nobody to ask for a passphrase.
Keygen ==
  /\ startup = "keygen"
  /\ IF box.key = "open" THEN startup' = "copy" /\ pub' = "whole"
     ELSE startup' = "stopped" /\ UNCHANGED pub
  /\ UNCHANGED <<box, envFile, authorized, other, serverVars, clientVars>>

\* id_rsa.pub becomes authorized_keys.
CopyPub ==
  /\ startup = "copy" /\ startup' = "save" /\ authorized' = pub
  /\ UNCHANGED <<box, envFile, pub, other, serverVars, clientVars>>

\* Another command of startup.sh fails ("set -eu").
StartupFails ==
  /\ startup \in {"begin", "copy", "save"} /\ "keys" \in Faults /\ startup' = "stopped"
  /\ UNCHANGED <<box, envFile, keyVars, serverVars, clientVars>>

\* FindPub, TruncatePub and Keygen of the container of another run.
OtherContainer ==
  /\ \/ other = "off" /\ pub = "absent" /\ box.key # "absent" /\ other' = "make" /\ UNCHANGED pub
     \/ other = "make" /\ other' = "keygen" /\ pub' = "empty"
     \/ other = "keygen" /\ other' = "done" /\ pub' = IF box.key = "open" THEN "whole" ELSE pub
  /\ UNCHANGED <<box, startup, envFile, authorized, serverVars, clientVars>>

\* cork-server save-env, to where CORK_ENV_PATH says.
SaveEnv ==
  /\ startup = "save" /\ startup' = "sshd"
  /\ envFile' = IF box.moved THEN "absent" ELSE "whole"
  /\ UNCHANGED <<box, keyVars, serverVars, clientVars>>

\* The file cannot be written, or not to its end; main drops the error and exits
\* with 0, so that sshd runs all the same.
SaveEnvFails ==
  /\ startup = "save" /\ "disk" \in Faults /\ startup' = "sshd"
  /\ envFile' \in {"absent", "broken"}
  /\ UNCHANGED <<box, keyVars, serverVars, clientVars>>

-----------------------------------------------------------------------------
(* cork-server --load-env-from-file serve, in an ssh session. *)

ServerGoes(from, to) == server = from /\ server' = to

\* NewSystemSSHAgentManager: SSH_AUTH_SOCK leads to an agent that lists the key.
SystemAgent == box.agent

\* NewInMemorySSHAgentManager: the key's file is read, if it has no passphrase.
InMemoryAgent == box.key = "open"

\* ChooseSSHAgentManager: the second for any error of the first.
HasSigner == SystemAgent \/ InMemoryAgent

\* The ssh session of the run.
StartServer ==
  /\ startup = "sshd" /\ authorized = "whole" /\ HasSigner /\ box.same
  /\ ServerGoes("off", "before")
  /\ UNCHANGED <<boxVars, environment, hookVars, killed, clientVars>>

HasEnv == envFile = "whole" /\ NoOne \notin box.vars

\* Setenv of every variable of the file.
Loaded == [n \in Name |-> IF n \in box.vars THEN Saved(box)[n] ELSE environment[n]]

\* Faulty variant of LoadEnv: an error of LoadEnvFile is only logged.
LoadEnvIfAny ==
  /\ ServerGoes("before", "listen")
  /\ environment' = IF HasEnv THEN Loaded ELSE environment
  /\ UNCHANGED <<boxVars, hookVars, killed, clientVars>>

\* Before: the environment is set before the flags of serve are read from it.
LoadEnv ==
  /\ HasEnv
  /\ ServerGoes("before", "listen")
  /\ environment' = Loaded
  /\ UNCHANGED <<boxVars, hookVars, killed, clientVars>>

\* No file, no JSON, or an empty name, which os.Setenv refuses: Before returns
\* the error, Run returns it, and main drops it.
LoadEnvFails ==
  /\ ~HasEnv
  /\ ServerGoes("before", "exited0")
  /\ UNCHANGED <<boxVars, environment, hookVars, killed, clientVars>>

\* cmdServe binds the port: from now on a client's connection is accepted.
Listen ==
  /\ ServerGoes("listen", "load")
  /\ UNCHANGED <<boxVars, environment, hookVars, killed, clientVars>>

ListenFails ==
  /\ "port" \in Faults
  /\ ServerGoes("listen", "exited1")
  /\ UNCHANGED <<boxVars, environment, hookVars, killed, clientVars>>

\* Faulty variant of LoadDefinition: Serve runs while Initialize does.
LoadAndServe ==
  /\ ServerGoes("load", IF box.valid THEN "serve" ELSE "exited1")
  /\ UNCHANGED <<boxVars, environment, hookVars, killed, clientVars>>

\* newServer.
LoadDefinition ==
  /\ ServerGoes("load", IF box.valid THEN "initialize" ELSE "exited1")
  /\ UNCHANGED <<boxVars, environment, hookVars, killed, clientVars>>

\* Initialize: a hook that is not accepted is as good as none.
Initialize ==
  /\ IF CheckCommandPath(box.hook)
     THEN ServerGoes("initialize", "hook") /\ hook' = "running" /\ UNCHANGED initialized
     ELSE ServerGoes("initialize", "serve") /\ initialized' = TRUE /\ UNCHANGED hook
  /\ UNCHANGED <<boxVars, environment, killed, clientVars>>

\* The hook ends, or cannot be executed in the first place.
HookEnds ==
  LET ok == RootCanExec(box.hook) /\ box.succeeds IN
    /\ ServerGoes("hook", "serve")
    /\ hook' = IF ok THEN "ok" ELSE "failed"
    /\ initialized' = ok
    /\ UNCHANGED <<boxVars, environment, killed, clientVars>>

\* Half a second after Kill.
KillTimer ==
  /\ killed /\ ServerGoes("serve", "exited0")
  /\ UNCHANGED <<boxVars, environment, hookVars, killed, clientVars>>

\* The session is lost, or the container is stopped.
ServerLost ==
  /\ "lost" \in Faults
  /\ server \notin {"off"} \cup Exited /\ server' = "exited1"
  /\ UNCHANGED <<boxVars, environment, hookVars, killed, clientVars>>

-----------------------------------------------------------------------------
(* The client. *)

\* Faulty variant of Attempt: one attempt too many.
AttemptOnceMore ==
  /\ client = "attempt" /\ retries <= MaxRetries /\ Listening
  /\ client' = "status"
  /\ UNCHANGED <<boxVars, serverVars, retries>>

\* connectClient dials without waiting for the connection, and asks for the
\* status without a deadline.
Attempt ==
  /\ client = "attempt" /\ retries < MaxRetries /\ Listening
  /\ client' = "status"
  /\ UNCHANGED <<boxVars, serverVars, retries>>

\* Faulty variant of Retry: the attempt is not counted.
RetryForEver ==
  /\ client = "attempt" /\ retries < MaxRetries /\ ~Listening
  /\ UNCHANGED <<boxVars, serverVars, client, retries>>

\* Nobody listens: sleep, and try again.
Retry ==
  /\ client = "attempt" /\ retries < MaxRetries /\ ~Listening
  /\ retries' = retries + 1
  /\ UNCHANGED <<boxVars, serverVars, client>>

\* log.Fatalf.
GiveUp ==
  /\ client = "attempt" /\ retries = MaxRetries
  /\ client' = "fatal"
  /\ UNCHANGED <<boxVars, serverVars, retries>>

\* Status is answered once Serve runs, whoever was accepted before.
StatusAnswered ==
  /\ client = "status" /\ server = "serve"
  /\ client' = IF initialized THEN "connected" ELSE "refused"
  /\ UNCHANGED <<boxVars, serverVars, retries>>

StatusLost ==
  /\ client = "status" /\ server \in Exited
  /\ client' = "attempt" /\ retries' = retries + 1
  /\ UNCHANGED <<boxVars, serverVars>>

\* Faulty variant of Kill: the handler itself exits.
KillAtOnce ==
  /\ client = "connected" /\ server = "serve"
  /\ client' = "kill" /\ killed' = TRUE /\ server' = "exited0"
  /\ UNCHANGED <<boxVars, environment, hookVars, retries>>

\* The stage is over, and the Kill handler starts its timer.
Kill ==
  /\ client = "connected" /\ server = "serve"
  /\ client' = "kill" /\ killed' = TRUE
  /\ UNCHANGED <<boxVars, server, environment, hookVars, retries>>

KillAnswered ==
  /\ client = "kill" /\ client' = "done"
  /\ server = "serve" \/ server = "exited0"
  /\ UNCHANGED <<boxVars, serverVars, retries>>

KillLost ==
  /\ \/ client \in {"connected", "kill"} /\ server = "exited1"
     \/ client = "kill" /\ server = "exited0" /\ "slow" \in Faults
  /\ client' = "failed"
  /\ UNCHANGED <<boxVars, serverVars, retries>>

-----------------------------------------------------------------------------

Startup ==
  \/ FindPub \/ TruncatePub \/ Keygen \/ CopyPub \/ SaveEnv \/ SaveEnvFails
  \/ StartupFails
Serves  ==
  \/ StartServer \/ LoadEnv \/ LoadEnvFails \/ Listen \/ ListenFails
  \/ LoadDefinition \/ Initialize \/ HookEnds \/ KillTimer
Client  ==
  \/ Attempt \/ Retry \/ GiveUp \/ StatusAnswered \/ StatusLost
  \/ Kill \/ KillAnswered \/ KillLost

Next == Startup \/ OtherContainer \/ Serves \/ ServerLost \/ Client

Spec == Init /\ [][Next]_vars

\* The container, the server and the client go on, and the startup hook ends.
FairSpec == Spec /\ WF_vars(Startup) /\ WF_vars(Serves) /\ WF_vars(Client)

-----------------------------------------------------------------------------
(* Properties. *)

\* The client goes on only with a server whose startup hook is over and did not
\* fail, and gives up for an initialization error only if there was one: a
\* Status that arrives while the hook runs (main.go:388-396) is kept waiting, not
\* answered with what IsInitialized is so far.
StatusTellsTheTruth ==
  /\ client \in {"connected", "kill", "done"} => hook \in {"none", "ok"} /\ initialized
  /\ client = "refused" => hook = "failed"

\* A server that listens has every variable CORK_VARS names as docker set it,
\* although it runs in a session that has none of them (environment.go): a file
\* lost on the way ends it before.
EnvironmentArrives ==
  Listening => \A n \in box.vars : environment[n] = box.env[n]

\* sshd runs with a key to let the user in, unless there was an empty id_rsa.pub
\* to begin with, or another container was at it too (startup.sh:15-25).
KeyIsAuthorized ==
  startup \in {"save", "sshd"} =>
    authorized = "whole" \/ box.pub = "empty" \/ other # "off"

\* Once there is an id_rsa.pub and no container is still making one, it stays as
\* it is: no later run, whatever its keys and wherever it stops, locks the user
\* out.
PubIsSettled ==
  pub = "whole" /\ {startup, other} \cap {"make", "keygen"} = {}

PubIsStable == [][PubIsSettled => PubIsSettled']_vars

\* The permissions of a hook that CheckCommandPath accepts let root execute it: no
\* hook fails for them. Other reasons of the kernel not to execute a file, such as
\* an interpreter that is not there, are part of what a hook does itself.
FailureIsTheHooks == hook = "failed" => RootCanExec(box.hook) /\ ~box.succeeds

\* The server as the run sees it.
Promise == INSTANCE ServerContract WITH server <-
  CASE server = "off" -> "off"
    [] server = "exited0" -> "exitedOk"
    [] server = "exited1" -> "exitedFailed"
    [] server = "serve" /\ killed -> "stopping"
    [] server = "serve" /\ ~killed -> IF initialized THEN "serving" ELSE "hookFailed"
    [] OTHER -> "starting"

\* serve, Initialize, Status and Kill keep the promise CorkRun relies on.
ImplementsServerContract == Promise!ServerSpec

\* The client always learns how it stands: the attempts are bounded while nobody
\* listens, and Status is answered once the hook is over.
ClientLearns == <>(client \in {"connected", "refused", "fatal"})
=============================================================================
