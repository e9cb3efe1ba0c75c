--------------------------- MODULE StageExecution ---------------------------
(***************************************************************************)
(* One execution of a stage: the StageExecute call of the gRPC service,    *)
(* from the first message of the cork client to the exports it returns.    *)
(*                                                                         *)
(*   client/client.go             the client's StageExecute loop and the   *)
(*                                goroutine that copies its stdin          *)
(*   server/main.go               the handler: handshake, then Execute     *)
(*   server/executor/executor.go  the select loop of a step, and the       *)
(*                                goroutine that receives the input        *)
(*   server/executor/command.go   the goroutine that runs a command        *)
(*   server/executor/export.go    the goroutine that runs an export        *)
(*   server/streamer/streamer.go  the pty of a command and its output      *)
(*                                                                         *)
(* The goroutines of the server meet on unbuffered channels: a send on one *)
(* is a control state ("sendInput", "sendDone", ...) left when the select  *)
(* loop of the handler takes the value.                                    *)
(***************************************************************************)
EXTENDS Naturals, Sequences, FiniteSets

CONSTANTS
  StageName,   \* the stages a user may ask for, known to the server or not
  Definition,  \* the validated steps of the stages of definition.yml
  Name, Key,   \* names of steps, and of the outputs they declare
  Value,       \* what a command may write into an output
  Escape,      \* what html/template makes of a value it inserts in a template
  Empty,       \* what a reference to an output that is not there renders to
  NoValue,     \* no such file, no such output, no such export
  ExportName,  \* names of the variables a stage exports
  MaxSteps,    \* bound: steps of a stage
  MaxInput,    \* bound: chunks of stdin the client sends
  Prompted,    \* TRUE: the user types only to answer a question on the screen
  Faults       \* "drop": the connection may be lost;
               \* "io": a temporary directory, a pty, a file of the server or
               \* the client's stdout may fail

Index == 1 .. MaxSteps

StepType == {"command", "export", "container"}

\* A step after ListSteps. runnable: CheckCommandPath accepts the command.
\* script: what the command does on its terminal. export: the variable of
\* an export step and the output <<step, key>> its value refers to.
StepRecord ==
  [type : StepType, name : Name, outputs : SUBSET Key, runnable : BOOLEAN,
   script : Seq({"print", "ask"}), variable : ExportName, ref : Name \X Key]

ASSUME BoundsAssumption == MaxSteps \in Nat /\ MaxInput \in Nat

ASSUME SwitchesAssumption == Prompted \in BOOLEAN /\ Faults \subseteq {"drop", "io"}

ASSUME ValuesAssumption ==
  /\ Empty \in Value
  /\ NoValue \notin Value
  /\ Escape \in [Value -> Value]

ASSUME DefinitionAssumption ==
  /\ DOMAIN Definition \subseteq StageName
  /\ \A s \in DOMAIN Definition :
       /\ Definition[s] \in Seq(StepRecord)
       /\ Len(Definition[s]) <= MaxSteps

VARIABLES
  stage,      \* the stage named on the command line
  client,     \* control of the client's StageExecute
  result,     \* what StageExecute returned
  exports,    \* the exports map of the client
  copying,    \* go io.Copy(streamer, os.Stdin) was started
  typed,      \* chunks copied from stdin so far
  asked,      \* questions of the command shown on the client's stdout
  c2s, s2c,   \* the two directions of the gRPC stream
  connected,  \* the connection under the stream is up
  handler,    \* control of the server's StageExecute
  cur,        \* the step the handler is at: Len + 1 after the last one
  receiver,   \* control of the receiveInput goroutine
  dir,        \* the temporary outputs directory of step cur
  outputs,    \* Renderer.Outputs
  crashed,    \* the server process died of a panic
  runner,     \* control of the goroutine of each step's runner
  proc,       \* the command of each step
  written,    \* how much of its script it has written on its terminal
  forwarded,  \* how much of that was sent to the client
  stdin,      \* answers written into its terminal
  files,      \* what it left in its outputs directory
  lost        \* a chunk of stdin reached no command

clientVars == <<client, result, exports, copying, typed, asked>>
netVars    == <<c2s, s2c, connected>>
inputVars  == <<receiver, lost>>
stepVars   == <<handler, cur, dir, outputs, crashed>>
runVars    == <<runner, proc, written, forwarded, stdin, files>>
vars == <<stage, clientVars, netVars, inputVars, stepVars, runVars>>

Finished  == {"succeeded", "failed", "rejected"}
LiveProc  == {"running", "detached"}
OutputRef == Name \X Key

Steps == IF stage \in DOMAIN Definition THEN Definition[stage] ELSE <<>>

Message ==
  [type : {"paramsRequest"}]
    \cup [type : {"output"}, text : {"print", "ask"}]
    \cup [type : {"export"}, name : ExportName, value : Value]
    \cup [type : {"status"}, ok : BOOLEAN]

TypeOK ==
  /\ stage \in StageName
  /\ client \in {"open", "receive", "prompt", "done", "panicked"}
  /\ result \in {"none", "ok", "error"}
  /\ exports \in [ExportName -> Value \cup {NoValue}]
  /\ copying \in BOOLEAN
  /\ typed \in 0 .. MaxInput
  /\ asked \in Nat
  /\ c2s \in Seq({"stageExecuteRequest", "paramsResponse", "input"})
  /\ s2c \in Seq(Message)
  /\ connected \in BOOLEAN
  /\ handler \in {"recvRequest", "recvParams", "step", "select", "collect"} \cup Finished
  /\ cur \in 1 .. MaxSteps + 1
  /\ receiver \in {"off", "recv", "sendInput", "sendError"}
  /\ dir \in {"none", "present", "removed"}
  /\ outputs \in [OutputRef -> Value \cup {NoValue}]
  /\ crashed \in BOOLEAN
  /\ runner \in [Index -> {"none", "started", "ready", "copy", "wait",
                           "sendError", "sendDone", "ended"}]
  /\ proc \in [Index -> {"none", "running", "detached", "ok", "failed"}]
  /\ written \in [Index -> Nat]
  /\ forwarded \in [Index -> Nat]
  /\ stdin \in [Index -> Nat]
  /\ files \in [Index -> [Key -> Value \cup {NoValue}]]
  /\ lost \in BOOLEAN

Init ==
  /\ stage \in StageName
  /\ client = "open" /\ result = "none" /\ copying = FALSE
  /\ exports = [e \in ExportName |-> NoValue]
  /\ typed = 0 /\ asked = 0
  /\ c2s = <<>> /\ s2c = <<>> /\ connected = TRUE
  /\ handler = "recvRequest" /\ cur = 1 /\ receiver = "off"
  /\ dir = "none" /\ crashed = FALSE /\ lost = FALSE
  /\ outputs = [r \in OutputRef |-> NoValue]
  /\ runner = [i \in Index |-> "none"]
  /\ proc = [i \in Index |-> "none"]
  /\ written = [i \in Index |-> 0]
  /\ forwarded = [i \in Index |-> 0]
  /\ stdin = [i \in Index |-> 0]
  /\ files = [i \in Index |-> [k \in Key |-> NoValue]]

-----------------------------------------------------------------------------
(* The stream. A message sent on a lost connection is lost with it. *)

ToServer(m) == c2s' = IF connected THEN Append(c2s, m) ELSE c2s

ToClient(m) == s2c' = IF connected THEN Append(s2c, m) ELSE s2c

-----------------------------------------------------------------------------
(* The client. *)

\* Faulty variant of Open: stdin is copied from the moment the stream exists.
OpenAndCopy ==
  /\ client = "open"
  /\ client' = "receive" /\ copying' = TRUE
  /\ ToServer("stageExecuteRequest")
  /\ UNCHANGED <<stage, result, exports, typed, asked, s2c, connected,
                 inputVars, stepVars, runVars>>

\* The stream is opened and the stage asked for; a loss of the connection may
\* go unnoticed.
Open ==
  /\ client = "open"
  /\ client' = "receive"
  /\ ToServer("stageExecuteRequest")
  /\ UNCHANGED <<stage, result, exports, copying, typed, asked, s2c, connected,
                 inputVars, stepVars, runVars>>

\* On a lost connection there is no stream. The request is sent on it before
\* the error is looked at: the process of the client dies on a nil pointer.
OpenPanics ==
  /\ client = "open" /\ ~connected
  /\ client' = "panicked"
  /\ UNCHANGED <<stage, result, exports, copying, typed, asked, netVars,
                 inputVars, stepVars, runVars>>

Returns(r) == client' = "done" /\ result' = r

\* One turn of the receive loop. It ends when a chunk of output cannot be
\* written to stdout; what the caller does then is ConnectionLost.
ClientRecv ==
  /\ client = "receive" /\ s2c # <<>>
  /\ s2c' = Tail(s2c)
  /\ LET event == Head(s2c) IN
       \/ /\ event.type = "output"
          /\ asked' = IF event.text = "ask" THEN asked + 1 ELSE asked
          /\ UNCHANGED <<client, result, exports>>
       \/ /\ event.type = "output" /\ "io" \in Faults
          /\ Returns("error")
          /\ UNCHANGED <<exports, asked>>
       \/ /\ event.type = "paramsRequest"
          /\ client' = "prompt"
          /\ UNCHANGED <<result, exports, asked>>
       \/ /\ event.type = "export"
          /\ exports' = [exports EXCEPT ![event.name] = event.value]
          /\ UNCHANGED <<client, result, asked>>
       \/ /\ event.type = "status"
          /\ Returns(IF event.ok THEN "ok" ELSE "error")
          /\ UNCHANGED <<exports, asked>>
  /\ UNCHANGED <<stage, copying, typed, c2s, connected, inputVars, stepVars, runVars>>

\* LoadParams has an answer for every parameter: it is sent, and from then on
\* stdin is copied to the server.
AnswerParams ==
  /\ client = "prompt"
  /\ client' = "receive" /\ copying' = TRUE
  /\ ToServer("paramsResponse")
  /\ UNCHANGED <<stage, result, exports, typed, asked, s2c, connected,
                 inputVars, stepVars, runVars>>

\* The ParamProvider fails (the interface allows it, the interactive one never
\* does): the client gives up, and its caller kills the container.
ParamsUnanswered ==
  /\ "drop" \in Faults /\ client = "prompt"
  /\ Returns("error")
  /\ connected' = FALSE
  /\ UNCHANGED <<stage, exports, copying, typed, asked, c2s, s2c,
                 inputVars, stepVars, runVars>>

\* The receive loop meets the end of the connection or of the server; what was
\* still in flight may be lost.
ClientRecvError ==
  /\ client = "receive" /\ (~connected \/ crashed)
  /\ Returns("error")
  /\ UNCHANGED <<stage, exports, copying, typed, asked, netVars,
                 inputVars, stepVars, runVars>>

\* The copying goroutine reads a chunk of stdin and sends it, also after
\* StageExecute has returned; the result of the Send is not looked at.
Type ==
  /\ copying /\ typed < MaxInput
  /\ Prompted => typed < asked
  /\ typed' = typed + 1
  /\ IF client = "done" /\ handler \in Finished THEN UNCHANGED c2s ELSE ToServer("input")
  /\ UNCHANGED <<stage, client, result, exports, copying, asked, s2c, connected,
                 inputVars, stepVars, runVars>>

\* The ssh tunnel, the client or the container goes away.
ConnectionLost ==
  /\ "drop" \in Faults /\ connected
  /\ connected' = FALSE
  /\ UNCHANGED <<stage, clientVars, c2s, s2c, inputVars, stepVars, runVars>>

-----------------------------------------------------------------------------
(* The handler: handshake. *)

\* Faulty variant of HandlerReturns: the status carries the state, not a verdict.
HandlerReturnsState(h) ==
  /\ handler' = h
  /\ dir' = IF dir = "present" THEN "removed" ELSE dir
  /\ ToClient([type |-> h, ok |-> h = "succeeded"])

\* The handler returns: the directory of the step it was in is removed by the
\* defer of ExecuteStep and gRPC sends the status to the client.
HandlerReturns(h) ==
  /\ handler' = h
  /\ dir' = IF dir = "present" THEN "removed" ELSE dir
  /\ ToClient([type |-> "status", ok |-> h = "succeeded"])

RecvRequest ==
  /\ ~crashed /\ handler = "recvRequest" /\ c2s # <<>>
  /\ c2s' = Tail(c2s)
  /\ IF Head(c2s) # "stageExecuteRequest" THEN HandlerReturns("rejected")
     ELSE IF stage \notin DOMAIN Definition THEN HandlerReturns("failed")
     ELSE /\ handler' = "recvParams"
          /\ ToClient([type |-> "paramsRequest"])
          /\ UNCHANGED dir
  /\ UNCHANGED <<stage, clientVars, connected, inputVars, cur, outputs, crashed, runVars>>

\* The second message starts Execute, and with it the receiveInput goroutine.
RecvParams ==
  /\ ~crashed /\ handler = "recvParams" /\ c2s # <<>>
  /\ c2s' = Tail(c2s)
  /\ IF Head(c2s) # "paramsResponse"
     THEN HandlerReturns("rejected") /\ UNCHANGED receiver
     ELSE handler' = "step" /\ receiver' = "recv" /\ UNCHANGED <<s2c, dir>>
  /\ UNCHANGED <<stage, clientVars, connected, lost, cur, outputs, crashed, runVars>>

\* Either Recv of the handshake meets the end of the connection.
HandshakeLost ==
  /\ ~crashed /\ handler \in {"recvRequest", "recvParams"} /\ ~connected
  /\ HandlerReturns("failed")
  /\ UNCHANGED <<stage, clientVars, c2s, connected, inputVars, cur, outputs, crashed, runVars>>

-----------------------------------------------------------------------------
(* The handler: the steps. *)

\* GetRunner knows the type, and the factory of a command loads it.
HasRunner(step) == \/ step.type = "export"
                   \/ step.type = "command" /\ step.runnable

\* The directory is made and the goroutine of the runner is started.
BeginStep ==
  /\ ~crashed /\ handler = "step" /\ cur <= Len(Steps)
  /\ HasRunner(Steps[cur])
  /\ handler' = "select" /\ dir' = "present"
  /\ runner' = [runner EXCEPT ![cur] = "started"]
  /\ UNCHANGED <<stage, clientVars, netVars, inputVars, cur, outputs, crashed,
                 proc, written, forwarded, stdin, files>>

\* Faulty variant of RefuseStep: a step without a runner is skipped.
SkipStep ==
  /\ ~crashed /\ handler = "step" /\ cur <= Len(Steps)
  /\ ~HasRunner(Steps[cur])
  /\ cur' = cur + 1
  /\ UNCHANGED <<stage, clientVars, netVars, inputVars, handler, dir, outputs, crashed, runVars>>

\* No runner for the step, or no temporary directory.
RefuseStep ==
  /\ ~crashed /\ handler = "step" /\ cur <= Len(Steps)
  /\ ~HasRunner(Steps[cur]) \/ "io" \in Faults
  /\ HandlerReturns("failed")
  /\ UNCHANGED <<stage, clientVars, c2s, connected, inputVars, cur, outputs, crashed, runVars>>

\* Faulty variant of HandleInput: StepStreamer is assigned after io.Copy.
HandleInputTooLate(i) == IF runner[i] = "copy" THEN {"panic"} ELSE {"lost"}

\* Where a chunk of input may end. StepStreamer and Pty are written by the
\* runner and read here without synchronisation: before the first output went
\* out and was answered the handler may see either as nil. A nil StepStreamer
\* is a panic; writing to a nil Pty is an error that handleInput drops.
HandleInput(i) ==
  IF Steps[i].type = "export" THEN {"lost"}
  ELSE IF forwarded[i] > 0
       THEN {IF proc[i] = "running" THEN "delivered" ELSE "lost"}
       ELSE {"panic"}
              \cup (IF runner[i] = "started" THEN {} ELSE {"lost"})
              \cup (IF proc[i] = "running" THEN {"delivered"} ELSE {})

SelectInput ==
  /\ ~crashed /\ handler = "select" /\ receiver = "sendInput"
  /\ receiver' = "recv"
  /\ \E outcome \in HandleInput(cur) :
       /\ crashed' = (outcome = "panic")
       /\ lost' = (lost \/ outcome # "delivered")
       /\ stdin' = IF outcome = "delivered" THEN [stdin EXCEPT ![cur] = @ + 1] ELSE stdin
  /\ UNCHANGED <<stage, clientVars, netVars, handler, cur, dir, outputs,
                 runner, proc, written, forwarded, files>>

\* Faulty variant of SelectInputError: the select loop goes on without input.
SelectInputErrorIgnored ==
  /\ ~crashed /\ handler = "select" /\ receiver = "sendError"
  /\ receiver' = "off"
  /\ UNCHANGED <<stage, clientVars, netVars, lost, stepVars, runVars>>

SelectInputError ==
  /\ ~crashed /\ handler = "select" /\ receiver = "sendError"
  /\ receiver' = "off"
  /\ HandlerReturns("failed")
  /\ UNCHANGED <<stage, clientVars, c2s, connected, lost, cur, outputs, crashed, runVars>>

\* The runner goes on to a send on DoneChan that nobody will receive.
SelectError ==
  /\ ~crashed /\ handler = "select" /\ runner[cur] = "sendError"
  /\ runner' = [runner EXCEPT ![cur] = "sendDone"]
  /\ HandlerReturns("failed")
  /\ UNCHANGED <<stage, clientVars, c2s, connected, inputVars, cur, outputs, crashed,
                 proc, written, forwarded, stdin, files>>

SelectDone ==
  /\ ~crashed /\ handler = "select" /\ runner[cur] = "sendDone"
  /\ runner' = [runner EXCEPT ![cur] = "ended"]
  /\ handler' = "collect"
  /\ UNCHANGED <<stage, clientVars, netVars, inputVars, cur, dir, outputs, crashed,
                 proc, written, forwarded, stdin, files>>

\* Faulty variant of CollectOutputs: outputs are filed without their step.
CollectOutputsByKey ==
  /\ ~crashed /\ handler = "collect"
  /\ \A k \in Steps[cur].outputs : files[cur][k] # NoValue
  /\ outputs' = [r \in OutputRef |-> IF r[2] \in Steps[cur].outputs
                                     THEN files[cur][r[2]] ELSE outputs[r]]
  /\ handler' = "step" /\ cur' = cur + 1 /\ dir' = "removed"
  /\ UNCHANGED <<stage, clientVars, netVars, inputVars, crashed, runVars>>

\* getOutputs found a file for every declared output: the step is over.
CollectOutputs ==
  /\ ~crashed /\ handler = "collect"
  /\ \A k \in Steps[cur].outputs : files[cur][k] # NoValue
  /\ outputs' = [r \in OutputRef |->
                   IF r[1] = Steps[cur].name /\ r[2] \in Steps[cur].outputs
                   THEN files[cur][r[2]] ELSE outputs[r]]
  /\ handler' = "step" /\ cur' = cur + 1 /\ dir' = "removed"
  /\ UNCHANGED <<stage, clientVars, netVars, inputVars, crashed, runVars>>

CollectFails ==
  /\ ~crashed /\ handler = "collect"
  /\ \/ \E k \in Steps[cur].outputs : files[cur][k] = NoValue
     \/ "io" \in Faults /\ Steps[cur].outputs # {}
  /\ HandlerReturns("failed")
  /\ UNCHANGED <<stage, clientVars, c2s, connected, inputVars, cur, outputs, crashed, runVars>>

\* The last step is over.
ExecuteReturns ==
  /\ ~crashed /\ handler = "step" /\ cur > Len(Steps)
  /\ HandlerReturns("succeeded")
  /\ UNCHANGED <<stage, clientVars, c2s, connected, inputVars, cur, outputs, crashed, runVars>>

-----------------------------------------------------------------------------
(* The receiveInput goroutine. *)

ReceiveInput ==
  /\ ~crashed /\ receiver = "recv" /\ c2s # <<>>
  /\ c2s' = Tail(c2s) /\ receiver' = "sendInput"
  /\ UNCHANGED <<stage, clientVars, s2c, connected, lost, stepVars, runVars>>

\* Faulty variant of ReceiveError: the client half-closes the stream at the end
\* of its stdin.
ReceiveEOF ==
  /\ ~crashed /\ receiver = "recv" /\ c2s = <<>>
  /\ receiver' = "sendError"
  /\ UNCHANGED <<stage, clientVars, netVars, lost, stepVars, runVars>>

\* Recv fails once the connection is lost or the handler has returned.
ReceiveError ==
  /\ ~crashed /\ receiver = "recv" /\ (~connected \/ handler \in Finished)
  /\ receiver' = "sendError"
  /\ UNCHANGED <<stage, clientVars, netVars, lost, stepVars, runVars>>

-----------------------------------------------------------------------------
(* The goroutine of a runner. *)

RunnerAt(i, control) == ~crashed /\ runner[i] = control

RunnerGoes(i, control) == runner' = [runner EXCEPT ![i] = control]

\* ExportStepRunner.Run: the value was resolved when the step began, from the
\* outputs of the steps before it.
RunExport(i) ==
  /\ RunnerAt(i, "started") /\ Steps[i].type = "export"
  /\ RunnerGoes(i, "sendDone")
  /\ LET value == outputs[Steps[i].ref] IN
       ToClient([type |-> "export", name |-> Steps[i].variable,
                 value |-> Escape[IF value = NoValue THEN Empty ELSE value]])
  /\ UNCHANGED <<stage, clientVars, c2s, connected, inputVars, stepVars,
                 proc, written, forwarded, stdin, files>>

\* CommandStepRunner.Run up to the assignment of StepStreamer.
Prepare(i) ==
  /\ RunnerAt(i, "started") /\ Steps[i].type = "command"
  /\ RunnerGoes(i, "ready")
  /\ UNCHANGED <<stage, clientVars, netVars, inputVars, stepVars,
                 proc, written, forwarded, stdin, files>>

StartPty(i) ==
  /\ RunnerAt(i, "ready")
  /\ RunnerGoes(i, "copy")
  /\ proc' = [proc EXCEPT ![i] = "running"]
  /\ UNCHANGED <<stage, clientVars, netVars, inputVars, stepVars,
                 written, forwarded, stdin, files>>

StartPtyFails(i) ==
  /\ RunnerAt(i, "ready") /\ "io" \in Faults
  /\ RunnerGoes(i, "sendError")
  /\ UNCHANGED <<stage, clientVars, netVars, inputVars, stepVars,
                 proc, written, forwarded, stdin, files>>

\* io.Copy moves a chunk from the pty to the stream.
Forward(i) ==
  /\ RunnerAt(i, "copy") /\ forwarded[i] < written[i]
  /\ forwarded' = [forwarded EXCEPT ![i] = @ + 1]
  /\ ToClient([type |-> "output", text |-> Steps[i].script[forwarded[i] + 1]])
  /\ UNCHANGED <<stage, clientVars, c2s, connected, inputVars, stepVars,
                 runner, proc, written, stdin, files>>

\* The Send fails: io.Copy gives up, and the command is left running.
ForwardFails(i) ==
  /\ RunnerAt(i, "copy") /\ forwarded[i] < written[i] /\ ~connected
  /\ RunnerGoes(i, "sendError")
  /\ UNCHANGED <<stage, clientVars, netVars, inputVars, stepVars,
                 proc, written, forwarded, stdin, files>>

\* Faulty variant of Drained: the end of the output is the end of the command.
DrainedIsDone(i) ==
  /\ RunnerAt(i, "copy") /\ forwarded[i] = written[i] /\ proc[i] # "running"
  /\ RunnerGoes(i, "sendDone")
  /\ UNCHANGED <<stage, clientVars, netVars, inputVars, stepVars,
                 proc, written, forwarded, stdin, files>>

\* The terminal is closed at the other end and drained.
Drained(i) ==
  /\ RunnerAt(i, "copy") /\ forwarded[i] = written[i] /\ proc[i] # "running"
  /\ RunnerGoes(i, "wait")
  /\ UNCHANGED <<stage, clientVars, netVars, inputVars, stepVars,
                 proc, written, forwarded, stdin, files>>

\* Faulty variants of Wait: the exit status is ignored; a failure is not sent.
WaitIgnoringStatus(i) ==
  /\ RunnerAt(i, "wait") /\ proc[i] \in {"ok", "failed"}
  /\ RunnerGoes(i, "sendDone")
  /\ UNCHANGED <<stage, clientVars, netVars, inputVars, stepVars,
                 proc, written, forwarded, stdin, files>>

WaitQuietly(i) ==
  /\ RunnerAt(i, "wait") /\ proc[i] \in {"ok", "failed"}
  /\ RunnerGoes(i, IF proc[i] = "ok" THEN "sendDone" ELSE "ended")
  /\ UNCHANGED <<stage, clientVars, netVars, inputVars, stepVars,
                 proc, written, forwarded, stdin, files>>

\* cmd.Wait returns the exit status of the command.
Wait(i) ==
  /\ RunnerAt(i, "wait") /\ proc[i] \in {"ok", "failed"}
  /\ RunnerGoes(i, IF proc[i] = "ok" THEN "sendDone" ELSE "sendError")
  /\ UNCHANGED <<stage, clientVars, netVars, inputVars, stepVars,
                 proc, written, forwarded, stdin, files>>

-----------------------------------------------------------------------------
(* The command, an external program on the terminal of the pty. *)

Questions(i) == Cardinality({k \in 1 .. written[i] : Steps[i].script[k] = "ask"})

\* It has read an answer to each of its questions.
Answered(i) == stdin[i] >= Questions(i)

Prints(i) ==
  /\ ~crashed /\ proc[i] = "running" /\ Answered(i)
  /\ written[i] < Len(Steps[i].script)
  /\ written' = [written EXCEPT ![i] = @ + 1]
  /\ UNCHANGED <<stage, clientVars, netVars, inputVars, stepVars,
                 runner, proc, forwarded, stdin, files>>

\* It closes its terminal before it exits.
Detach(i) ==
  /\ ~crashed /\ proc[i] = "running" /\ Answered(i)
  /\ written[i] = Len(Steps[i].script)
  /\ proc' = [proc EXCEPT ![i] = "detached"]
  /\ UNCHANGED <<stage, clientVars, netVars, inputVars, stepVars,
                 runner, written, forwarded, stdin, files>>

\* It leaves some outputs and exits with status 0.
ExitOk(i) ==
  /\ ~crashed /\ proc[i] \in LiveProc /\ Answered(i)
  /\ written[i] = Len(Steps[i].script)
  /\ proc' = [proc EXCEPT ![i] = "ok"]
  /\ \E left \in [Steps[i].outputs -> Value \cup {NoValue}] :
       files' = [files EXCEPT ![i] =
                   [k \in Key |-> IF k \in Steps[i].outputs THEN left[k] ELSE NoValue]]
  /\ UNCHANGED <<stage, clientVars, netVars, inputVars, stepVars,
                 runner, written, forwarded, stdin>>

ExitFailed(i) ==
  /\ ~crashed /\ proc[i] \in LiveProc
  /\ proc' = [proc EXCEPT ![i] = "failed"]
  /\ UNCHANGED <<stage, clientVars, netVars, inputVars, stepVars,
                 runner, written, forwarded, stdin, files>>

-----------------------------------------------------------------------------

Client == Open \/ OpenPanics \/ ClientRecv \/ AnswerParams \/ ClientRecvError

Handler ==
  \/ RecvRequest \/ RecvParams \/ HandshakeLost
  \/ BeginStep \/ RefuseStep
  \/ SelectInput \/ SelectInputError \/ SelectError \/ SelectDone
  \/ CollectOutputs \/ CollectFails \/ ExecuteReturns

Receiver == ReceiveInput \/ ReceiveError

Runner(i) ==
  \/ RunExport(i)
  \/ Prepare(i) \/ StartPty(i) \/ StartPtyFails(i)
  \/ Forward(i) \/ ForwardFails(i) \/ Drained(i) \/ Wait(i)

Command(i) == Prints(i) \/ Detach(i) \/ ExitOk(i) \/ ExitFailed(i)

Next ==
  \/ Client \/ Type \/ ParamsUnanswered \/ ConnectionLost
  \/ Handler \/ Receiver
  \/ \E i \in Index : Runner(i) \/ Command(i)

Spec == Init /\ [][Next]_vars

\* Every goroutine keeps running while it can: the Go scheduler.
Goroutines ==
  /\ WF_vars(Client) /\ WF_vars(Handler) /\ WF_vars(Receiver)
  /\ \A i \in Index : WF_vars(Runner(i))

\* The goroutines alone: the command may print or sleep for ever, the user may
\* never type.
ServerSpec == Spec /\ Goroutines

\* Besides, the user answers what a command asks, and a command goes on with
\* its script once it is answered, and exits.
FairSpec ==
  /\ ServerSpec
  /\ WF_vars(Type)
  /\ \A i \in Index : WF_vars(Command(i))

-----------------------------------------------------------------------------
(* Properties. *)

\* StageExecute returns no error only if every step of the stage ran to its
\* end: each command exited with status 0, and no runner is left (client.go
\* takes the end of the stream as success).
SuccessIsComplete ==
  result = "ok" =>
    /\ stage \in DOMAIN Definition
    /\ \A i \in 1 .. Len(Steps) :
         /\ runner[i] = "ended"
         /\ Steps[i].type = "command" => proc[i] = "ok"
         /\ \A k \in Steps[i].outputs : files[i][k] # NoValue

\* The step that declares an output, as walkSteps makes sure there is one.
Declares(i, r) == Steps[i].name = r[1] /\ r[2] \in Steps[i].outputs

\* What the template of export step i may render to: the value that the last
\* step to declare its output wrote, or nothing when no step before it does
\* (a dot in a name, or a condition, may hide a reference from walkSteps).
Renders(i, x) ==
  \/ /\ \A j \in 1 .. i - 1 : ~Declares(j, Steps[i].ref)
     /\ x = Escape[Empty]
  \/ \E j \in 1 .. i - 1 :
       /\ Declares(j, Steps[i].ref)
       /\ \A h \in j + 1 .. i - 1 : ~Declares(h, Steps[i].ref)
       /\ x = Escape[files[j][Steps[i].ref[2]]]

\* The exports returned are those of the stage: of every variable the value of
\* its last export step, and that value is the one the command named in the
\* step wrote, as the template engine renders it.
ExportsDelivered ==
  result = "ok" =>
    \A e \in ExportName :
      LET exporters == {i \in 1 .. Len(Steps) :
                          Steps[i].type = "export" /\ Steps[i].variable = e}
      IN IF exporters = {} THEN exports[e] = NoValue
         ELSE \E i \in exporters :
                /\ \A h \in exporters : h <= i
                /\ Renders(i, exports[e])

\* At most one runner works at a time, that of the step the handler is at, and
\* a command of an earlier step is never still running beside it, unless the
\* connection was lost (ForwardFails abandons the command it was copying).
CommandsDoNotOverlap ==
  \A i \in Index :
    /\ runner[i] \notin {"none", "ended"} => i = cur
    /\ proc[i] \in LiveProc => /\ i = cur
                               /\ connected => handler = "select"

\* The outputs directory is not removed under a command that may still write
\* to it, unless the connection was lost.
OutputsDirOutlivesCommand ==
  connected /\ dir = "removed" => \A i \in Index : proc[i] \notin LiveProc

\* When the user types only to answer a question on the screen, no panic of
\* handleInput is possible, an answer goes to the command that asked, and it
\* is lost only if that command failed.
AnswersReachTheCommand ==
  Prompted =>
    /\ ~crashed
    /\ \A i \in Index : stdin[i] > 0 => stdin[i] <= Questions(i)
    /\ lost => \E i \in Index : proc[i] = "failed"

\* The client and the server agree on the order of the handshake whatever the
\* user types and when.
HandshakeNeverRejected == handler # "rejected"

\* StageExecute returns to its caller once commands end and questions are
\* answered, unless the connection was lost before there was a stream: then the
\* process dies of the nil stream, and the server was never asked for the stage.
ClientReturns ==
  <>(\/ client = "done"
     \/ client = "panicked" /\ ~connected /\ handler \in {"recvRequest", "failed"})

\* A lost connection frees the handler whatever the command does: it does not
\* wait for a command that never ends.
LostConnectionEndsStage == ~connected ~> (handler \in Finished \/ crashed)

\* The call as the client sees it: a step is begun when its runner is, and
\* complete when ExecuteStep returned nil for it.
StepCounts == [s \in DOMAIN Definition |-> Len(Definition[s])]

StepsBegun == IF cur \notin Index \/ runner[cur] = "none" THEN cur - 1 ELSE cur

Contract == INSTANCE StageContract WITH
  StepCount <- StepCounts, begun <- StepsBegun, completed <- cur - 1, report <- result

\* The stage is executed as StageContract promises.
ImplementsContract == Contract!ContractSpec
=============================================================================
