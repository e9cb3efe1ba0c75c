------------------------ MODULE StageExecutionProofs ------------------------
(***************************************************************************)
(* Theorems of StageExecution for every stage definition, every number of  *)
(* steps and every amount of input: its type invariant, and that success   *)
(* reported to the client means that every step ran.                       *)
(***************************************************************************)
EXTENDS StageExecution, TLAPS

(* The inductive invariant, one operator for each idea. *)

\* The handler gets past the first message only for a stage it knows, and
\* never past the last step.
WhereTheHandlerIs ==
  /\ handler \in {"recvParams", "step", "select", "collect", "succeeded"}
       => stage \in DOMAIN Definition
  /\ cur <= Len(Steps) + 1
  /\ handler \in {"select", "collect"} => cur <= Len(Steps)
  /\ handler = "succeeded" => cur = Len(Steps) + 1

\* The runners of the steps before cur have ended and those of the steps after
\* it have not begun; the one of cur is where the handler waits for it.
RunnersFollowTheHandler ==
  \A i \in Index :
    /\ runner[i] # "none" => i <= Len(Steps)
    /\ i < cur => runner[i] = "ended"
    /\ i > cur => runner[i] = "none"
    /\ i = cur /\ handler = "step" => runner[i] = "none"
    /\ i = cur /\ handler = "select" => runner[i] \notin {"none", "ended"}
    /\ i = cur /\ handler \in {"recvRequest", "recvParams"} => runner[i] = "none"
    /\ i = cur /\ handler = "collect" => runner[i] = "ended"

\* Only a command has a process, started by its runner; a runner that ended,
\* or that is about to tell the handler it is done, has seen it exit well.
CommandsFollowTheirRunner ==
  \A i \in Index :
    /\ proc[i] # "none" => /\ runner[i] \notin {"none", "started", "ready"}
                           /\ Steps[i].type = "command"
    /\ runner[i] \in {"ready", "copy", "wait"} => Steps[i].type = "command"
    /\ runner[i] = "ended" /\ Steps[i].type = "command" => proc[i] = "ok"
    /\ (/\ runner[i] = "sendDone" /\ handler = "select"
        /\ Steps[i].type = "command") => proc[i] = "ok"

\* A command keeps to its script, and what is sent has been written.
OutputFollowsTheScript ==
  \A i \in Index :
    /\ forwarded[i] <= written[i]
    /\ written[i] > 0 => runner[i] # "none"
    /\ runner[i] # "none" => written[i] <= Len(Steps[i].script)

\* The handler left the steps before cur with all their outputs collected.
OutputsCollected ==
  \A i \in Index : i < cur => \A k \in Steps[i].outputs : files[i][k] # NoValue

\* The only report of success is the one of a handler that succeeded.
OkStatus(m) == m.type = "status" /\ m.ok

SuccessIsReported ==
  /\ \A n \in 1 .. Len(s2c) : OkStatus(s2c[n]) => handler = "succeeded"
  /\ result = "ok" => handler = "succeeded"
  /\ result # "none" => client = "done"

IInv ==
  /\ TypeOK
  /\ WhereTheHandlerIs
  /\ RunnersFollowTheHandler
  /\ CommandsFollowTheirRunner
  /\ OutputFollowsTheScript
  /\ OutputsCollected
  /\ SuccessIsReported

-----------------------------------------------------------------------------
(* The constants and the stream. *)

\* The steps of the stage asked for are well-formed, and no more than MaxSteps.
LEMMA StepsType ==
  /\ Steps \in Seq(StepRecord)
  /\ Len(Steps) \in Nat /\ Len(Steps) <= MaxSteps
<1>1. CASE stage \in DOMAIN Definition
  BY <1>1, DefinitionAssumption, BoundsAssumption DEF Steps
<1>2. CASE stage \notin DOMAIN Definition
  BY <1>2, BoundsAssumption DEF Steps
<1> QED BY <1>1, <1>2

\* The fields of a step of the stage.
LEMMA StepFields ==
  ASSUME NEW i \in 1 .. Len(Steps)
  PROVE  /\ i \in Index
         /\ Steps[i] \in StepRecord
         /\ Steps[i].type \in StepType
         /\ Steps[i].name \in Name
         /\ Steps[i].outputs \subseteq Key
         /\ Steps[i].script \in Seq({"print", "ask"})
         /\ Steps[i].variable \in ExportName
         /\ Steps[i].ref \in OutputRef
<1>1. i \in Index
  BY StepsType, BoundsAssumption DEF Index
<1>2. Steps[i] \in StepRecord
  BY StepsType
<1> QED BY <1>1, <1>2 DEF StepRecord, OutputRef

\* The messages of the server are messages.
LEMMA MessageType ==
  /\ [type |-> "paramsRequest"] \in Message
  /\ \A t \in {"print", "ask"} : [type |-> "output", text |-> t] \in Message
  /\ \A n \in ExportName, x \in Value :
       [type |-> "export", name |-> n, value |-> x] \in Message
  /\ \A ok \in BOOLEAN : [type |-> "status", ok |-> ok] \in Message
BY DEF Message

\* What the client takes out of a message has the type its field promises.
LEMMA MessageFields ==
  ASSUME NEW m \in Message
  PROVE  /\ m.type = "output" => m.text \in {"print", "ask"}
         /\ m.type = "export" => m.name \in ExportName /\ m.value \in Value
         /\ m.type = "status" => m.ok \in BOOLEAN
BY DEF Message

\* What the client sends next keeps the type of its stream.
LEMMA ToServerType ==
  ASSUME c2s \in Seq({"stageExecuteRequest", "paramsResponse", "input"}),
         NEW m \in {"stageExecuteRequest", "paramsResponse", "input"}, ToServer(m)
  PROVE  c2s' \in Seq({"stageExecuteRequest", "paramsResponse", "input"})
BY DEF ToServer

\* Sending one more message adds no report of success, unless it is one.
LEMMA ToClientKeeps ==
  ASSUME s2c \in Seq(Message), NEW m \in Message, ToClient(m)
  PROVE  /\ s2c' \in Seq(Message)
         /\ \A n \in 1 .. Len(s2c') :
              OkStatus(s2c'[n]) => OkStatus(m) \/ \E p \in 1 .. Len(s2c) : OkStatus(s2c[p])
<1>1. CASE connected
  <2>1. s2c' = Append(s2c, m)
    BY <1>1 DEF ToClient
  <2>2. s2c' \in Seq(Message) /\ Len(s2c') = Len(s2c) + 1
    BY <2>1
  <2>3. \A n \in 1 .. Len(s2c') : IF n = Len(s2c) + 1 THEN s2c'[n] = m ELSE n \in 1 .. Len(s2c) /\ s2c'[n] = s2c[n]
    BY <2>1, <2>2
  <2> QED BY <2>2, <2>3
<1>2. CASE ~connected
  BY <1>2 DEF ToClient
<1> QED BY <1>1, <1>2

\* Taking the first message adds none.
LEMMA TailKeeps ==
  ASSUME s2c \in Seq(Message), s2c # <<>>, s2c' = Tail(s2c)
  PROVE  /\ s2c' \in Seq(Message)
         /\ Head(s2c) \in Message /\ Head(s2c) = s2c[1] /\ 1 \in 1 .. Len(s2c)
         /\ \A n \in 1 .. Len(s2c') : n + 1 \in 1 .. Len(s2c) /\ s2c'[n] = s2c[n + 1]
OBVIOUS

-----------------------------------------------------------------------------
(* What the invariant says of the server is about the variables of the     *)
(* handler, the runners and the commands alone.                            *)

ServerInv ==
  /\ WhereTheHandlerIs
  /\ RunnersFollowTheHandler
  /\ CommandsFollowTheirRunner
  /\ OutputFollowsTheScript
  /\ OutputsCollected

\* No step changes the stage, nor its steps.
LEMMA StageStays ==
  ASSUME Next
  PROVE  stage' = stage /\ Steps' = Steps
<1>1. stage' = stage
  BY DEF Next, Client, Open, OpenPanics, ClientRecv, AnswerParams, ClientRecvError, Type,
    ParamsUnanswered, ConnectionLost, Handler, RecvRequest, RecvParams,
    HandshakeLost, BeginStep, RefuseStep, SelectInput, SelectInputError,
    SelectError, SelectDone, CollectOutputs, CollectFails, ExecuteReturns,
    Receiver, ReceiveInput, ReceiveError, Runner, RunExport, Prepare, StartPty,
    StartPtyFails, Forward, ForwardFails, Drained, Wait, Command, Prints, Detach,
    ExitOk, ExitFailed
<1> QED BY <1>1 DEF Steps

\* A step that touches neither the handler nor the runners.
LEMMA ServerInvFrame ==
  ASSUME ServerInv, Next, UNCHANGED <<handler, cur, runVars>>
  PROVE  ServerInv'
BY StageStays DEF ServerInv, WhereTheHandlerIs, RunnersFollowTheHandler,
  CommandsFollowTheirRunner, OutputFollowsTheScript, OutputsCollected, runVars

\* The steps of the client, of the user and of the connection.
LEMMA ClientPreserves ==
  ASSUME IInv, Client \/ Type \/ ParamsUnanswered \/ ConnectionLost
  PROVE  IInv'
<1> USE DEF IInv
<1>1. Next
  BY DEF Next
<1>2. ServerInv'
  <2>1. UNCHANGED <<handler, cur, runVars>>
    BY DEF Client, Open, OpenPanics, ClientRecv, AnswerParams, ClientRecvError, Type,
      ParamsUnanswered, ConnectionLost, stepVars
  <2> QED BY <1>1, <2>1, ServerInvFrame DEF ServerInv
<1>3. CASE Open
  <2>1. TypeOK'
    BY <1>3 DEF TypeOK, Open, ToServer, inputVars, stepVars, runVars, Finished
  <2>2. SuccessIsReported'
    BY <1>3 DEF SuccessIsReported, Open, stepVars
  <2> QED BY <1>2, <2>1, <2>2 DEF ServerInv
<1>3a. CASE OpenPanics
  <2>1. TypeOK'
    BY <1>3a DEF TypeOK, OpenPanics, netVars, inputVars, stepVars, runVars, Finished
  <2>2. SuccessIsReported'
    BY <1>3a DEF SuccessIsReported, OpenPanics, netVars, stepVars
  <2> QED BY <1>2, <2>1, <2>2 DEF ServerInv
<1>4. CASE ClientRecv
  <2>0. /\ s2c' \in Seq(Message)
        /\ Head(s2c) \in Message /\ Head(s2c) = s2c[1] /\ 1 \in 1 .. Len(s2c)
        /\ \A n \in 1 .. Len(s2c') : n + 1 \in 1 .. Len(s2c) /\ s2c'[n] = s2c[n + 1]
    BY <1>4, TailKeeps DEF TypeOK, ClientRecv
  <2>1. TypeOK'
    <3>1. exports' \in [ExportName -> Value \cup {NoValue}]
      BY <1>4, <2>0, MessageFields DEF TypeOK, ClientRecv
    <3>2. asked' \in Nat
      BY <1>4 DEF TypeOK, ClientRecv
    <3>3. client' \in {"receive", "prompt", "done"} /\ result' \in {"none", "ok", "error"}
      BY <1>4 DEF TypeOK, ClientRecv, Returns
    <3>4. UNCHANGED <<stage, copying, typed, c2s, connected, inputVars, stepVars, runVars>>
      BY <1>4 DEF ClientRecv
    <3> QED BY <2>0, <3>1, <3>2, <3>3, <3>4 DEF TypeOK, inputVars, stepVars, runVars, Finished
  <2>2. SuccessIsReported'
    BY <1>4, <2>0 DEF SuccessIsReported, OkStatus, ClientRecv, Returns, stepVars
  <2> QED BY <1>2, <2>1, <2>2 DEF ServerInv
<1>5. CASE AnswerParams
  <2>1. TypeOK'
    BY <1>5 DEF TypeOK, AnswerParams, ToServer, inputVars, stepVars, runVars, Finished
  <2>2. SuccessIsReported'
    BY <1>5 DEF SuccessIsReported, AnswerParams, stepVars
  <2> QED BY <1>2, <2>1, <2>2 DEF ServerInv
<1>6. CASE ClientRecvError
  <2>1. TypeOK'
    BY <1>6 DEF TypeOK, ClientRecvError, Returns, netVars, inputVars, stepVars, runVars, Finished
  <2>2. SuccessIsReported'
    BY <1>6 DEF SuccessIsReported, ClientRecvError, Returns, netVars, stepVars
  <2> QED BY <1>2, <2>1, <2>2 DEF ServerInv
<1>7. CASE Type
  <2>1. TypeOK'
    <3>1. typed' \in 0 .. MaxInput
      BY <1>7, BoundsAssumption DEF TypeOK, Type
    <3>2. c2s' \in Seq({"stageExecuteRequest", "paramsResponse", "input"})
      BY <1>7, ToServerType DEF TypeOK, Type
    <3>3. UNCHANGED <<stage, client, result, exports, copying, asked, s2c, connected,
                      inputVars, stepVars, runVars>>
      BY <1>7 DEF Type
    <3> QED BY <3>1, <3>2, <3>3 DEF TypeOK, inputVars, stepVars, runVars, Finished
  <2>2. SuccessIsReported'
    BY <1>7 DEF SuccessIsReported, Type, stepVars
  <2> QED BY <1>2, <2>1, <2>2 DEF ServerInv
<1>8. CASE ParamsUnanswered
  <2>1. TypeOK'
    BY <1>8 DEF TypeOK, ParamsUnanswered, Returns, inputVars, stepVars, runVars, Finished
  <2>2. SuccessIsReported'
    BY <1>8 DEF SuccessIsReported, ParamsUnanswered, Returns, stepVars
  <2> QED BY <1>2, <2>1, <2>2 DEF ServerInv
<1>9. CASE ConnectionLost
  <2>1. TypeOK'
    <3>1. connected' \in BOOLEAN
      BY <1>9 DEF ConnectionLost
    <3>2. UNCHANGED <<stage, clientVars, c2s, s2c, inputVars, stepVars, runVars>>
      BY <1>9 DEF ConnectionLost
    <3> QED BY <3>1, <3>2 DEF TypeOK, clientVars, inputVars, stepVars, runVars, Finished
  <2>2. SuccessIsReported'
    BY <1>9 DEF SuccessIsReported, ConnectionLost, clientVars, stepVars
  <2> QED BY <1>2, <2>1, <2>2 DEF ServerInv
<1> QED BY <1>3, <1>3a, <1>4, <1>5, <1>6, <1>7, <1>8, <1>9 DEF Client

-----------------------------------------------------------------------------
(* The steps of the handler. *)

\* What a return of the handler leaves: it reports success only if it is one.
LEMMA HandlerReturnsKeeps ==
  ASSUME TypeOK, SuccessIsReported, UNCHANGED <<client, result>>,
         handler \notin Finished, NEW h \in Finished, HandlerReturns(h)
  PROVE  /\ s2c' \in Seq(Message)
         /\ dir' \in {"none", "present", "removed"}
         /\ handler' = h
         /\ SuccessIsReported'
<1> DEFINE status == [type |-> "status", ok |-> h = "succeeded"]
<1>1. status \in Message
  <2>1. (h = "succeeded") \in BOOLEAN
    OBVIOUS
  <2> QED BY <2>1, MessageType
<1>2. OkStatus(status) => h = "succeeded"
  BY DEF OkStatus
<1>3. ToClient(status) /\ handler' = h
  BY DEF HandlerReturns
<1> HIDE DEF status
<1>4. /\ s2c' \in Seq(Message)
      /\ \A n \in 1 .. Len(s2c') :
           OkStatus(s2c'[n]) => OkStatus(status) \/ \E p \in 1 .. Len(s2c) : OkStatus(s2c[p])
  BY <1>1, <1>3, ToClientKeeps DEF TypeOK
<1>5. /\ \A p \in 1 .. Len(s2c) : ~OkStatus(s2c[p])
      /\ result # "ok"
  BY DEF SuccessIsReported, Finished
<1>6. SuccessIsReported'
  BY <1>2, <1>3, <1>4, <1>5 DEF SuccessIsReported
<1>7. dir' \in {"none", "present", "removed"}
  BY DEF HandlerReturns, TypeOK
<1> QED BY <1>3, <1>4, <1>6, <1>7

\* A message that is no report of success leaves SuccessIsReported as it is.
LEMMA ToClientNoStatus ==
  ASSUME TypeOK, SuccessIsReported, UNCHANGED <<client, result>>,
         handler' = handler \/ handler \notin Finished,
         NEW m \in Message, m.type # "status", ToClient(m)
  PROVE  s2c' \in Seq(Message) /\ SuccessIsReported'
<1>1. ~OkStatus(m)
  BY DEF OkStatus
<1>2. /\ s2c' \in Seq(Message)
      /\ \A n \in 1 .. Len(s2c') :
           OkStatus(s2c'[n]) => OkStatus(m) \/ \E p \in 1 .. Len(s2c) : OkStatus(s2c[p])
  BY ToClientKeeps DEF TypeOK
<1>3. SuccessIsReported'
  BY <1>1, <1>2 DEF SuccessIsReported, Finished
<1> QED BY <1>2, <1>3

\* The type invariant of a step of the handler that changes no other variables
\* than these.
LEMMA HandlerTypes ==
  ASSUME TypeOK, UNCHANGED <<stage, clientVars, connected>>,
         c2s' \in Seq({"stageExecuteRequest", "paramsResponse", "input"}),
         s2c' \in Seq(Message),
         handler' \in {"recvRequest", "recvParams", "step", "select", "collect"} \cup Finished,
         dir' \in {"none", "present", "removed"},
         UNCHANGED <<lost, cur, outputs, crashed, runVars>>,
         receiver' \in {"off", "recv", "sendInput", "sendError"}
  PROVE  TypeOK'
BY DEF TypeOK, clientVars, runVars, Finished

\* A return of the handler out of any state: the steps it got through stay done.
LEMMA FailurePreserves ==
  ASSUME IInv, Next, handler \notin Finished,
         NEW h \in {"failed", "rejected"}, HandlerReturns(h),
         c2s' \in Seq({"stageExecuteRequest", "paramsResponse", "input"}),
         receiver' \in {"off", "recv", "sendInput", "sendError"},
         UNCHANGED <<stage, clientVars, connected, lost, cur, outputs, crashed, runVars>>
  PROVE  IInv'
<1> USE DEF IInv
<1>1. /\ s2c' \in Seq(Message)
      /\ dir' \in {"none", "present", "removed"}
      /\ handler' = h
      /\ SuccessIsReported'
  BY HandlerReturnsKeeps DEF clientVars, Finished
<1>2. TypeOK'
  BY <1>1, HandlerTypes DEF Finished
<1>3. WhereTheHandlerIs'
  BY <1>1, StageStays DEF WhereTheHandlerIs
<1>4. RunnersFollowTheHandler'
  BY <1>1, StageStays DEF RunnersFollowTheHandler, runVars
<1>5. CommandsFollowTheirRunner'
  BY <1>1, StageStays DEF CommandsFollowTheirRunner, runVars
<1>6. OutputFollowsTheScript' /\ OutputsCollected'
  BY StageStays DEF OutputFollowsTheScript, OutputsCollected, runVars
<1> QED BY <1>1, <1>2, <1>3, <1>4, <1>5, <1>6

\* The handshake of the handler preserves the invariant.
LEMMA HandshakePreserves ==
  ASSUME IInv, RecvRequest \/ RecvParams \/ HandshakeLost
  PROVE  IInv'
<1> USE DEF IInv
<1>1. Next
  BY DEF Next, Handler
<1>2. ASSUME c2s # <<>>, c2s' = Tail(c2s)
      PROVE  c2s' \in Seq({"stageExecuteRequest", "paramsResponse", "input"})
  BY <1>2 DEF TypeOK
<1>3. CASE RecvRequest
  <2>1. c2s' \in Seq({"stageExecuteRequest", "paramsResponse", "input"})
    BY <1>2, <1>3 DEF RecvRequest
  <2>2. /\ handler = "recvRequest"
        /\ UNCHANGED <<stage, clientVars, connected, inputVars, cur, outputs, crashed, runVars>>
    BY <1>3 DEF RecvRequest
  <2>3. CASE HandlerReturns("rejected") \/ HandlerReturns("failed")
    BY <1>1, <2>1, <2>2, <2>3, FailurePreserves DEF inputVars, Finished, TypeOK
  <2>4. CASE /\ stage \in DOMAIN Definition /\ handler' = "recvParams"
             /\ ToClient([type |-> "paramsRequest"]) /\ UNCHANGED dir
    <3>1. s2c' \in Seq(Message) /\ SuccessIsReported'
      <4>1. [type |-> "paramsRequest"].type # "status"
        OBVIOUS
      <4> QED BY <2>2, <2>4, <4>1, MessageType, ToClientNoStatus DEF clientVars, Finished
    <3>2. TypeOK'
      BY <2>1, <2>2, <2>4, <3>1, HandlerTypes DEF TypeOK, inputVars
    <3>3. WhereTheHandlerIs' /\ RunnersFollowTheHandler'
      BY <1>1, <2>2, <2>4, StageStays DEF WhereTheHandlerIs, RunnersFollowTheHandler, runVars
    <3>4. CommandsFollowTheirRunner' /\ OutputFollowsTheScript' /\ OutputsCollected'
      BY <1>1, <2>2, <2>4, StageStays DEF CommandsFollowTheirRunner,
        OutputFollowsTheScript, OutputsCollected, runVars
    <3> QED BY <3>1, <3>2, <3>3, <3>4
  <2> QED BY <1>3, <2>3, <2>4 DEF RecvRequest
<1>4. CASE RecvParams
  <2>1. c2s' \in Seq({"stageExecuteRequest", "paramsResponse", "input"})
    BY <1>2, <1>4 DEF RecvParams
  <2>2. /\ handler = "recvParams"
        /\ UNCHANGED <<stage, clientVars, connected, lost, cur, outputs, crashed, runVars>>
    BY <1>4 DEF RecvParams
  <2>3. CASE HandlerReturns("rejected") /\ UNCHANGED receiver
    BY <1>1, <2>1, <2>2, <2>3, FailurePreserves DEF Finished, TypeOK
  <2>4. CASE handler' = "step" /\ receiver' = "recv" /\ UNCHANGED <<s2c, dir>>
    <3>1. SuccessIsReported'
      BY <2>2, <2>4 DEF SuccessIsReported, clientVars
    <3>2. TypeOK'
      BY <2>1, <2>2, <2>4, HandlerTypes DEF TypeOK
    <3>3. WhereTheHandlerIs' /\ RunnersFollowTheHandler'
      BY <1>1, <2>2, <2>4, StageStays DEF WhereTheHandlerIs, RunnersFollowTheHandler, runVars
    <3>4. CommandsFollowTheirRunner' /\ OutputFollowsTheScript' /\ OutputsCollected'
      BY <1>1, <2>2, <2>4, StageStays DEF CommandsFollowTheirRunner,
        OutputFollowsTheScript, OutputsCollected, runVars
    <3> QED BY <3>1, <3>2, <3>3, <3>4
  <2> QED BY <1>4, <2>3, <2>4 DEF RecvParams
<1>5. CASE HandshakeLost
  <2>1. UNCHANGED <<stage, clientVars, c2s, connected, inputVars, cur, outputs, crashed, runVars>>
    BY <1>5 DEF HandshakeLost
  <2>2. handler \notin Finished /\ HandlerReturns("failed")
    BY <1>5 DEF HandshakeLost, Finished
  <2> QED BY <1>1, <2>1, <2>2, FailurePreserves DEF inputVars, TypeOK
<1> QED BY <1>3, <1>4, <1>5

\* The select loop of the handler and its way from step to step preserve it.
LEMMA StepsPreserve ==
  ASSUME IInv,
         \/ BeginStep \/ RefuseStep
         \/ SelectInput \/ SelectInputError \/ SelectError \/ SelectDone
         \/ CollectOutputs \/ CollectFails \/ ExecuteReturns
  PROVE  IInv'
<1> USE DEF IInv
<1>1. Next
  BY DEF Next, Handler
<1>2. cur \in 1 .. MaxSteps + 1 /\ handler \notin Finished => cur \in Nat
  BY BoundsAssumption DEF TypeOK
<1>3. cur <= Len(Steps) => cur \in 1 .. Len(Steps) /\ cur \in Index
  BY StepsType, BoundsAssumption DEF TypeOK, Index
<1>4. CASE BeginStep
  <2>1. /\ handler = "step" /\ cur <= Len(Steps) /\ handler' = "select" /\ dir' = "present"
        /\ runner' = [runner EXCEPT ![cur] = "started"]
        /\ UNCHANGED <<stage, clientVars, netVars, inputVars, cur, outputs, crashed,
                       proc, written, forwarded, stdin, files>>
    BY <1>4 DEF BeginStep
  <2>2. runner[cur] = "none" /\ proc[cur] = "none" /\ written[cur] = 0
    BY <1>3, <2>1 DEF TypeOK, RunnersFollowTheHandler, CommandsFollowTheirRunner,
      OutputFollowsTheScript
  <2>3. Len(Steps[cur].script) \in Nat
    BY <1>3, <2>1, StepFields
  <2>4. TypeOK'
    BY <1>3, <2>1 DEF TypeOK, clientVars, netVars, inputVars, Finished
  <2>5. WhereTheHandlerIs'
    BY <1>1, <2>1, StageStays DEF WhereTheHandlerIs
  <2>6. RunnersFollowTheHandler'
    BY <1>1, <1>3, <2>1, StageStays DEF RunnersFollowTheHandler, TypeOK
  <2>7. CommandsFollowTheirRunner'
    <3>1. \A i \in Index : i # cur => runner'[i] = runner[i] /\ runner[i] # "sendDone"
      BY <1>3, <2>1 DEF TypeOK, RunnersFollowTheHandler, Index
    <3>2. runner'[cur] = "started"
      BY <1>3, <2>1 DEF TypeOK
    <3> QED BY <1>1, <2>1, <2>2, <3>1, <3>2, StageStays DEF CommandsFollowTheirRunner
  <2>8. OutputFollowsTheScript' /\ OutputsCollected'
    BY <1>1, <1>3, <2>1, <2>2, <2>3, StageStays DEF OutputFollowsTheScript, OutputsCollected, TypeOK
  <2>9. SuccessIsReported'
    BY <2>1 DEF SuccessIsReported, clientVars, netVars
  <2> QED BY <2>4, <2>5, <2>6, <2>7, <2>8, <2>9
<1>5. CASE RefuseStep
  <2>1. UNCHANGED <<stage, clientVars, c2s, connected, inputVars, cur, outputs, crashed, runVars>>
    BY <1>5 DEF RefuseStep
  <2>2. handler \notin Finished /\ HandlerReturns("failed")
    BY <1>5 DEF RefuseStep, Finished
  <2> QED BY <1>1, <2>1, <2>2, FailurePreserves DEF inputVars, TypeOK
<1>6. CASE SelectInput
  <2>1. /\ handler = "select" /\ receiver' = "recv"
        /\ UNCHANGED <<stage, clientVars, netVars, handler, cur, dir, outputs,
                       runner, proc, written, forwarded, files>>
    BY <1>6 DEF SelectInput
  <2>2. PICK outcome \in HandleInput(cur) :
          /\ crashed' = (outcome = "panic")
          /\ lost' = (lost \/ outcome # "delivered")
          /\ stdin' = IF outcome = "delivered" THEN [stdin EXCEPT ![cur] = @ + 1] ELSE stdin
    BY <1>6 DEF SelectInput
  <2>3. stdin' \in [Index -> Nat]
    BY <1>3, <2>1, <2>2 DEF TypeOK, WhereTheHandlerIs
  <2>4. crashed' \in BOOLEAN /\ lost' \in BOOLEAN
    BY <2>2
  <2>5. TypeOK'
    BY <2>1, <2>3, <2>4 DEF TypeOK, clientVars, netVars, Finished
  <2>6. ServerInv'
    BY <1>1, <2>1, StageStays DEF ServerInv, WhereTheHandlerIs, RunnersFollowTheHandler,
      CommandsFollowTheirRunner, OutputFollowsTheScript, OutputsCollected
  <2>7. SuccessIsReported'
    BY <2>1 DEF SuccessIsReported, clientVars, netVars
  <2> QED BY <2>5, <2>6, <2>7 DEF ServerInv
<1>7. CASE SelectInputError
  <2>1. /\ receiver' = "off"
        /\ UNCHANGED <<stage, clientVars, c2s, connected, lost, cur, outputs, crashed, runVars>>
    BY <1>7 DEF SelectInputError
  <2>2. handler \notin Finished /\ HandlerReturns("failed")
    BY <1>7 DEF SelectInputError, Finished
  <2> QED BY <1>1, <2>1, <2>2, FailurePreserves DEF TypeOK
<1>8. CASE SelectError
  <2>1. /\ handler = "select" /\ runner[cur] = "sendError"
        /\ runner' = [runner EXCEPT ![cur] = "sendDone"]
        /\ UNCHANGED <<stage, clientVars, c2s, connected, inputVars, cur, outputs, crashed,
                       proc, written, forwarded, stdin, files>>
        /\ HandlerReturns("failed")
    BY <1>8 DEF SelectError
  <2>2. /\ s2c' \in Seq(Message)
        /\ dir' \in {"none", "present", "removed"}
        /\ handler' = "failed"
        /\ SuccessIsReported'
    BY <2>1, HandlerReturnsKeeps DEF clientVars, Finished
  <2>3. TypeOK'
    BY <1>3, <2>1, <2>2 DEF TypeOK, clientVars, inputVars, Finished
  <2>4. WhereTheHandlerIs'
    BY <1>1, <2>1, <2>2, StageStays DEF WhereTheHandlerIs
  <2>5. RunnersFollowTheHandler'
    BY <1>1, <1>3, <2>1, <2>2, StageStays DEF RunnersFollowTheHandler, TypeOK
  <2>6. CommandsFollowTheirRunner'
    BY <1>1, <1>3, <2>1, <2>2, StageStays DEF CommandsFollowTheirRunner, TypeOK
  <2>7. OutputFollowsTheScript' /\ OutputsCollected'
    BY <1>1, <1>3, <2>1, StageStays DEF OutputFollowsTheScript, OutputsCollected, TypeOK
  <2> QED BY <2>2, <2>3, <2>4, <2>5, <2>6, <2>7
<1>9. CASE SelectDone
  <2>1. /\ handler = "select" /\ runner[cur] = "sendDone"
        /\ runner' = [runner EXCEPT ![cur] = "ended"] /\ handler' = "collect"
        /\ UNCHANGED <<stage, clientVars, netVars, inputVars, cur, dir, outputs, crashed,
                       proc, written, forwarded, stdin, files>>
    BY <1>9 DEF SelectDone
  <2>2. TypeOK'
    BY <1>3, <2>1 DEF TypeOK, clientVars, netVars, inputVars, Finished
  <2>3. WhereTheHandlerIs'
    BY <1>1, <2>1, StageStays DEF WhereTheHandlerIs
  <2>4. RunnersFollowTheHandler'
    BY <1>1, <1>3, <2>1, StageStays DEF RunnersFollowTheHandler, TypeOK
  <2>5. CommandsFollowTheirRunner'
    BY <1>1, <1>3, <2>1, StageStays DEF CommandsFollowTheirRunner, TypeOK
  <2>6. OutputFollowsTheScript' /\ OutputsCollected'
    BY <1>1, <1>3, <2>1, StageStays DEF OutputFollowsTheScript, OutputsCollected, TypeOK
  <2>7. SuccessIsReported'
    BY <2>1 DEF SuccessIsReported, clientVars, netVars
  <2> QED BY <2>2, <2>3, <2>4, <2>5, <2>6, <2>7
<1>10. CASE CollectOutputs
  <2>1. /\ handler = "collect" /\ handler' = "step" /\ cur' = cur + 1 /\ dir' = "removed"
        /\ \A k \in Steps[cur].outputs : files[cur][k] # NoValue
        /\ UNCHANGED <<stage, clientVars, netVars, inputVars, crashed, runVars>>
    BY <1>10 DEF CollectOutputs
  <2>2. cur <= Len(Steps) /\ cur \in Index /\ cur \in 1 .. Len(Steps) /\ runner[cur] = "ended"
    BY <1>3, <2>1 DEF WhereTheHandlerIs, RunnersFollowTheHandler
  <2>3. outputs' \in [OutputRef -> Value \cup {NoValue}]
    <3>1. outputs' = [r \in OutputRef |->
                        IF r[1] = Steps[cur].name /\ r[2] \in Steps[cur].outputs
                        THEN files[cur][r[2]] ELSE outputs[r]]
      BY <1>10 DEF CollectOutputs
    <3>2. \A r \in OutputRef : outputs[r] \in Value \cup {NoValue}
                               /\ files[cur][r[2]] \in Value \cup {NoValue}
      BY <2>2 DEF TypeOK, OutputRef
    <3> QED BY <3>1, <3>2
  <2>4. TypeOK'
    <3>1. cur' \in 1 .. MaxSteps + 1
      BY <2>1, <2>2, BoundsAssumption DEF Index
    <3> QED BY <2>1, <2>3, <3>1 DEF TypeOK, clientVars, netVars, inputVars, runVars, Finished
  <2>5. WhereTheHandlerIs'
    BY <1>1, <2>1, <2>2, StepsType, StageStays DEF WhereTheHandlerIs
  <2>6. RunnersFollowTheHandler'
    BY <1>1, <2>1, <2>2, StageStays DEF RunnersFollowTheHandler, TypeOK, runVars, Index
  <2>7. CommandsFollowTheirRunner' /\ OutputFollowsTheScript'
    BY <1>1, <2>1, StageStays DEF CommandsFollowTheirRunner, OutputFollowsTheScript, runVars
  <2>8. OutputsCollected'
    BY <1>1, <2>1, <2>2, StageStays DEF OutputsCollected, runVars, Index
  <2>9. SuccessIsReported'
    BY <2>1 DEF SuccessIsReported, clientVars, netVars
  <2> QED BY <2>4, <2>5, <2>6, <2>7, <2>8, <2>9
<1>11. CASE CollectFails
  <2>1. UNCHANGED <<stage, clientVars, c2s, connected, inputVars, cur, outputs, crashed, runVars>>
    BY <1>11 DEF CollectFails
  <2>2. handler \notin Finished /\ HandlerReturns("failed")
    BY <1>11 DEF CollectFails, Finished
  <2> QED BY <1>1, <2>1, <2>2, FailurePreserves DEF inputVars, TypeOK
<1>12. CASE ExecuteReturns
  <2>1. /\ handler = "step" /\ cur > Len(Steps) /\ HandlerReturns("succeeded")
        /\ UNCHANGED <<stage, clientVars, c2s, connected, inputVars, cur, outputs, crashed, runVars>>
    BY <1>12 DEF ExecuteReturns
  <2>2. /\ s2c' \in Seq(Message)
        /\ dir' \in {"none", "present", "removed"}
        /\ handler' = "succeeded"
        /\ SuccessIsReported'
    BY <2>1, HandlerReturnsKeeps DEF clientVars, Finished
  <2>3. TypeOK'
    BY <2>1, <2>2, HandlerTypes DEF TypeOK, inputVars, Finished
  <2>4. WhereTheHandlerIs'
    BY <1>1, <2>1, <2>2, StageStays, StepsType, BoundsAssumption DEF WhereTheHandlerIs, TypeOK
  <2>5. RunnersFollowTheHandler'
    BY <1>1, <2>1, <2>2, StageStays DEF RunnersFollowTheHandler, runVars
  <2>6. CommandsFollowTheirRunner'
    BY <1>1, <2>1, <2>2, StageStays DEF CommandsFollowTheirRunner, runVars
  <2>7. OutputFollowsTheScript' /\ OutputsCollected'
    BY <1>1, <2>1, StageStays DEF OutputFollowsTheScript, OutputsCollected, runVars
  <2> QED BY <2>2, <2>3, <2>4, <2>5, <2>6, <2>7
<1> QED BY <1>4, <1>5, <1>6, <1>7, <1>8, <1>9, <1>10, <1>11, <1>12

-----------------------------------------------------------------------------
(* The steps of the receiving goroutine, of the runners and of the commands. *)

\* The goroutine that receives the input preserves it.
LEMMA ReceiverPreserves ==
  ASSUME IInv, Receiver
  PROVE  IInv'
<1> USE DEF IInv
<1>1. Next
  BY DEF Next
<1>2. UNCHANGED <<stage, clientVars, s2c, connected, lost, stepVars, runVars>>
  BY DEF Receiver, ReceiveInput, ReceiveError, netVars
<1>3. /\ c2s' \in Seq({"stageExecuteRequest", "paramsResponse", "input"})
      /\ receiver' \in {"off", "recv", "sendInput", "sendError"}
  <2>1. CASE ReceiveInput
    BY <2>1 DEF ReceiveInput, TypeOK
  <2>2. CASE ReceiveError
    BY <2>2 DEF ReceiveError, netVars, TypeOK
  <2> QED BY <2>1, <2>2 DEF Receiver
<1>4. TypeOK'
  BY <1>2, <1>3, HandlerTypes DEF TypeOK, stepVars
<1>5. ServerInv'
  BY <1>1, <1>2, ServerInvFrame DEF ServerInv, stepVars
<1>6. SuccessIsReported'
  BY <1>2 DEF SuccessIsReported, clientVars, stepVars
<1> QED BY <1>4, <1>5, <1>6 DEF ServerInv

\* A runner that is at work is the one of cur, or was abandoned there.
LEMMA RunnerAtWork ==
  ASSUME IInv, NEW i \in Index, runner[i] \notin {"none", "ended"}
  PROVE  i = cur /\ i \in 1 .. Len(Steps) /\ handler # "collect"
BY StepsType, BoundsAssumption DEF IInv, TypeOK, RunnersFollowTheHandler, Index

\* A goroutine moves from one control state to the next.
LEMMA RunnerGoesPreserves ==
  ASSUME IInv, Next, NEW i \in Index, NEW c \in {"ready", "copy", "wait", "sendError", "sendDone"},
         runner[i] \notin {"none", "ended"}, RunnerGoes(i, c),
         c \in {"ready", "copy", "wait"} => Steps[i].type = "command",
         c = "sendDone" /\ Steps[i].type = "command" => proc[i] = "ok",
         c = "ready" => proc[i] = "none",
         UNCHANGED <<handler, cur, proc, written, forwarded, files>>
  PROVE  ServerInv' /\ runner' \in [Index -> {"none", "started", "ready", "copy", "wait",
                                              "sendError", "sendDone", "ended"}]
<1> USE DEF IInv, RunnerGoes
<1>1. i = cur /\ i \in 1 .. Len(Steps)
  BY RunnerAtWork
<1>2. runner' \in [Index -> {"none", "started", "ready", "copy", "wait",
                             "sendError", "sendDone", "ended"}]
  BY DEF TypeOK
<1>3. WhereTheHandlerIs'
  BY StageStays DEF WhereTheHandlerIs
<1>4. RunnersFollowTheHandler'
  BY <1>1, StageStays DEF RunnersFollowTheHandler, TypeOK
<1>5. CommandsFollowTheirRunner'
  BY <1>1, StageStays DEF CommandsFollowTheirRunner, TypeOK
<1>6. OutputFollowsTheScript' /\ OutputsCollected'
  BY StageStays DEF OutputFollowsTheScript, OutputsCollected, TypeOK
<1> QED BY <1>2, <1>3, <1>4, <1>5, <1>6 DEF ServerInv

\* The type invariant of a step of a runner that changes no other variables
\* than these.
LEMMA RunnerTypes ==
  ASSUME TypeOK, UNCHANGED <<stage, clientVars, c2s, connected, inputVars, stepVars, stdin, files>>,
         s2c' \in Seq(Message),
         runner' \in [Index -> {"none", "started", "ready", "copy", "wait",
                                "sendError", "sendDone", "ended"}],
         proc' \in [Index -> {"none", "running", "detached", "ok", "failed"}],
         written' \in [Index -> Nat], forwarded' \in [Index -> Nat]
  PROVE  TypeOK'
BY DEF TypeOK, clientVars, inputVars, stepVars, Finished

\* The goroutine of a runner preserves it.
LEMMA RunnerPreserves ==
  ASSUME IInv, NEW i \in Index, Runner(i)
  PROVE  IInv'
<1> USE DEF IInv
<1>1. Next
  BY DEF Next
<1>2. UNCHANGED <<stage, clientVars, c2s, connected, inputVars, stepVars, stdin, files>>
  BY DEF Runner, RunExport, Prepare, StartPty, StartPtyFails, Forward, ForwardFails,
    Drained, Wait, netVars
<1>3. /\ runner[i] \notin {"none", "ended"} /\ runner[i] \in {"started", "ready", "copy", "wait"}
      /\ i = cur /\ i \in 1 .. Len(Steps)
  <2>1. runner[i] \in {"started", "ready", "copy", "wait"}
    BY DEF Runner, RunExport, Prepare, StartPty, StartPtyFails, Forward, ForwardFails,
      Drained, Wait, RunnerAt
  <2> QED BY <2>1, RunnerAtWork
<1>4. UNCHANGED s2c => SuccessIsReported'
  BY <1>2 DEF SuccessIsReported, clientVars, stepVars
<1>5. CASE RunExport(i)
  <2>1. /\ Steps[i].type = "export" /\ RunnerGoes(i, "sendDone")
        /\ UNCHANGED <<proc, written, forwarded>>
    BY <1>5 DEF RunExport
  <2> DEFINE value == outputs[Steps[i].ref]
             event == [type |-> "export", name |-> Steps[i].variable,
                       value |-> Escape[IF value = NoValue THEN Empty ELSE value]]
  <2>2. event \in Message /\ event.type # "status"
    <3>1. Steps[i].ref \in OutputRef /\ Steps[i].variable \in ExportName
      BY <1>3, StepFields
    <3>2. (IF value = NoValue THEN Empty ELSE value) \in Value
      BY <3>1, ValuesAssumption DEF TypeOK
    <3>3. Escape[IF value = NoValue THEN Empty ELSE value] \in Value
      BY <3>2, ValuesAssumption
    <3> HIDE DEF value
    <3> QED BY <3>1, <3>3, MessageType
  <2>3. ToClient(event)
    BY <1>5 DEF RunExport
  <2> HIDE DEF event
  <2>4. s2c' \in Seq(Message) /\ SuccessIsReported'
    BY <1>2, <2>2, <2>3, ToClientNoStatus DEF clientVars, stepVars
  <2>5. ServerInv' /\ runner' \in [Index -> {"none", "started", "ready", "copy", "wait",
                                              "sendError", "sendDone", "ended"}]
    BY <1>1, <1>2, <1>3, <2>1, RunnerGoesPreserves DEF stepVars
  <2>6. TypeOK'
    BY <1>2, <2>1, <2>4, <2>5, RunnerTypes DEF TypeOK
  <2> QED BY <2>4, <2>5, <2>6 DEF ServerInv
<1>6. ASSUME NEW c \in {"ready", "wait", "sendError", "sendDone"}, RunnerGoes(i, c),
             c \in {"ready", "wait"} => Steps[i].type = "command",
             c = "sendDone" /\ Steps[i].type = "command" => proc[i] = "ok",
             c = "ready" => proc[i] = "none",
             UNCHANGED <<s2c, proc, written, forwarded>>
      PROVE  IInv'
  <2>1. ServerInv' /\ runner' \in [Index -> {"none", "started", "ready", "copy", "wait",
                                              "sendError", "sendDone", "ended"}]
    BY <1>1, <1>2, <1>3, <1>6, RunnerGoesPreserves DEF stepVars
  <2>2. TypeOK'
    BY <1>2, <1>6, <2>1, RunnerTypes DEF TypeOK
  <2> QED BY <1>4, <1>6, <2>1, <2>2 DEF ServerInv
<1>7. CASE Prepare(i)
  BY <1>3, <1>6, <1>7 DEF Prepare, RunnerAt, netVars, CommandsFollowTheirRunner
<1>8. CASE StartPty(i)
  <2>1. /\ runner[i] = "ready" /\ RunnerGoes(i, "copy")
        /\ proc' = [proc EXCEPT ![i] = "running"]
        /\ UNCHANGED <<s2c, written, forwarded>>
    BY <1>8 DEF StartPty, RunnerAt, netVars
  <2>2. /\ runner' \in [Index -> {"none", "started", "ready", "copy", "wait",
                                  "sendError", "sendDone", "ended"}]
        /\ proc' \in [Index -> {"none", "running", "detached", "ok", "failed"}]
    BY <2>1 DEF TypeOK, RunnerGoes
  <2>3. TypeOK'
    BY <1>2, <2>1, <2>2, RunnerTypes DEF TypeOK
  <2>4. WhereTheHandlerIs'
    BY <1>1, <1>2, StageStays DEF WhereTheHandlerIs, stepVars
  <2>5. RunnersFollowTheHandler'
    BY <1>1, <1>2, <1>3, <2>1, StageStays DEF RunnersFollowTheHandler, RunnerGoes, stepVars, TypeOK
  <2>6. CommandsFollowTheirRunner'
    BY <1>1, <1>2, <1>3, <2>1, StageStays DEF CommandsFollowTheirRunner, RunnerGoes, stepVars,
    TypeOK
  <2>7. OutputFollowsTheScript' /\ OutputsCollected'
    BY <1>1, <1>2, <1>3, <2>1, StageStays DEF OutputFollowsTheScript, OutputsCollected,
      RunnerGoes, stepVars, TypeOK
  <2> QED BY <1>4, <2>1, <2>3, <2>4, <2>5, <2>6, <2>7
<1>9. CASE StartPtyFails(i)
  BY <1>6, <1>9 DEF StartPtyFails, netVars
<1>10. CASE Forward(i)
  <2>1. /\ forwarded[i] < written[i] /\ forwarded' = [forwarded EXCEPT ![i] = @ + 1]
        /\ UNCHANGED <<runner, proc, written>>
    BY <1>10 DEF Forward
  <2> DEFINE event == [type |-> "output", text |-> Steps[i].script[forwarded[i] + 1]]
  <2>2. event \in Message /\ event.type # "status"
    <3>1. Steps[i].script \in Seq({"print", "ask"})
      BY <1>3, StepFields
    <3>2. forwarded[i] + 1 \in 1 .. Len(Steps[i].script)
      BY <1>3, <2>1, <3>1 DEF TypeOK, OutputFollowsTheScript
    <3>3. Steps[i].script[forwarded[i] + 1] \in {"print", "ask"}
      BY <3>1, <3>2
    <3> QED BY <3>3, MessageType
  <2>3. ToClient(event)
    BY <1>10 DEF Forward
  <2> HIDE DEF event
  <2>4. s2c' \in Seq(Message) /\ SuccessIsReported'
    BY <1>2, <2>2, <2>3, ToClientNoStatus DEF clientVars, stepVars
  <2>5. TypeOK'
    <3>1. forwarded' \in [Index -> Nat]
      BY <2>1 DEF TypeOK
    <3> QED BY <1>2, <2>1, <2>4, <3>1, RunnerTypes DEF TypeOK
  <2>6. WhereTheHandlerIs' /\ RunnersFollowTheHandler' /\ CommandsFollowTheirRunner'
    BY <1>1, <1>2, <2>1, StageStays DEF WhereTheHandlerIs, RunnersFollowTheHandler,
      CommandsFollowTheirRunner, stepVars
  <2>7. OutputFollowsTheScript' /\ OutputsCollected'
    BY <1>1, <1>2, <2>1, StageStays DEF OutputFollowsTheScript, OutputsCollected, stepVars, TypeOK
  <2> QED BY <2>4, <2>5, <2>6, <2>7
<1>11. CASE ForwardFails(i)
  BY <1>6, <1>11 DEF ForwardFails, netVars
<1>12. CASE Drained(i)
  BY <1>3, <1>6, <1>12 DEF Drained, RunnerAt, netVars, CommandsFollowTheirRunner
<1>13. CASE Wait(i)
  BY <1>3, <1>6, <1>13 DEF Wait, RunnerAt, netVars
<1> QED BY <1>5, <1>7, <1>8, <1>9, <1>10, <1>11, <1>12, <1>13 DEF Runner

\* What a command does preserves it.
LEMMA CommandPreserves ==
  ASSUME IInv, NEW i \in Index, Command(i)
  PROVE  IInv'
<1> USE DEF IInv
<1>1. Next
  BY DEF Next
<1>2. UNCHANGED <<stage, clientVars, netVars, inputVars, stepVars, runner, forwarded, stdin>>
  BY DEF Command, Prints, Detach, ExitOk, ExitFailed
<1>3. /\ proc[i] \in LiveProc
      /\ runner[i] \notin {"none", "started", "ready"} /\ Steps[i].type = "command"
      /\ i \in 1 .. Len(Steps)
  <2>1. proc[i] \in LiveProc
    BY DEF Command, Prints, Detach, ExitOk, ExitFailed, LiveProc
  <2>2. runner[i] \notin {"none", "started", "ready", "ended"} /\ Steps[i].type = "command"
    BY <2>1 DEF CommandsFollowTheirRunner, LiveProc
  <2> QED BY <2>1, <2>2, RunnerAtWork
<1>4. runner[i] # "ended" /\ ~(i < cur)
  BY <1>3 DEF CommandsFollowTheirRunner, RunnersFollowTheHandler, LiveProc
<1>5. WhereTheHandlerIs' /\ RunnersFollowTheHandler' /\ SuccessIsReported'
  BY <1>1, <1>2, StageStays DEF WhereTheHandlerIs, RunnersFollowTheHandler,
    SuccessIsReported, clientVars, netVars, stepVars
<1>6. CASE Prints(i)
  <2>1. /\ written[i] < Len(Steps[i].script) /\ written' = [written EXCEPT ![i] = @ + 1]
        /\ UNCHANGED <<proc, files>>
    BY <1>6 DEF Prints
  <2>2. TypeOK'
    <3>1. written' \in [Index -> Nat]
      BY <2>1 DEF TypeOK
    <3> QED BY <1>2, <2>1, <3>1 DEF TypeOK, clientVars, netVars, inputVars, stepVars, Finished
  <2>3. CommandsFollowTheirRunner' /\ OutputsCollected'
    BY <1>1, <1>2, <2>1, StageStays DEF CommandsFollowTheirRunner, OutputsCollected, stepVars
  <2>4. OutputFollowsTheScript'
    <3>1. Len(Steps[i].script) \in Nat
      BY <1>3, StepFields
    <3> QED BY <1>1, <1>2, <1>3, <2>1, <3>1, StageStays DEF OutputFollowsTheScript, TypeOK
  <2> QED BY <1>5, <2>2, <2>3, <2>4
<1>7. ASSUME NEW p \in {"detached", "ok", "failed"}, proc' = [proc EXCEPT ![i] = p],
             UNCHANGED written,
             files' \in [Index -> [Key -> Value \cup {NoValue}]],
             \A j \in Index : j # i => files'[j] = files[j]
      PROVE  IInv'
  <2>1. TypeOK'
    BY <1>2, <1>7 DEF TypeOK, clientVars, netVars, inputVars, stepVars, Finished
  <2>2. CommandsFollowTheirRunner'
    <3>1. runner[i] = "sendDone" /\ handler = "select" => proc[i] = "ok"
      BY <1>3 DEF CommandsFollowTheirRunner
    <3>2. ~(runner[i] = "sendDone" /\ handler = "select")
      BY <1>3, <3>1 DEF LiveProc
    <3> QED BY <1>1, <1>2, <1>3, <1>4, <1>7, <3>2, StageStays
          DEF CommandsFollowTheirRunner, TypeOK, stepVars
  <2>3. OutputFollowsTheScript' /\ OutputsCollected'
    BY <1>1, <1>2, <1>4, <1>7, StageStays DEF OutputFollowsTheScript, OutputsCollected, stepVars
  <2> QED BY <1>5, <2>1, <2>2, <2>3
<1>8. CASE Detach(i)
  BY <1>7, <1>8 DEF Detach, TypeOK
<1>9. CASE ExitOk(i)
  <2>1. PICK left \in [Steps[i].outputs -> Value \cup {NoValue}] :
          files' = [files EXCEPT ![i] =
                      [k \in Key |-> IF k \in Steps[i].outputs THEN left[k] ELSE NoValue]]
    BY <1>9 DEF ExitOk
  <2> DEFINE new == [k \in Key |-> IF k \in Steps[i].outputs THEN left[k] ELSE NoValue]
  <2>2. new \in [Key -> Value \cup {NoValue}]
    OBVIOUS
  <2>3. files' = [files EXCEPT ![i] = new]
    BY <2>1
  <2> HIDE DEF new
  <2>4. /\ files' \in [Index -> [Key -> Value \cup {NoValue}]]
        /\ \A j \in Index : j # i => files'[j] = files[j]
    BY <2>2, <2>3 DEF TypeOK
  <2>5. proc' = [proc EXCEPT ![i] = "ok"] /\ UNCHANGED written
    BY <1>9 DEF ExitOk
  <2> QED BY <1>7, <2>4, <2>5
<1>10. CASE ExitFailed(i)
  BY <1>7, <1>10 DEF ExitFailed, TypeOK
<1> QED BY <1>6, <1>8, <1>9, <1>10 DEF Command

-----------------------------------------------------------------------------
(* The theorems. *)

\* The invariant holds before anything is sent.
LEMMA InitIInv == Init => IInv
<1> SUFFICES ASSUME Init PROVE IInv
  OBVIOUS
<1>1. TypeOK
  <2>1. copying \in BOOLEAN /\ connected \in BOOLEAN /\ crashed \in BOOLEAN /\ lost \in BOOLEAN
    BY DEF Init
  <2>2. exports \in [ExportName -> Value \cup {NoValue}] /\ outputs \in [OutputRef -> Value \cup {NoValue}]
    BY DEF Init
  <2>3. files \in [Index -> [Key -> Value \cup {NoValue}]]
    BY DEF Init
  <2>4. c2s \in Seq({"stageExecuteRequest", "paramsResponse", "input"}) /\ s2c \in Seq(Message)
    BY DEF Init
  <2> QED BY <2>1, <2>2, <2>3, <2>4, BoundsAssumption DEF Init, TypeOK, Finished
<1>2. WhereTheHandlerIs /\ RunnersFollowTheHandler
  BY StepsType, BoundsAssumption DEF Init, WhereTheHandlerIs, RunnersFollowTheHandler, Index
<1>3. CommandsFollowTheirRunner /\ OutputFollowsTheScript /\ OutputsCollected
  BY DEF Init, CommandsFollowTheirRunner, OutputFollowsTheScript, OutputsCollected, Index
<1>4. SuccessIsReported
  BY DEF Init, SuccessIsReported
<1> QED BY <1>1, <1>2, <1>3, <1>4 DEF IInv

\* Every step of the system preserves the invariant.
LEMMA NextIInv == IInv /\ [Next]_vars => IInv'
<1> SUFFICES ASSUME IInv, [Next]_vars PROVE IInv'
  OBVIOUS
<1>1. CASE UNCHANGED vars
  BY <1>1 DEF vars, clientVars, netVars, inputVars, stepVars, runVars, IInv, TypeOK,
    WhereTheHandlerIs, RunnersFollowTheHandler, CommandsFollowTheirRunner,
    OutputFollowsTheScript, OutputsCollected, SuccessIsReported, Steps
<1>2. CASE Next
  BY <1>2, ClientPreserves, HandshakePreserves, StepsPreserve, ReceiverPreserves,
    RunnerPreserves, CommandPreserves DEF Next, Handler
<1> QED BY <1>1, <1>2

\* The inductive invariant holds of every execution.
THEOREM IInvHolds == Spec => []IInv
BY InitIInv, NextIInv, PTL DEF Spec

\* The variables keep their types: in particular every message, index and
\* output of the model stays within what the definition of the stage declares.
THEOREM TypeCorrect == Spec => []TypeOK
BY IInvHolds, PTL DEF IInv

\* Success at the client means every step of the stage ran to its end, for
\* every definition of stages and under every fault.
THEOREM SuccessIsCompleteHolds == Spec => []SuccessIsComplete
<1>1. IInv => SuccessIsComplete
  <2> SUFFICES ASSUME IInv, result = "ok" PROVE SuccessIsComplete
    BY DEF SuccessIsComplete
  <2>1. handler = "succeeded" /\ stage \in DOMAIN Definition /\ cur = Len(Steps) + 1
    BY DEF IInv, SuccessIsReported, WhereTheHandlerIs
  <2>2. \A i \in 1 .. Len(Steps) : i \in Index /\ i < cur
    BY <2>1, StepsType, BoundsAssumption DEF Index
  <2> QED BY <2>1, <2>2 DEF IInv, SuccessIsComplete, RunnersFollowTheHandler,
        CommandsFollowTheirRunner, OutputsCollected
<1> QED BY <1>1, IInvHolds, PTL

-----------------------------------------------------------------------------
(* The refinement of StageContract. *)

\* A step of the system is a step of the contract, or none.
LEMMA StepSimulation ==
  ASSUME IInv, IInv', [Next]_vars
  PROVE  [Contract!ContractNext]_(Contract!contractVars)
<1> USE DEF IInv, Contract!contractVars
<1>1. CASE UNCHANGED vars
  BY <1>1 DEF vars, clientVars, netVars, inputVars, stepVars, runVars, StepsBegun
<1>2. CASE Next
  <2>1. stage' = stage /\ Steps' = Steps
    BY <1>2, StageStays
  <2>2. cur \in Nat /\ cur >= 1
    BY BoundsAssumption DEF TypeOK
  <2>3. stage \in DOMAIN Definition => stage \in DOMAIN StepCounts /\ StepCounts[stage] = Len(Steps)
    BY DEF StepCounts, Steps
  <2>4. CASE Client \/ Type \/ ParamsUnanswered \/ ConnectionLost
    <3>1. UNCHANGED <<stage, handler, cur, runner>>
      BY <2>4 DEF Client, Open, OpenPanics, ClientRecv, AnswerParams, ClientRecvError, Type,
        ParamsUnanswered, ConnectionLost, stepVars, runVars
    <3>2. StepsBegun' = StepsBegun
      BY <3>1 DEF StepsBegun
    <3>3. result' = result \/ (result = "none" /\ result' \in {"ok", "error"})
      BY <2>4 DEF Client, Open, OpenPanics, ClientRecv, AnswerParams, ClientRecvError, Type,
        ParamsUnanswered, ConnectionLost, Returns, SuccessIsReported, clientVars, TypeOK
    <3>4. CASE result' = result
      BY <3>1, <3>2, <3>4
    <3>5. CASE result = "none" /\ result' = "error"
      BY <3>1, <3>2, <3>5 DEF Contract!ContractNext, Contract!ReportFailure
    <3>6. CASE result = "none" /\ result' = "ok"
      <4>1. stage \in DOMAIN Definition /\ cur = Len(Steps) + 1
        BY <3>1, <3>6 DEF SuccessIsReported, WhereTheHandlerIs
      <4>2. cur - 1 = StepCounts[stage] /\ stage \in DOMAIN StepCounts
        BY <2>3, <4>1, StepsType
      <4> QED BY <3>1, <3>2, <3>6, <4>2 DEF Contract!ContractNext, Contract!ReportSuccess
    <3> QED BY <3>3, <3>4, <3>5, <3>6
  <2>5. CASE BeginStep
    <3>1. /\ handler = "step" /\ cur <= Len(Steps) /\ cur \in Index
          /\ runner[cur] = "none" /\ runner' = [runner EXCEPT ![cur] = "started"]
          /\ UNCHANGED <<stage, cur, result>>
      BY <2>2, <2>5, StepsType, BoundsAssumption DEF BeginStep, clientVars,
        RunnersFollowTheHandler, Index
    <3>2. StepsBegun = cur - 1 /\ StepsBegun' = cur
      BY <3>1 DEF StepsBegun, TypeOK
    <3>3. stage \in DOMAIN StepCounts /\ cur - 1 < StepCounts[stage]
      BY <2>2, <2>3, <3>1, StepsType DEF WhereTheHandlerIs
    <3> QED BY <2>2, <3>1, <3>2, <3>3 DEF Contract!ContractNext, Contract!BeginNext
  <2>6. CASE CollectOutputs
    <3>1. /\ handler = "collect" /\ cur \in Index /\ runner[cur] = "ended"
          /\ cur' = cur + 1 /\ UNCHANGED <<stage, runner, result>>
      BY <2>2, <2>6, StepsType, BoundsAssumption DEF CollectOutputs, clientVars, runVars,
        WhereTheHandlerIs, RunnersFollowTheHandler, Index
    <3>2. StepsBegun = cur /\ StepsBegun' = cur
      BY <2>2, <3>1 DEF StepsBegun, RunnersFollowTheHandler
    <3> QED BY <2>2, <3>1, <3>2 DEF Contract!ContractNext, Contract!Complete
  <2>7. ASSUME UNCHANGED <<stage, cur, result>>,
               cur \in Index => (runner[cur] = "none" <=> runner'[cur] = "none")
        PROVE  UNCHANGED Contract!contractVars
    BY <2>7 DEF StepsBegun
  <2>8. CASE SelectError \/ SelectDone
    BY <2>7, <2>8 DEF SelectError, SelectDone, HandlerReturns, clientVars, TypeOK
  <2>9. CASE Receiver \/ RecvRequest \/ RecvParams \/ HandshakeLost \/ RefuseStep
             \/ SelectInput \/ SelectInputError \/ CollectFails \/ ExecuteReturns
    <3>1. UNCHANGED <<stage, cur, result, runner>>
      BY <2>9 DEF Receiver, ReceiveInput, ReceiveError, RecvRequest, RecvParams,
        HandshakeLost, RefuseStep, SelectInput, SelectInputError, CollectFails,
        ExecuteReturns, clientVars, stepVars, runVars
    <3> QED BY <2>7, <3>1
  <2>10. ASSUME NEW i \in Index, Runner(i)
         PROVE  UNCHANGED Contract!contractVars
    <3>1. UNCHANGED <<stage, cur, result>>
      BY <2>10 DEF Runner, RunExport, Prepare, StartPty, StartPtyFails, Forward,
        ForwardFails, Drained, Wait, clientVars, stepVars
    <3>2. runner[i] # "none" /\ (runner' = runner \/ \E c \in {"ready", "copy", "wait",
    "sendError", "sendDone"} : RunnerGoes(i, c))
      BY <2>10 DEF Runner, RunExport, Prepare, StartPty, StartPtyFails, Forward,
        ForwardFails, Drained, Wait, RunnerAt
    <3>3. cur \in Index => (runner[cur] = "none" <=> runner'[cur] = "none")
      BY <3>2 DEF RunnerGoes, TypeOK
    <3> QED BY <2>7, <3>1, <3>3
  <2>11. ASSUME NEW i \in Index, Command(i)
         PROVE  UNCHANGED Contract!contractVars
    <3>1. UNCHANGED <<stage, cur, result, runner>>
      BY <2>11 DEF Command, Prints, Detach, ExitOk, ExitFailed, clientVars, stepVars
    <3> QED BY <2>7, <3>1
  <2> QED BY <1>2, <2>4, <2>5, <2>6, <2>8, <2>7, <2>9, <2>10, <2>11 DEF Next, Handler
<1> QED BY <1>1, <1>2

\* StageExecution implements StageContract: steps run one at a time and in
\* order, and success is reported only when all of them are complete.
THEOREM ContractImplemented == Spec => ImplementsContract
<1>1. Init => Contract!ContractInit
  <2> SUFFICES ASSUME Init PROVE Contract!ContractInit
    OBVIOUS
  <2>1. cur = 1 /\ (1 \in Index => runner[1] = "none") /\ stage \in StageName /\ result = "none"
    BY DEF Init
  <2>2. StepsBegun = 0 /\ cur - 1 = 0
    BY <2>1 DEF StepsBegun
  <2> QED BY <2>1, <2>2 DEF Contract!ContractInit
<1> QED BY <1>1, IInvHolds, StepSimulation, PTL DEF Spec, ImplementsContract, Contract!ContractSpec
=============================================================================
