------------------------- MODULE StageMessageProofs -------------------------
(***************************************************************************)
(* Theorems of StageExecution on what its messages carry: the exports that *)
(* reach the client, the answers that reach a command, and that nobody     *)
(* waits for a message that does not come. They stand on the inductive     *)
(* invariant of StageExecutionProofs.                                      *)
(***************************************************************************)
EXTENDS StageOrderProofs, FiniteSetTheorems

(* Nothing follows a report of success. *)

\* A report of success is the last message, and the client that took it has
\* taken all the others.
SuccessIsLast ==
  /\ \A n \in 1 .. Len(s2c) : OkStatus(s2c[n]) => n = Len(s2c)
  /\ result = "ok" => s2c = <<>>

\* What one more message makes of the queue.
LEMMA ToClientQueue ==
  ASSUME s2c \in Seq(Message), NEW m \in Message, ToClient(m)
  PROVE  /\ connected => /\ Len(s2c') = Len(s2c) + 1 /\ s2c'[Len(s2c) + 1] = m
                         /\ \A n \in 1 .. Len(s2c) : s2c'[n] = s2c[n]
         /\ ~connected => s2c' = s2c
         /\ Len(s2c) \in Nat /\ s2c' \in Seq(Message)
<1>1. CASE connected
  <2>1. s2c' = Append(s2c, m)
    BY <1>1 DEF ToClient
  <2> QED BY <1>1, <2>1
<1>2. CASE ~connected
  BY <1>2 DEF ToClient
<1> QED BY <1>1, <1>2

\* Once the handler has succeeded every runner has ended.
LEMMA SucceededIsOver ==
  ASSUME IInv, handler = "succeeded", NEW i \in Index
  PROVE  runner[i] = (IF i <= Len(Steps) THEN "ended" ELSE "none")
<1>1. cur = Len(Steps) + 1 /\ Len(Steps) \in Nat /\ i \in Nat
  BY StepsType, BoundsAssumption DEF IInv, WhereTheHandlerIs, Index
<1>2. CASE i <= Len(Steps)
  BY <1>1, <1>2 DEF IInv, RunnersFollowTheHandler
<1>3. CASE ~(i <= Len(Steps))
  BY <1>1, <1>3 DEF IInv, RunnersFollowTheHandler
<1> QED BY <1>2, <1>3

\* The message of an export step.
LEMMA ExportSends ==
  ASSUME IInv, NEW i \in Index, RunExport(i)
  PROVE  LET value == outputs[Steps[i].ref] IN
         /\ i = cur /\ i \in 1 .. Len(Steps) /\ runner[i] = "started" /\ Steps[i].type = "export"
         /\ \E m \in Message :
              /\ m.type = "export" /\ m.name = Steps[i].variable
              /\ m.value = Escape[IF value = NoValue THEN Empty ELSE value]
              /\ m.value \in Value
              /\ ToClient(m)
<1>1. /\ runner[i] = "started" /\ Steps[i].type = "export"
      /\ i = cur /\ i \in 1 .. Len(Steps)
  BY RunnerAtWork DEF RunExport, RunnerAt
<1> DEFINE value == outputs[Steps[i].ref]
           x == Escape[IF value = NoValue THEN Empty ELSE value]
           event == [type |-> "export", name |-> Steps[i].variable, value |-> x]
<1>2. x \in Value
  <2>1. (IF value = NoValue THEN Empty ELSE value) \in Value
    BY <1>1, StepFields, ValuesAssumption DEF IInv, TypeOK
  <2> QED BY <2>1, ValuesAssumption
<1>3. ToClient(event)
  BY DEF RunExport
<1> HIDE DEF x
<1>4. event \in Message /\ event.type = "export" /\ event.name = Steps[i].variable /\ event.value = x
  BY <1>1, <1>2, StepFields, MessageType
<1> HIDE DEF event
<1> QED BY <1>1, <1>2, <1>3, <1>4 DEF x

\* The message of a command.
LEMMA ForwardSends ==
  ASSUME IInv, NEW i \in Index, Forward(i)
  PROVE  /\ i = cur /\ i \in 1 .. Len(Steps) /\ runner[i] = "copy"
         /\ \E m \in Message :
              /\ m.type = "output" /\ m.text = Steps[i].script[forwarded[i] + 1]
              /\ ToClient(m)
<1>1. runner[i] = "copy" /\ i = cur /\ i \in 1 .. Len(Steps) /\ forwarded[i] < written[i]
  BY RunnerAtWork DEF Forward, RunnerAt
<1> DEFINE event == [type |-> "output", text |-> Steps[i].script[forwarded[i] + 1]]
<1>2. event \in Message
  <2>1. Steps[i].script \in Seq({"print", "ask"})
    BY <1>1, StepFields
  <2>2. forwarded[i] + 1 \in 1 .. Len(Steps[i].script)
    BY <1>1, <2>1 DEF IInv, TypeOK, OutputFollowsTheScript
  <2>3. Steps[i].script[forwarded[i] + 1] \in {"print", "ask"}
    BY <2>1, <2>2
  <2> QED BY <2>3, MessageType
<1>3. ToClient(event)
  BY DEF Forward
<1> QED BY <1>1, <1>2, <1>3

\* Any step leaves the queue as it is, takes its first message, or, before the
\* handler has succeeded, adds one, which is an export of a step that exports.
LEMMA QueueStep ==
  ASSUME IInv, Next
  PROVE  \/ s2c' = s2c
         \/ ClientRecv
         \/ handler # "succeeded" /\ \E m \in Message :
              ToClient(m) /\ (m.type = "export" => \E i \in Index : RunExport(i))
<1>1. CASE Client \/ Type \/ ParamsUnanswered \/ ConnectionLost \/ Receiver
  BY <1>1 DEF Client, Open, OpenPanics, AnswerParams, ClientRecvError, Type, ParamsUnanswered,
    ConnectionLost, Receiver, ReceiveInput, ReceiveError, netVars
<1>2. CASE Handler
  <2>1. \A h : [type |-> "status", ok |-> h = "succeeded"] \in Message
    BY MessageType
  <2>2. [type |-> "paramsRequest"] \in Message
    BY MessageType
  <2>3. handler # "succeeded"
    BY <1>2 DEF Handler, RecvRequest, RecvParams, HandshakeLost, BeginStep, RefuseStep,
      SelectInput, SelectInputError, SelectError, SelectDone, CollectOutputs, CollectFails,
      ExecuteReturns
  <2>4. CASE RecvRequest \/ RecvParams \/ HandshakeLost
    BY <2>1, <2>2, <2>3, <2>4 DEF RecvRequest, RecvParams, HandshakeLost, HandlerReturns
  <2>5. CASE RefuseStep \/ SelectInputError \/ SelectError \/ CollectFails \/ ExecuteReturns
    BY <2>1, <2>3, <2>5 DEF RefuseStep, SelectInputError, SelectError, CollectFails,
      ExecuteReturns, HandlerReturns
  <2>6. CASE BeginStep \/ SelectInput \/ SelectDone \/ CollectOutputs
    BY <2>6 DEF BeginStep, SelectInput, SelectDone, CollectOutputs, netVars
  <2> QED BY <1>2, <2>4, <2>5, <2>6 DEF Handler
<1>3. ASSUME NEW i \in Index, Runner(i)
      PROVE  \/ s2c' = s2c
             \/ handler # "succeeded" /\ \E m \in Message :
                  ToClient(m) /\ (m.type = "export" => RunExport(i))
  <2>1. runner[i] \notin {"none", "ended"}
    BY <1>3 DEF Runner, RunExport, Prepare, StartPty, StartPtyFails, Forward, ForwardFails,
      Drained, Wait, RunnerAt
  <2>2. handler # "succeeded"
    BY <2>1, SucceededIsOver
  <2>3. CASE RunExport(i)
    BY <2>2, <2>3, ExportSends
  <2>4. CASE Forward(i)
    BY <2>2, <2>4, ForwardSends
  <2>5. CASE Prepare(i) \/ StartPty(i) \/ StartPtyFails(i) \/ ForwardFails(i) \/ Drained(i) \/ Wait(i)
    BY <2>5 DEF Prepare, StartPty, StartPtyFails, ForwardFails, Drained, Wait, netVars
  <2> QED BY <1>3, <2>3, <2>4, <2>5 DEF Runner
<1>4. ASSUME NEW i \in Index, Command(i) PROVE s2c' = s2c
  BY <1>4 DEF Command, Prints, Detach, ExitOk, ExitFailed, netVars
<1> QED BY <1>1, <1>2, <1>3, <1>4 DEF Next

\* What the client makes of the first message of the queue.
LEMMA ClientTakes ==
  ASSUME IInv, ClientRecv
  PROVE  /\ s2c # <<>> /\ s2c' = Tail(s2c) /\ s2c' \in Seq(Message)
         /\ Len(s2c) \in Nat \ {0} /\ Len(s2c') = Len(s2c) - 1
         /\ \A n \in 1 .. Len(s2c') : n + 1 \in 1 .. Len(s2c) /\ s2c'[n] = s2c[n + 1]
         /\ \A n \in 2 .. Len(s2c) : n - 1 \in 1 .. Len(s2c') /\ s2c[n] = s2c'[n - 1]
         /\ 1 \in 1 .. Len(s2c) /\ s2c[1] \in Message
         /\ result' = "ok" => result = "ok" \/ OkStatus(s2c[1])
         /\ s2c[1].type = "output" /\ s2c[1].text = "ask" =>
              asked' = asked + 1 \/ (asked' = asked /\ client' = "done")
         /\ ~(s2c[1].type = "output" /\ s2c[1].text = "ask") => asked' = asked
         /\ \A e \in ExportName :
              exports'[e] = IF s2c[1].type = "export" /\ s2c[1].name = e
                            THEN s2c[1].value ELSE exports[e]
<1>1. s2c # <<>> /\ s2c' = Tail(s2c) /\ s2c \in Seq(Message)
  BY DEF ClientRecv, IInv, TypeOK
<1>2. Head(s2c) = s2c[1] /\ s2c[1] \in Message /\ Len(s2c) \in Nat \ {0}
  BY <1>1
<1>3. /\ s2c' \in Seq(Message) /\ Len(s2c') = Len(s2c) - 1
      /\ \A n \in 1 .. Len(s2c') : n + 1 \in 1 .. Len(s2c) /\ s2c'[n] = s2c[n + 1]
  BY <1>1
<1>4. \A n \in 2 .. Len(s2c) : n - 1 \in 1 .. Len(s2c') /\ s2c[n] = s2c'[n - 1]
  <2> SUFFICES ASSUME NEW n \in 2 .. Len(s2c)
               PROVE  n - 1 \in 1 .. Len(s2c') /\ s2c[n] = s2c'[n - 1]
    OBVIOUS
  <2>1. n - 1 \in 1 .. Len(s2c') /\ (n - 1) + 1 = n
    BY <1>2, <1>3
  <2> QED BY <1>3, <2>1
<1>5. result' = "ok" => result = "ok" \/ OkStatus(s2c[1])
  BY <1>2 DEF ClientRecv, Returns, OkStatus
<1>6. IF s2c[1].type = "output" /\ s2c[1].text = "ask"
      THEN asked' = asked + 1 \/ (asked' = asked /\ client' = "done")
      ELSE asked' = asked
  BY <1>2 DEF ClientRecv, Returns
<1>7. \A e \in ExportName :
        exports'[e] = IF s2c[1].type = "export" /\ s2c[1].name = e
                      THEN s2c[1].value ELSE exports[e]
  <2>1. exports \in [ExportName -> Value \cup {NoValue}]
    BY DEF IInv, TypeOK
  <2> QED BY <1>2, <2>1 DEF ClientRecv
<1> QED BY <1>1, <1>2, <1>3, <1>4, <1>5, <1>6, <1>7

\* Every step keeps the report of success the last message.
LEMMA NextSuccessIsLast == IInv /\ SuccessIsLast /\ [Next]_vars => SuccessIsLast'
<1> SUFFICES ASSUME IInv, SuccessIsLast, [Next]_vars PROVE SuccessIsLast'
  OBVIOUS
<1>1. CASE UNCHANGED vars
  BY <1>1 DEF vars, clientVars, netVars, SuccessIsLast
<1>2. CASE ClientRecv
  <2>1. /\ Len(s2c) \in Nat \ {0} /\ Len(s2c') = Len(s2c) - 1 /\ s2c' \in Seq(Message)
        /\ \A n \in 1 .. Len(s2c') : n + 1 \in 1 .. Len(s2c) /\ s2c'[n] = s2c[n + 1]
        /\ 1 \in 1 .. Len(s2c) /\ s2c # <<>>
        /\ result' = "ok" => result = "ok" \/ OkStatus(s2c[1])
    BY <1>2, ClientTakes
  <2>2. \A n \in 1 .. Len(s2c') : OkStatus(s2c'[n]) => n = Len(s2c')
    BY <2>1 DEF SuccessIsLast
  <2>3. result' = "ok" => Len(s2c') = 0
    BY <2>1 DEF SuccessIsLast
  <2> QED BY <2>1, <2>2, <2>3 DEF SuccessIsLast
<1>3. CASE Next /\ ~ClientRecv
  <2>1. result' # "ok" \/ result' = result
    BY <1>3 DEF Next, Client, Open, OpenPanics, AnswerParams, ClientRecvError, Type, ParamsUnanswered,
      ConnectionLost, Handler, RecvRequest, RecvParams, HandshakeLost, BeginStep, RefuseStep,
      SelectInput, SelectInputError, SelectError, SelectDone, CollectOutputs, CollectFails,
      ExecuteReturns, Receiver, ReceiveInput, ReceiveError, Runner, RunExport, Prepare, StartPty,
      StartPtyFails, Forward, ForwardFails, Drained, Wait, Command, Prints, Detach, ExitOk,
      ExitFailed, Returns, clientVars
  <2>2. CASE s2c' = s2c
    BY <2>1, <2>2 DEF SuccessIsLast
  <2>3. ASSUME handler # "succeeded", NEW m \in Message, ToClient(m) PROVE SuccessIsLast'
    <3>1. result # "ok" /\ \A n \in 1 .. Len(s2c) : ~OkStatus(s2c[n])
      BY <2>3 DEF IInv, SuccessIsReported
    <3>2. /\ connected => /\ Len(s2c') = Len(s2c) + 1 /\ s2c'[Len(s2c) + 1] = m
                           /\ \A n \in 1 .. Len(s2c) : s2c'[n] = s2c[n]
          /\ ~connected => s2c' = s2c
          /\ Len(s2c) \in Nat
      BY <2>3, ToClientQueue DEF IInv, TypeOK
    <3>3. ASSUME NEW n \in 1 .. Len(s2c'), OkStatus(s2c'[n]) PROVE n = Len(s2c')
      <4>1. CASE connected
        BY <3>1, <3>2, <3>3, <4>1
      <4>2. CASE ~connected
        BY <3>1, <3>2, <3>3, <4>2
      <4> QED BY <4>1, <4>2, <3>2 DEF IInv, TypeOK
    <3> QED BY <2>1, <3>1, <3>3 DEF SuccessIsLast
  <2> QED BY <1>3, <2>2, <2>3, QueueStep
<1> QED BY <1>1, <1>2, <1>3

-----------------------------------------------------------------------------
(* The outputs the handler has filed. *)

\* A step that fails to run is a command.
OnlyCommandsFail == \A i \in Index : runner[i] = "sendError" => Steps[i].type = "command"

\* Among the first n steps, j is the last to declare r.
LastToDeclare(j, r, n) == /\ j \in 1 .. n /\ Declares(j, r)
                          /\ \A h \in j + 1 .. n : ~Declares(h, r)

\* An output is what the last step before cur to declare it wrote, and is not
\* there when no step before cur declares it.
OutputsAreLatest ==
  \A r \in OutputRef :
    \/ (\A j \in 1 .. cur - 1 : ~Declares(j, r)) /\ outputs[r] = NoValue
    \/ \E j \in 1 .. cur - 1 : LastToDeclare(j, r, cur - 1) /\ outputs[r] = files[j][r[2]]

\* What the steps before cur left in their directories stays.
LEMMA FilesStay ==
  ASSUME IInv, Next
  PROVE  \A j \in Index : j < cur => files'[j] = files[j]
<1> SUFFICES ASSUME NEW j \in Index, j < cur PROVE files'[j] = files[j]
  OBVIOUS
<1>1. ASSUME NEW i \in Index, ExitOk(i) PROVE files'[j] = files[j]
  <2>1. proc[i] \in LiveProc
    BY <1>1 DEF ExitOk
  <2>2. runner[i] \notin {"none", "ended"}
    BY <2>1 DEF IInv, CommandsFollowTheirRunner, LiveProc
  <2>3. i = cur
    BY <2>2, RunnerAtWork
  <2>4. cur \in Nat /\ j \in Nat
    BY BoundsAssumption DEF IInv, TypeOK, Index
  <2>5. i # j
    BY <2>3, <2>4
  <2> QED BY <1>1, <2>5 DEF ExitOk, IInv, TypeOK
<1>2. CASE UNCHANGED files
  BY <1>2
<1>3. CASE Client \/ Type \/ ParamsUnanswered \/ ConnectionLost \/ Handler \/ Receiver
  BY <1>3 DEF Client, Open, OpenPanics, ClientRecv, AnswerParams, ClientRecvError, Type, ParamsUnanswered,
    ConnectionLost, Handler, RecvRequest, RecvParams, HandshakeLost, BeginStep, RefuseStep,
    SelectInput, SelectInputError, SelectError, SelectDone, CollectOutputs, CollectFails,
    ExecuteReturns, Receiver, ReceiveInput, ReceiveError, runVars
<1>4. ASSUME NEW i \in Index, Runner(i) \/ Prints(i) \/ Detach(i) \/ ExitFailed(i)
      PROVE  files' = files
  BY <1>4 DEF Runner, RunExport, Prepare, StartPty, StartPtyFails, Forward, ForwardFails,
    Drained, Wait, Prints, Detach, ExitFailed
<1> QED BY <1>1, <1>2, <1>3, <1>4 DEF Next, Command

\* Only CollectOutputs changes the outputs, and only it moves the handler on.
LEMMA OutputsStay ==
  ASSUME Next, ~CollectOutputs
  PROVE  outputs' = outputs /\ cur' = cur
BY DEF Next, Client, Open, OpenPanics, ClientRecv, AnswerParams, ClientRecvError, Type,
  ParamsUnanswered, ConnectionLost, Handler, RecvRequest, RecvParams, HandshakeLost, BeginStep,
  RefuseStep, SelectInput, SelectInputError, SelectError, SelectDone, CollectFails,
  ExecuteReturns, Receiver, ReceiveInput, ReceiveError, Runner, RunExport, Prepare, StartPty,
  StartPtyFails, Forward, ForwardFails, Drained, Wait, Command, Prints, Detach, ExitOk,
  ExitFailed, stepVars

\* Every step of the system keeps the outputs filed as they were written.
LEMMA NextOutputsAreLatest == IInv /\ OutputsAreLatest /\ [Next]_vars => OutputsAreLatest'
<1> SUFFICES ASSUME IInv, OutputsAreLatest, [Next]_vars PROVE OutputsAreLatest'
  OBVIOUS
<1>1. CASE UNCHANGED vars
  BY <1>1 DEF vars, stepVars, runVars, OutputsAreLatest, LastToDeclare, Declares, Steps
<1>2. cur \in Nat \ {0} /\ \A j \in 1 .. cur - 1 : j \in Index /\ j < cur
  BY BoundsAssumption DEF IInv, TypeOK, Index
<1>3. CASE Next /\ ~CollectOutputs
  <2>1. /\ outputs' = outputs /\ cur' = cur /\ Steps' = Steps
        /\ \A j \in Index : j < cur => files'[j] = files[j]
    BY <1>3, OutputsStay, FilesStay, StageStays
  <2> QED BY <1>2, <2>1 DEF OutputsAreLatest, LastToDeclare, Declares
<1>4. CASE CollectOutputs
  <2>1. /\ cur' = cur + 1 /\ files' = files /\ Steps' = Steps
        /\ outputs' = [r \in OutputRef |->
                         IF Declares(cur, r) THEN files[cur][r[2]] ELSE outputs[r]]
    <3>1. Steps' = Steps
      BY <1>4, StageStays DEF Next, Handler
    <3> QED BY <1>4, <3>1 DEF CollectOutputs, Declares, runVars
  <2>2. SUFFICES ASSUME NEW r \in OutputRef
                 PROVE  \/ (\A j \in 1 .. cur : ~Declares(j, r)) /\ outputs'[r] = NoValue
                        \/ \E j \in 1 .. cur : LastToDeclare(j, r, cur) /\ outputs'[r] = files[j][r[2]]
    <3>1. (cur + 1) - 1 = cur
      BY <1>2
    <3> QED BY <2>1, <2>2, <3>1 DEF OutputsAreLatest, LastToDeclare, Declares
  <2>3. CASE Declares(cur, r)
    <3>1. LastToDeclare(cur, r, cur)
      BY <1>2, <2>3 DEF LastToDeclare
    <3> QED BY <1>2, <2>1, <2>3, <3>1
  <2>4. CASE ~Declares(cur, r)
    <3>1. outputs'[r] = outputs[r]
      BY <2>1, <2>4
    <3>2. CASE (\A j \in 1 .. cur - 1 : ~Declares(j, r)) /\ outputs[r] = NoValue
      <4>1. \A j \in 1 .. cur : j = cur \/ j \in 1 .. cur - 1
        BY <1>2
      <4> QED BY <2>4, <3>1, <3>2, <4>1
    <3>3. ASSUME NEW j \in 1 .. cur - 1, LastToDeclare(j, r, cur - 1), outputs[r] = files[j][r[2]]
          PROVE  LastToDeclare(j, r, cur) /\ j \in 1 .. cur
      <4>1. \A h \in j + 1 .. cur : h = cur \/ h \in j + 1 .. cur - 1
        BY <1>2
      <4>2. j \in 1 .. cur
        BY <1>2
      <4> QED BY <2>4, <3>3, <4>1, <4>2 DEF LastToDeclare
    <3> QED BY <3>1, <3>2, <3>3 DEF OutputsAreLatest
  <2> QED BY <2>3, <2>4
<1> QED BY <1>1, <1>3, <1>4

\* How far the runner of a step may come in one step of the system.
LEMMA RunnerStep ==
  ASSUME IInv, OnlyCommandsFail, Next, NEW i \in 1 .. Len(Steps), Steps[i].type = "export"
  PROVE  \/ runner'[i] = runner[i]
         \/ runner[i] = "none" /\ runner'[i] = "started"
         \/ runner[i] = "sendDone" /\ runner'[i] = "ended"
         \/ RunExport(i) /\ runner'[i] = "sendDone"
<1>1. /\ i \in Index
      /\ runner \in [Index -> {"none", "started", "ready", "copy", "wait",
                              "sendError", "sendDone", "ended"}]
  BY StepFields DEF IInv, TypeOK
<1>2. CASE Client \/ Type \/ ParamsUnanswered \/ ConnectionLost \/ Receiver
  BY <1>2 DEF Client, Open, OpenPanics, ClientRecv, AnswerParams, ClientRecvError, Type, ParamsUnanswered,
    ConnectionLost, Receiver, ReceiveInput, ReceiveError, runVars
<1>3. CASE BeginStep
  BY <1>1, <1>3 DEF BeginStep, IInv, RunnersFollowTheHandler
<1>4. CASE SelectError
  BY <1>1, <1>4 DEF SelectError, OnlyCommandsFail
<1>5. CASE SelectDone
  BY <1>1, <1>5 DEF SelectDone
<1>6. CASE \/ RecvRequest \/ RecvParams \/ HandshakeLost \/ RefuseStep \/ SelectInput
           \/ SelectInputError \/ CollectOutputs \/ CollectFails \/ ExecuteReturns
  BY <1>6 DEF RecvRequest, RecvParams, HandshakeLost, RefuseStep, SelectInput,
    SelectInputError, CollectOutputs, CollectFails, ExecuteReturns, runVars
<1>7. ASSUME NEW j \in Index, Runner(j) \/ Command(j)
      PROVE  runner'[i] = runner[i] \/ (RunExport(i) /\ runner'[i] = "sendDone")
  <2>1. CASE j # i
    BY <1>1, <1>7, <2>1 DEF Runner, RunExport, Prepare, StartPty, StartPtyFails, Forward,
      ForwardFails, Drained, Wait, RunnerGoes, Command, Prints, Detach, ExitOk, ExitFailed
  <2>2. CASE j = i /\ Command(j)
    BY <2>2 DEF Command, Prints, Detach, ExitOk, ExitFailed
  <2>3. CASE j = i /\ Runner(j)
    <3>1. runner[i] \notin {"ready", "copy", "wait"}
      BY <1>1 DEF IInv, CommandsFollowTheirRunner
    <3>2. RunExport(i)
      BY <2>3, <3>1 DEF Runner, Prepare, StartPty, StartPtyFails, Forward, ForwardFails,
        Drained, Wait, RunnerAt
    <3> QED BY <1>1, <3>2 DEF RunExport, RunnerGoes
  <2> QED BY <1>7, <2>1, <2>2, <2>3
<1> QED BY <1>2, <1>3, <1>4, <1>5, <1>6, <1>7 DEF Next, Handler

\* Only a command can fail to run.
LEMMA NextOnlyCommandsFail == IInv /\ OnlyCommandsFail /\ [Next]_vars => OnlyCommandsFail'
<1> SUFFICES ASSUME IInv, OnlyCommandsFail, [Next]_vars PROVE OnlyCommandsFail'
  OBVIOUS
<1>1. CASE UNCHANGED vars
  BY <1>1 DEF vars, runVars, OnlyCommandsFail, Steps
<1>2. CASE Next
  <2> USE <1>2
  <2>0. /\ Steps' = Steps
        /\ runner \in [Index -> {"none", "started", "ready", "copy", "wait",
                                "sendError", "sendDone", "ended"}]
    BY StageStays DEF IInv, TypeOK
  <2>1. CASE \E i \in Index : StartPtyFails(i) \/ ForwardFails(i) \/ Wait(i)
    BY <2>0, <2>1 DEF StartPtyFails, ForwardFails, Wait, RunnerAt, RunnerGoes, OnlyCommandsFail,
      IInv, CommandsFollowTheirRunner
  <2>2. CASE \E i \in Index : RunExport(i) \/ Prepare(i) \/ StartPty(i) \/ Drained(i)
    BY <2>0, <2>2 DEF RunExport, Prepare, StartPty, Drained, RunnerGoes, OnlyCommandsFail
  <2>3. CASE BeginStep \/ SelectError \/ SelectDone
    BY <2>0, <2>3 DEF BeginStep, SelectError, SelectDone, OnlyCommandsFail
  <2>4. CASE UNCHANGED runner
    BY <2>0, <2>4 DEF OnlyCommandsFail
  <2>5. CASE Client \/ Type \/ ParamsUnanswered \/ ConnectionLost \/ Receiver
    BY <2>4, <2>5 DEF Client, Open, OpenPanics, ClientRecv, AnswerParams, ClientRecvError, Type,
      ParamsUnanswered, ConnectionLost, Receiver, ReceiveInput, ReceiveError, runVars
  <2>6. CASE \/ RecvRequest \/ RecvParams \/ HandshakeLost \/ RefuseStep \/ SelectInput
             \/ SelectInputError \/ CollectOutputs \/ CollectFails \/ ExecuteReturns
    BY <2>4, <2>6 DEF RecvRequest, RecvParams, HandshakeLost, RefuseStep, SelectInput,
      SelectInputError, CollectOutputs, CollectFails, ExecuteReturns, runVars
  <2>7. ASSUME NEW i \in Index, Forward(i) \/ Command(i) PROVE UNCHANGED runner
    BY <2>7 DEF Forward, Command, Prints, Detach, ExitOk, ExitFailed
  <2> QED BY <2>1, <2>2, <2>3, <2>4, <2>5, <2>6, <2>7 DEF Next, Handler, Runner
<1> QED BY <1>1, <1>2

-----------------------------------------------------------------------------
(* The exports on their way to the client. *)

ExportOf(m, e) == m.type = "export" /\ m.name = e

\* When the client has taken all that is in the queue, e will be exported as x.
WillBe(e, x) ==
  \/ /\ \A n \in 1 .. Len(s2c) : ~ExportOf(s2c[n], e)
     /\ exports[e] = x
  \/ \E n \in 1 .. Len(s2c) :
       /\ ExportOf(s2c[n], e) /\ s2c[n].value = x
       /\ \A m \in n + 1 .. Len(s2c) : ~ExportOf(s2c[m], e)

Exporter(i, e) == Steps[i].type = "export" /\ Steps[i].variable = e

HasRun(i) == runner[i] \in {"sendDone", "ended"}

\* The variable will be what the last of its export steps that ran made of it.
OnItsWay(e) ==
  \/ /\ \A i \in 1 .. Len(Steps) : Exporter(i, e) => ~HasRun(i)
     /\ WillBe(e, NoValue)
  \/ \E i \in 1 .. Len(Steps) :
       /\ Exporter(i, e) /\ HasRun(i)
       /\ \A h \in 1 .. Len(Steps) : Exporter(h, e) /\ HasRun(h) => h <= i
       /\ \E x \in Value : Renders(i, x) /\ WillBe(e, x)

\* No message was lost that the client may still miss: the connection is up, or
\* the report of success is on its way behind all of them.
Whole == connected \/ result = "ok" \/ \E n \in 1 .. Len(s2c) : OkStatus(s2c[n])

ExportsOnTheirWay == Whole => \A e \in ExportName : OnItsWay(e)

\* One more message in the queue.
LEMMA WillBeSent ==
  ASSUME s2c \in Seq(Message), connected, NEW m \in Message, ToClient(m), exports' = exports,
         NEW e \in ExportName
  PROVE  /\ ExportOf(m, e) => WillBe(e, m.value)'
         /\ ~ExportOf(m, e) => \A x \in Value \cup {NoValue} : WillBe(e, x) => WillBe(e, x)'
<1>1. /\ Len(s2c') = Len(s2c) + 1 /\ s2c'[Len(s2c) + 1] = m /\ Len(s2c) \in Nat
      /\ \A n \in 1 .. Len(s2c) : s2c'[n] = s2c[n] /\ n \in 1 .. Len(s2c')
  BY ToClientQueue
<1>2. \A n \in 1 .. Len(s2c') : n \in 1 .. Len(s2c) \/ n = Len(s2c')
  BY <1>1
<1>3. CASE ExportOf(m, e)
  <2>1. Len(s2c') \in 1 .. Len(s2c') /\ \A n \in Len(s2c') + 1 .. Len(s2c') : FALSE
    BY <1>1
  <2> QED BY <1>1, <1>3, <2>1 DEF WillBe
<1>4. ASSUME ~ExportOf(m, e), NEW x \in Value \cup {NoValue}, WillBe(e, x) PROVE WillBe(e, x)'
  <2>1. CASE (\A n \in 1 .. Len(s2c) : ~ExportOf(s2c[n], e)) /\ exports[e] = x
    <3>1. \A n \in 1 .. Len(s2c') : ~ExportOf(s2c'[n], e)
      BY <1>1, <1>2, <1>4, <2>1
    <3> QED BY <2>1, <3>1 DEF WillBe, ExportOf
  <2>2. ASSUME NEW n \in 1 .. Len(s2c), ExportOf(s2c[n], e), s2c[n].value = x,
               \A k \in n + 1 .. Len(s2c) : ~ExportOf(s2c[k], e)
        PROVE  WillBe(e, x)'
    <3>1. n \in 1 .. Len(s2c') /\ s2c'[n] = s2c[n]
      BY <1>1
    <3>2. ASSUME NEW k \in n + 1 .. Len(s2c') PROVE ~ExportOf(s2c'[k], e)
      <4>1. k \in n + 1 .. Len(s2c) \/ k = Len(s2c')
        BY <1>1
      <4>2. k \in n + 1 .. Len(s2c) => k \in 1 .. Len(s2c)
        OBVIOUS
      <4> QED BY <1>1, <1>4, <2>2, <4>1, <4>2
    <3> QED BY <2>2, <3>1, <3>2 DEF WillBe, ExportOf
  <2> QED BY <1>4, <2>1, <2>2 DEF WillBe
<1> QED BY <1>3, <1>4

\* One message less.
LEMMA WillBeTaken ==
  ASSUME IInv, ClientRecv, NEW e \in ExportName, NEW x \in Value \cup {NoValue}, WillBe(e, x)
  PROVE  WillBe(e, x)'
<1>1. /\ Len(s2c) \in Nat \ {0} /\ Len(s2c') = Len(s2c) - 1
      /\ \A n \in 1 .. Len(s2c') : n + 1 \in 1 .. Len(s2c) /\ s2c'[n] = s2c[n + 1]
      /\ \A n \in 2 .. Len(s2c) : n - 1 \in 1 .. Len(s2c') /\ s2c[n] = s2c'[n - 1]
      /\ 1 \in 1 .. Len(s2c)
      /\ exports'[e] = IF ExportOf(s2c[1], e) THEN s2c[1].value ELSE exports[e]
  BY ClientTakes DEF ExportOf
<1>2. CASE (\A n \in 1 .. Len(s2c) : ~ExportOf(s2c[n], e)) /\ exports[e] = x
  <2>1. exports'[e] = x /\ \A n \in 1 .. Len(s2c') : ~ExportOf(s2c'[n], e)
    BY <1>1, <1>2
  <2> QED BY <2>1 DEF WillBe, ExportOf
<1>3. ASSUME NEW n \in 1 .. Len(s2c), ExportOf(s2c[n], e), s2c[n].value = x,
             \A k \in n + 1 .. Len(s2c) : ~ExportOf(s2c[k], e)
      PROVE  WillBe(e, x)'
  <2>1. \A k \in 1 .. Len(s2c') : k >= n => ~ExportOf(s2c'[k], e)
    <3> SUFFICES ASSUME NEW k \in 1 .. Len(s2c'), k >= n PROVE ~ExportOf(s2c'[k], e)
      OBVIOUS
    <3>1. k + 1 \in n + 1 .. Len(s2c) /\ s2c'[k] = s2c[k + 1]
      BY <1>1
    <3> QED BY <1>3, <3>1
  <2>2. CASE n = 1
    <3>1. \A k \in 1 .. Len(s2c') : ~ExportOf(s2c'[k], e)
      BY <2>1, <2>2
    <3>2. exports'[e] = x
      BY <1>1, <1>3, <2>2
    <3> QED BY <3>1, <3>2 DEF WillBe, ExportOf
  <2>3. CASE n # 1
    <3>1. n \in 2 .. Len(s2c)
      BY <2>3
    <3>2. n - 1 \in 1 .. Len(s2c') /\ s2c'[n - 1] = s2c[n]
      BY <1>1, <3>1
    <3>3. \A k \in (n - 1) + 1 .. Len(s2c') : k \in 1 .. Len(s2c') /\ k >= n
      BY <1>1
    <3> QED BY <1>3, <2>1, <3>2, <3>3 DEF WillBe, ExportOf
  <2> QED BY <2>2, <2>3
<1> QED BY <1>2, <1>3 DEF WillBe

\* What a step renders to does not change once it has been reached.
LEMMA RendersStays ==
  ASSUME IInv, Next, NEW i \in 1 .. Len(Steps), i <= cur, NEW x \in Value, Renders(i, x)
  PROVE  Renders(i, x)'
<1>1. \A j \in 1 .. i - 1 : j \in Index /\ j < cur
  BY StepsType, BoundsAssumption DEF IInv, TypeOK, Index
<1>2. Steps' = Steps /\ \A j \in 1 .. i - 1 : files'[j] = files[j]
  BY <1>1, FilesStay, StageStays
<1> QED BY <1>2 DEF Renders, Declares

\* A step that neither runs an export step of e nor changes what e will be.
LEMMA OnItsWayStays ==
  ASSUME IInv, Next, NEW e \in ExportName, OnItsWay(e),
         \A i \in 1 .. Len(Steps) : Exporter(i, e) => (HasRun(i)' <=> HasRun(i)),
         \A x \in Value \cup {NoValue} : WillBe(e, x) => WillBe(e, x)'
  PROVE  OnItsWay(e)'
<1>1. Steps' = Steps
  BY StageStays
<1>2. CASE (\A i \in 1 .. Len(Steps) : Exporter(i, e) => ~HasRun(i)) /\ WillBe(e, NoValue)
  BY <1>1, <1>2 DEF OnItsWay, Exporter
<1>3. ASSUME NEW i \in 1 .. Len(Steps), Exporter(i, e), HasRun(i),
             \A h \in 1 .. Len(Steps) : Exporter(h, e) /\ HasRun(h) => h <= i,
             NEW x \in Value, Renders(i, x), WillBe(e, x)
      PROVE  OnItsWay(e)'
  <2>1. i <= cur
    <3>1. i \in Index /\ i \in Nat /\ cur \in Nat
      BY StepFields, BoundsAssumption DEF IInv, TypeOK, Index
    <3> QED BY <1>3, <3>1 DEF HasRun, IInv, RunnersFollowTheHandler
  <2>2. Renders(i, x)' /\ WillBe(e, x)' /\ HasRun(i)'
    BY <1>3, <2>1, RendersStays
  <2>3. \A h \in 1 .. Len(Steps) : Exporter(h, e) /\ HasRun(h)' => h <= i
    BY <1>3
  <2>4. \A h \in 1 .. Len(Steps) : Exporter(h, e)' <=> Exporter(h, e)
    BY <1>1 DEF Exporter
  <2> QED BY <1>1, <1>3, <2>2, <2>3, <2>4 DEF OnItsWay
<1> QED BY <1>2, <1>3 DEF OnItsWay

\* Only the client changes its exports.
LEMMA ExportsStay ==
  ASSUME Next, ~ClientRecv
  PROVE  exports' = exports /\ (result' = "ok" => result = "ok")
BY DEF Next, Client, Open, OpenPanics, AnswerParams, ClientRecvError, Type, ParamsUnanswered,
  ConnectionLost, Handler, RecvRequest, RecvParams, HandshakeLost, BeginStep, RefuseStep,
  SelectInput, SelectInputError, SelectError, SelectDone, CollectOutputs, CollectFails,
  ExecuteReturns, Receiver, ReceiveInput, ReceiveError, Runner, RunExport, Prepare, StartPty,
  StartPtyFails, Forward, ForwardFails, Drained, Wait, Command, Prints, Detach, ExitOk,
  ExitFailed, Returns, clientVars

\* A connection that is lost stays lost.
LEMMA LostForGood == ASSUME Next PROVE connected' => connected
BY DEF Next, Client, Open, OpenPanics, ClientRecv, AnswerParams, ClientRecvError, Type, ParamsUnanswered,
  ConnectionLost, Handler, RecvRequest, RecvParams, HandshakeLost, BeginStep, RefuseStep,
  SelectInput, SelectInputError, SelectError, SelectDone, CollectOutputs, CollectFails,
  ExecuteReturns, Receiver, ReceiveInput, ReceiveError, Runner, RunExport, Prepare, StartPty,
  StartPtyFails, Forward, ForwardFails, Drained, Wait, Command, Prints, Detach, ExitOk,
  ExitFailed, netVars

\* A client that has returned does nothing more.
LEMMA DoneForGood == ASSUME [Next]_vars, client = "done" PROVE client' = "done"
BY DEF vars, Next, Client, Open, OpenPanics, ClientRecv, AnswerParams, ClientRecvError, Type,
  ParamsUnanswered, ConnectionLost, Handler, RecvRequest, RecvParams, HandshakeLost, BeginStep, RefuseStep,
  SelectInput, SelectInputError, SelectError, SelectDone, CollectOutputs, CollectFails,
  ExecuteReturns, Receiver, ReceiveInput, ReceiveError, Runner, RunExport, Prepare, StartPty,
  StartPtyFails, Forward, ForwardFails, Drained, Wait, Command, Prints, Detach, ExitOk,
  ExitFailed, Returns, clientVars

\* What was lost does not come back.
LEMMA WholeBefore ==
  ASSUME IInv, Next, Whole'
  PROVE  Whole
<1>1. connected' => connected
  BY LostForGood
<1>2. CASE ClientRecv
  <2>1. /\ \A n \in 1 .. Len(s2c') : n + 1 \in 1 .. Len(s2c) /\ s2c'[n] = s2c[n + 1]
        /\ 1 \in 1 .. Len(s2c)
        /\ result' = "ok" => result = "ok" \/ OkStatus(s2c[1])
    BY <1>2, ClientTakes
  <2> QED BY <1>1, <2>1 DEF Whole
<1>3. CASE s2c' = s2c /\ ~ClientRecv
  BY <1>1, <1>3, ExportsStay DEF Whole
<1>4. ASSUME ~ClientRecv, NEW m \in Message, ToClient(m) PROVE Whole
  <2>1. ~connected => s2c' = s2c
    BY <1>4 DEF ToClient
  <2> QED BY <1>1, <1>4, <2>1, ExportsStay DEF Whole
<1> QED BY <1>2, <1>3, <1>4, QueueStep

\* An export step that ran makes its variable what it renders to.
LEMMA ExporterSends ==
  ASSUME IInv, OutputsAreLatest, connected, NEW i \in Index, RunExport(i), NEW e \in ExportName
  PROVE  /\ Exporter(i, e) => OnItsWay(e)'
         /\ ~Exporter(i, e) =>
              \A x \in Value \cup {NoValue} : WillBe(e, x) => WillBe(e, x)'
<1> DEFINE r == Steps[i].ref
           value == outputs[r]
<1>1. Next
  BY DEF Next, Runner
<1>2. /\ i = cur /\ i \in 1 .. Len(Steps) /\ Steps[i].type = "export"
      /\ r \in OutputRef /\ cur \in Nat
  BY ExportSends, StepFields, BoundsAssumption DEF IInv, TypeOK
<1>3. PICK m \in Message :
        /\ m.type = "export" /\ m.name = Steps[i].variable
        /\ m.value = Escape[IF value = NoValue THEN Empty ELSE value]
        /\ m.value \in Value
        /\ ToClient(m)
  BY ExportSends
<1>4. s2c \in Seq(Message) /\ exports' = exports
  BY DEF RunExport, clientVars, IInv, TypeOK
<1>5. Renders(i, m.value)
  <2>1. CASE (\A j \in 1 .. i - 1 : ~Declares(j, r)) /\ value = NoValue
    BY <1>3, <2>1 DEF Renders
  <2>2. ASSUME NEW j \in 1 .. i - 1, LastToDeclare(j, r, i - 1), value = files[j][r[2]]
        PROVE  Renders(i, m.value)
    <3>1. value # NoValue
      <4>1. j \in Index /\ j < cur
        BY <1>2, StepsType, BoundsAssumption DEF Index
      <4>2. r[2] \in Steps[j].outputs
        BY <2>2 DEF LastToDeclare, Declares
      <4> QED BY <2>2, <4>1, <4>2 DEF IInv, OutputsCollected
    <3> QED BY <1>3, <2>2, <3>1 DEF Renders, LastToDeclare
  <2> QED BY <1>2, <2>1, <2>2 DEF OutputsAreLatest
<1>6. Renders(i, m.value)'
  BY <1>1, <1>2, <1>3, <1>5, RendersStays
<1>7. /\ Steps' = Steps /\ HasRun(i)'
      /\ \A h \in 1 .. Len(Steps) : HasRun(h)' => h <= i
  <2>1. Steps' = Steps
    BY <1>1, StageStays
  <2>2. runner' = [runner EXCEPT ![i] = "sendDone"]
    BY DEF RunExport, RunnerGoes
  <2>3. runner \in [Index -> {"none", "started", "ready", "copy", "wait",
                             "sendError", "sendDone", "ended"}]
    BY DEF IInv, TypeOK
  <2>4. ASSUME NEW h \in 1 .. Len(Steps), ~(h <= i) PROVE ~(HasRun(h)')
    <3>1. h \in Index /\ h > cur /\ h # i
      BY <1>2, <2>4, StepFields
    <3>2. runner[h] = "none"
      BY <3>1 DEF IInv, RunnersFollowTheHandler
    <3> QED BY <2>2, <2>3, <3>1, <3>2 DEF HasRun
  <2> QED BY <2>1, <2>2, <2>3, <2>4 DEF HasRun
<1>8. ASSUME Exporter(i, e) PROVE OnItsWay(e)'
  <2>1. ExportOf(m, e)
    BY <1>3, <1>8 DEF ExportOf, Exporter
  <2>2. WillBe(e, m.value)'
    BY <1>4, <1>3, <2>1, WillBeSent
  <2>3. Exporter(i, e)'
    BY <1>7, <1>8 DEF Exporter
  <2> QED BY <1>2, <1>3, <1>6, <1>7, <2>2, <2>3 DEF OnItsWay
<1>9. ASSUME ~Exporter(i, e), NEW x \in Value \cup {NoValue}, WillBe(e, x)
      PROVE  WillBe(e, x)'
  <2>1. ~ExportOf(m, e)
    BY <1>2, <1>3, <1>9 DEF ExportOf, Exporter
  <2> QED BY <1>3, <1>4, <1>9, <2>1, WillBeSent
<1> QED BY <1>8, <1>9

\* Every step keeps the exports on their way.
LEMMA NextExportsOnTheirWay ==
  ASSUME IInv, OutputsAreLatest, OnlyCommandsFail, ExportsOnTheirWay, [Next]_vars
  PROVE  ExportsOnTheirWay'
<1>1. CASE UNCHANGED vars
  <2>1. /\ UNCHANGED <<stage, exports, result, s2c, connected, runner, files>>
        /\ Steps' = Steps
    BY <1>1 DEF vars, clientVars, netVars, runVars, Steps
  <2>2. Whole' => Whole
    BY <2>1 DEF Whole
  <2>3. \A i \in 1 .. Len(Steps), x \in Value : Renders(i, x) => Renders(i, x)'
    BY <2>1 DEF Renders, Declares
  <2>4. \A e \in ExportName, x \in Value \cup {NoValue} : WillBe(e, x) => WillBe(e, x)'
    BY <2>1 DEF WillBe
  <2>5. /\ \A i \in 1 .. Len(Steps), e \in ExportName : Exporter(i, e)' <=> Exporter(i, e)
        /\ \A i \in 1 .. Len(Steps) : HasRun(i)' <=> HasRun(i)
    BY <2>1 DEF Exporter, HasRun
  <2>6. ASSUME NEW e \in ExportName, OnItsWay(e) PROVE OnItsWay(e)'
    BY <2>1, <2>3, <2>4, <2>5, <2>6 DEF OnItsWay
  <2> QED BY <2>2, <2>6 DEF ExportsOnTheirWay
<1>2. CASE Next
  <2> SUFFICES ASSUME Whole', NEW e \in ExportName PROVE OnItsWay(e)'
    BY DEF ExportsOnTheirWay
  <2>1. Whole /\ \A d \in ExportName : OnItsWay(d)
    BY <1>2, WholeBefore DEF ExportsOnTheirWay
  <2>2. ASSUME NEW i \in 1 .. Len(Steps), Exporter(i, e), ~RunExport(i)
        PROVE  HasRun(i)' <=> HasRun(i)
    BY <1>2, <2>2, RunnerStep DEF Exporter, HasRun
  <2>3. CASE \E i \in Index : RunExport(i)
    <3>1. PICK i \in Index : RunExport(i)
      BY <2>3
    <3>2. i \in 1 .. Len(Steps) /\ i = cur /\ runner[i] = "started"
      BY <3>1, ExportSends
    <3>3. handler # "succeeded"
      BY <3>2, SucceededIsOver
    <3>4. connected
      BY <2>1, <3>3 DEF Whole, IInv, SuccessIsReported
    <3>5. CASE Exporter(i, e)
      BY <3>1, <3>4, <3>5, ExporterSends
    <3>6. CASE ~Exporter(i, e)
      <4>1. \A x \in Value \cup {NoValue} : WillBe(e, x) => WillBe(e, x)'
        BY <3>1, <3>4, <3>6, ExporterSends
      <4>2. \A h \in Index : RunExport(h) => h = i
        BY <3>2, ExportSends
      <4>3. \A h \in 1 .. Len(Steps) : Exporter(h, e) => (HasRun(h)' <=> HasRun(h))
        BY <2>2, <3>6, <4>2, StepFields
      <4> QED BY <1>2, <2>1, <4>1, <4>3, OnItsWayStays
    <3> QED BY <3>5, <3>6
  <2>4. CASE ~ \E i \in Index : RunExport(i)
    <3>1. \A i \in 1 .. Len(Steps) : Exporter(i, e) => (HasRun(i)' <=> HasRun(i))
      BY <2>2, <2>4, StepFields
    <3>2. \A x \in Value \cup {NoValue} : WillBe(e, x) => WillBe(e, x)'
      <4>1. CASE ClientRecv
        BY <4>1, WillBeTaken
      <4>2. CASE s2c' = s2c /\ ~ClientRecv
        BY <1>2, <4>2, ExportsStay DEF WillBe
      <4>3. ASSUME NEW m \in Message, ToClient(m), m.type # "export", ~ClientRecv
            PROVE  \A x \in Value \cup {NoValue} : WillBe(e, x) => WillBe(e, x)'
        <5>1. exports' = exports /\ s2c \in Seq(Message) /\ ~ExportOf(m, e)
          BY <1>2, <4>3, ExportsStay DEF IInv, TypeOK, ExportOf
        <5>2. CASE connected
          BY <4>3, <5>1, <5>2, WillBeSent
        <5>3. CASE ~connected
          BY <4>3, <5>1, <5>3 DEF ToClient, WillBe
        <5> QED BY <5>2, <5>3
      <4> QED BY <1>2, <2>4, <4>1, <4>2, <4>3, QueueStep
    <3> QED BY <1>2, <2>1, <3>1, <3>2, OnItsWayStays
  <2> QED BY <2>3, <2>4
<1> QED BY <1>1, <1>2

\* The inductive invariant of the exports.
DeliveryInv == SuccessIsLast /\ OutputsAreLatest /\ OnlyCommandsFail /\ ExportsOnTheirWay

\* What the client shows of an export was last collected for it.
THEOREM DeliveryInvHolds == Spec => []DeliveryInv
<1>1. Init => DeliveryInv
  <2> SUFFICES ASSUME Init PROVE DeliveryInv
    OBVIOUS
  <2>1. SuccessIsLast /\ OnlyCommandsFail
    BY DEF Init, SuccessIsLast, OnlyCommandsFail
  <2>2. OutputsAreLatest
    BY DEF Init, OutputsAreLatest
  <2>3. ExportsOnTheirWay
    <3>1. \A e \in ExportName : WillBe(e, NoValue)
      BY DEF Init, WillBe
    <3>2. \A i \in 1 .. Len(Steps) : ~HasRun(i)
      BY StepFields DEF Init, HasRun
    <3> QED BY <3>1, <3>2 DEF ExportsOnTheirWay, OnItsWay
  <2> QED BY <2>1, <2>2, <2>3 DEF DeliveryInv
<1>2. IInv /\ DeliveryInv /\ [Next]_vars => DeliveryInv'
  BY NextSuccessIsLast, NextOutputsAreLatest, NextOnlyCommandsFail, NextExportsOnTheirWay
    DEF DeliveryInv
<1> QED BY <1>1, <1>2, IInvHolds, PTL DEF Spec

\* The exports returned with success are what the export steps of the stage
\* render to, for every definition and under every fault: ExportsDelivered.
THEOREM ExportsDeliveredHolds == Spec => []ExportsDelivered
<1>1. IInv /\ DeliveryInv => ExportsDelivered
  <2> SUFFICES ASSUME IInv, DeliveryInv, result = "ok", NEW e \in ExportName
               PROVE  LET exporters == {i \in 1 .. Len(Steps) :
                                          Steps[i].type = "export" /\ Steps[i].variable = e}
                      IN IF exporters = {} THEN exports[e] = NoValue
                         ELSE \E i \in exporters :
                                /\ \A h \in exporters : h <= i
                                /\ Renders(i, exports[e])
    BY DEF ExportsDelivered
  <2>1. s2c = <<>> /\ OnItsWay(e)
    BY DEF DeliveryInv, SuccessIsLast, ExportsOnTheirWay, Whole
  <2>2. \A x : WillBe(e, x) => exports[e] = x
    BY <2>1 DEF WillBe
  <2>3. \A i \in 1 .. Len(Steps) : HasRun(i)
    <3>1. handler = "succeeded"
      BY DEF IInv, SuccessIsReported
    <3> QED BY <3>1, SucceededIsOver, StepFields DEF HasRun
  <2>4. CASE \A i \in 1 .. Len(Steps) : ~Exporter(i, e)
    BY <2>1, <2>2, <2>4 DEF OnItsWay, Exporter
  <2>5. ASSUME NEW i \in 1 .. Len(Steps), Exporter(i, e)
        PROVE  \E k \in 1 .. Len(Steps) :
                 /\ Exporter(k, e) /\ Renders(k, exports[e])
                 /\ \A h \in 1 .. Len(Steps) : Exporter(h, e) => h <= k
    BY <2>1, <2>2, <2>3, <2>5 DEF OnItsWay
  <2> QED BY <2>4, <2>5 DEF Exporter
<1> QED BY <1>1, IInvHolds, DeliveryInvHolds, PTL

\* What validation makes sure of, for names without dots and templates without
\* conditions (LookupsFound of Definition): an export refers to an output that
\* an earlier step of the stage declares.
ReferencesDeclared ==
  \A s \in DOMAIN Definition : \A i \in 1 .. Len(Definition[s]) :
    Definition[s][i].type = "export" =>
      \E j \in 1 .. i - 1 : /\ Definition[s][j].name = Definition[s][i].ref[1]
                            /\ Definition[s][i].ref[2] \in Definition[s][j].outputs

\* No variable that the stage exports is missing, and each has a value that a
\* step of the stage wrote.
ExportsWritten ==
  result = "ok" =>
    \A i \in 1 .. Len(Steps) : Steps[i].type = "export" =>
      \E j \in 1 .. Len(Steps), k \in Key :
        /\ k \in Steps[j].outputs /\ files[j][k] # NoValue
        /\ exports[Steps[i].variable] = Escape[files[j][k]]

\* A stage whose references are declared, and that succeeds, never hands an empty
\* value on for an output that it does not have (ExportsWritten).
THEOREM ExportsWrittenHolds == ReferencesDeclared => (Spec => []ExportsWritten)
<1>1. ReferencesDeclared /\ IInv /\ SuccessIsComplete /\ ExportsDelivered => ExportsWritten
  <2> SUFFICES ASSUME ReferencesDeclared, IInv, SuccessIsComplete, ExportsDelivered, result = "ok",
                      NEW i \in 1 .. Len(Steps), Steps[i].type = "export"
               PROVE  \E j \in 1 .. Len(Steps), k \in Key :
                        /\ k \in Steps[j].outputs /\ files[j][k] # NoValue
                        /\ exports[Steps[i].variable] = Escape[files[j][k]]
    BY DEF ExportsWritten
  <2> DEFINE e == Steps[i].variable
  <2>1. e \in ExportName
    BY StepFields
  <2>2. PICK h \in 1 .. Len(Steps) : Steps[h].type = "export" /\ Renders(h, exports[e])
    BY <2>1 DEF ExportsDelivered
  <2>3. Steps[h].ref \in Name \X Key
    BY StepFields DEF OutputRef
  <2>4. \E j \in 1 .. h - 1 : Declares(j, Steps[h].ref)
    BY <2>2 DEF SuccessIsComplete, ReferencesDeclared, Declares, Steps
  <2>5. PICK j \in 1 .. h - 1 : /\ Declares(j, Steps[h].ref)
                                /\ exports[e] = Escape[files[j][Steps[h].ref[2]]]
    BY <2>2, <2>4 DEF Renders
  <2>6. j \in 1 .. Len(Steps)
    BY StepFields
  <2> QED BY <2>3, <2>5, <2>6 DEF Declares, SuccessIsComplete
<1>2. ReferencesDeclared => []ReferencesDeclared
  <2>1. ReferencesDeclared => ReferencesDeclared'
    BY DEF ReferencesDeclared
  <2> QED BY <2>1, PTL
<1> QED BY <1>1, <1>2, IInvHolds, SuccessIsCompleteHolds, ExportsDeliveredHolds, PTL

-----------------------------------------------------------------------------
(* What is behind the handshake. *)

\* The handler has had both messages of the handshake.
PastHandshake == receiver # "off" \/ handler \in {"step", "select", "collect", "succeeded"}

\* There is one question for parameters and one answer to it: while the handler
\* waits for the answer, the question or the answer is on its way and nothing
\* but input is behind it; later only input is left to receive.
OnlyInputFollows ==
  /\ handler = "recvParams" =>
       /\ client # "open"
       /\ s2c = <<>> \/ s2c = <<[type |-> "paramsRequest"]>>
       /\ s2c # <<>> => client # "prompt"
       /\ s2c # <<>> \/ client = "prompt" => c2s = <<>> /\ ~copying
       /\ \A n \in 2 .. Len(c2s) : c2s[n] = "input"
  /\ PastHandshake =>
       /\ client \notin {"open", "prompt"}
       /\ \A n \in 1 .. Len(s2c) : s2c[n].type # "paramsRequest"
       /\ \A n \in 1 .. Len(c2s) : c2s[n] = "input"

FromClient == {"stageExecuteRequest", "paramsResponse", "input"}

\* One more message for the server.
LEMMA ToServerQueue ==
  ASSUME c2s \in Seq(FromClient), NEW m \in FromClient, ToServer(m)
  PROVE  /\ connected => /\ Len(c2s') = Len(c2s) + 1 /\ c2s'[Len(c2s) + 1] = m
                         /\ \A n \in 1 .. Len(c2s) : c2s'[n] = c2s[n]
         /\ ~connected => c2s' = c2s
         /\ Len(c2s) \in Nat
         /\ \A n \in 1 .. Len(c2s') : (n \in 1 .. Len(c2s) /\ c2s'[n] = c2s[n])
                                      \/ (n = Len(c2s) + 1 /\ c2s'[n] = m)
<1>1. CASE connected
  <2>1. c2s' = Append(c2s, m)
    BY <1>1 DEF ToServer
  <2> QED BY <1>1, <2>1
<1>2. CASE ~connected
  BY <1>2 DEF ToServer
<1> QED BY <1>1, <1>2

\* One message less for the server.
LEMMA ServerTakes ==
  ASSUME c2s \in Seq(FromClient), c2s # <<>>, c2s' = Tail(c2s)
  PROVE  /\ Len(c2s) \in Nat \ {0} /\ Len(c2s') = Len(c2s) - 1 /\ 1 \in 1 .. Len(c2s)
         /\ Head(c2s) = c2s[1]
         /\ \A n \in 1 .. Len(c2s') : /\ n + 1 \in 1 .. Len(c2s) /\ n + 1 \in 2 .. Len(c2s)
                                      /\ c2s'[n] = c2s[n + 1]
OBVIOUS

\* The client, the user and the connection keep to the order.
LEMMA ClientFollows ==
  ASSUME IInv, HandshakeInOrder, OnlyInputFollows,
         Client \/ Type \/ ParamsUnanswered \/ ConnectionLost
  PROVE  OnlyInputFollows'
<1>0. /\ c2s \in Seq(FromClient)
      /\ PastHandshake' <=> PastHandshake
      /\ handler' = handler
  BY DEF IInv, TypeOK, FromClient, PastHandshake, Client, Open, OpenPanics, ClientRecv, AnswerParams,
    ClientRecvError, Type, ParamsUnanswered, ConnectionLost, inputVars, stepVars
<1>1. CASE Open
  BY <1>0, <1>1 DEF Open, OnlyInputFollows
<1>2. CASE ClientRecv
  <2>1. /\ Len(s2c) \in Nat \ {0} /\ s2c' = Tail(s2c) /\ s2c # <<>> /\ 1 \in 1 .. Len(s2c)
        /\ \A n \in 1 .. Len(s2c') : n + 1 \in 1 .. Len(s2c) /\ s2c'[n] = s2c[n + 1]
    BY <1>2, ClientTakes
  <2>2. /\ UNCHANGED <<c2s, copying>> /\ client' # "open"
        /\ client' = "prompt" => s2c[1].type = "paramsRequest"
    <3>1. Head(s2c) = s2c[1]
      BY <2>1 DEF IInv, TypeOK
    <3> QED BY <1>2, <3>1 DEF ClientRecv, Returns
  <2>3. handler = "recvParams" => s2c' = <<>> /\ c2s = <<>> /\ ~copying
    BY <2>1 DEF OnlyInputFollows
  <2> QED BY <1>0, <2>1, <2>2, <2>3 DEF OnlyInputFollows
<1>3. CASE AnswerParams
  <2>1. client = "prompt" /\ client' = "receive" /\ s2c' = s2c /\ ToServer("paramsResponse")
    BY <1>3 DEF AnswerParams
  <2>2. ~PastHandshake
    BY <2>1 DEF OnlyInputFollows
  <2>3. ASSUME handler = "recvParams" PROVE s2c = <<>> /\ \A n \in 2 .. Len(c2s') : c2s'[n] = "input"
    <3>1. s2c = <<>> /\ c2s = <<>>
      BY <2>1, <2>3 DEF OnlyInputFollows
    <3>2. Len(c2s') \in {0, 1}
      BY <1>0, <2>1, <3>1, ToServerQueue DEF FromClient
    <3> QED BY <3>1, <3>2
  <2> QED BY <1>0, <2>1, <2>2, <2>3 DEF OnlyInputFollows
<1>4. CASE Type
  <2>1. /\ copying /\ UNCHANGED <<client, s2c, copying>>
        /\ c2s' = c2s \/ ToServer("input")
    BY <1>4 DEF Type
  <2>2. CASE c2s' = c2s
    BY <1>0, <2>1, <2>2 DEF OnlyInputFollows
  <2>3. CASE ToServer("input")
    <3>1. \A n \in 1 .. Len(c2s') : (n \in 1 .. Len(c2s) /\ c2s'[n] = c2s[n]) \/ c2s'[n] = "input"
      BY <1>0, <2>3, ToServerQueue DEF FromClient
    <3>2. PastHandshake => \A n \in 1 .. Len(c2s') : c2s'[n] = "input"
      BY <3>1 DEF OnlyInputFollows
    <3>3. handler = "recvParams" => \A n \in 2 .. Len(c2s') : c2s'[n] = "input"
      <4>1. \A n \in 2 .. Len(c2s') : n \in 1 .. Len(c2s') /\ (n \in 1 .. Len(c2s) => n \in 2 .. Len(c2s))
        OBVIOUS
      <4> QED BY <3>1, <4>1 DEF OnlyInputFollows
    <3> QED BY <1>0, <2>1, <3>2, <3>3 DEF OnlyInputFollows
  <2> QED BY <2>1, <2>2, <2>3
<1>5. CASE OpenPanics \/ ClientRecvError \/ ParamsUnanswered \/ ConnectionLost
  BY <1>0, <1>5 DEF OpenPanics, ClientRecvError, ParamsUnanswered, ConnectionLost, Returns,
    clientVars, netVars, OnlyInputFollows
<1> QED BY <1>1, <1>2, <1>3, <1>4, <1>5 DEF Client

\* The handler keeps to the order.
LEMMA HandlerFollows ==
  ASSUME IInv, HandshakeInOrder, OnlyInputFollows, Handler
  PROVE  OnlyInputFollows'
<1>0. c2s \in Seq(FromClient) /\ s2c \in Seq(Message)
  BY DEF IInv, TypeOK, FromClient
<1>1. CASE RecvRequest
  <2>1. /\ s2c = <<>> /\ ~copying /\ client \notin {"open", "prompt"}
        /\ c2s = <<"stageExecuteRequest">> /\ receiver = "off"
    BY <1>1 DEF RecvRequest, HandshakeInOrder
  <2>2. c2s' = <<>> /\ UNCHANGED <<client, copying, receiver>>
    BY <1>1, <2>1 DEF RecvRequest, clientVars, inputVars
  <2>3. \/ handler' = "failed"
        \/ handler' = "recvParams" /\ ToClient([type |-> "paramsRequest"])
    BY <1>1, <2>1 DEF RecvRequest, HandlerReturns
  <2>4. ToClient([type |-> "paramsRequest"]) => s2c' \in {<<>>, <<[type |-> "paramsRequest"]>>}
    BY <2>1 DEF ToClient
  <2> QED BY <2>1, <2>2, <2>3, <2>4 DEF OnlyInputFollows, PastHandshake
<1>2. CASE RecvParams
  <2>1. Head(c2s) = "paramsResponse" /\ c2s # <<>> /\ c2s' = Tail(c2s) /\ handler = "recvParams"
    BY <1>2 DEF RecvParams, HandshakeInOrder
  <2>2. handler' = "step" /\ UNCHANGED <<s2c, client, copying>>
    BY <1>2, <2>1 DEF RecvParams, clientVars
  <2>3. s2c = <<>> /\ client \notin {"open", "prompt"}
    BY <2>1 DEF OnlyInputFollows
  <2>4. \A n \in 1 .. Len(c2s') : c2s'[n] = "input"
    BY <1>0, <2>1, ServerTakes DEF OnlyInputFollows
  <2> QED BY <2>2, <2>3, <2>4 DEF OnlyInputFollows, PastHandshake
<1>3. CASE HandshakeLost
  <2>1. handler' = "failed" /\ receiver' = "off"
    BY <1>3 DEF HandshakeLost, HandlerReturns, HandshakeInOrder, inputVars
  <2> QED BY <2>1 DEF OnlyInputFollows, PastHandshake
<1>4. CASE /\ PastHandshake /\ handler' # "recvParams" /\ UNCHANGED <<c2s, client>>
           /\ s2c' = s2c \/ \E ok \in BOOLEAN : ToClient([type |-> "status", ok |-> ok])
  <2>1. CASE s2c' = s2c
    BY <1>4, <2>1 DEF OnlyInputFollows
  <2>2. ASSUME NEW ok \in BOOLEAN, ToClient([type |-> "status", ok |-> ok])
        PROVE  \A n \in 1 .. Len(s2c') : s2c'[n].type # "paramsRequest"
    <3> DEFINE m == [type |-> "status", ok |-> ok]
    <3>1. m \in Message /\ m.type # "paramsRequest" /\ ToClient(m)
      BY <2>2, MessageType
    <3> HIDE DEF m
    <3>2. /\ connected => /\ Len(s2c') = Len(s2c) + 1 /\ s2c'[Len(s2c) + 1] = m
                          /\ \A n \in 1 .. Len(s2c) : s2c'[n] = s2c[n]
          /\ ~connected => s2c' = s2c
          /\ Len(s2c) \in Nat
      BY <1>0, <3>1, ToClientQueue
    <3> QED BY <1>4, <3>1, <3>2 DEF OnlyInputFollows
  <2> QED BY <1>4, <2>1, <2>2 DEF OnlyInputFollows
<1>5. CASE BeginStep \/ SelectInput \/ SelectDone \/ CollectOutputs
  BY <1>4, <1>5 DEF BeginStep, SelectInput, SelectDone, CollectOutputs, PastHandshake,
    clientVars, netVars
<1>6. CASE RefuseStep \/ SelectInputError \/ SelectError \/ CollectFails \/ ExecuteReturns
  <2>1. \E h \in {"failed", "succeeded"} : HandlerReturns(h)
    BY <1>6 DEF RefuseStep, SelectInputError, SelectError, CollectFails, ExecuteReturns
  <2>2. handler' # "recvParams" /\ \E ok \in BOOLEAN : ToClient([type |-> "status", ok |-> ok])
    BY <2>1 DEF HandlerReturns
  <2>3. PastHandshake /\ UNCHANGED <<c2s, client>>
    BY <1>6 DEF RefuseStep, SelectInputError, SelectError, CollectFails, ExecuteReturns,
      PastHandshake, clientVars
  <2> QED BY <1>4, <2>2, <2>3
<1> QED BY <1>1, <1>2, <1>3, <1>5, <1>6 DEF Handler

\* The receiving goroutine keeps to the order.
LEMMA ReceiverFollows ==
  ASSUME IInv, HandshakeInOrder, OnlyInputFollows, Receiver
  PROVE  OnlyInputFollows'
<1>1. c2s \in Seq(FromClient)
  BY DEF IInv, TypeOK, FromClient
<1>2. receiver = "recv" /\ UNCHANGED <<handler, s2c, client, copying>>
  BY DEF Receiver, ReceiveInput, ReceiveError, clientVars, netVars, stepVars
<1>3. PastHandshake /\ handler # "recvParams"
  BY <1>2 DEF PastHandshake, HandshakeInOrder
<1>4. \A n \in 1 .. Len(c2s') : c2s'[n] = "input"
  <2>1. CASE ReceiveInput
    <3>1. c2s # <<>> /\ c2s' = Tail(c2s)
      BY <2>1 DEF ReceiveInput
    <3> QED BY <1>1, <1>3, <3>1, ServerTakes DEF OnlyInputFollows
  <2>2. CASE ReceiveError
    BY <1>3, <2>2 DEF ReceiveError, netVars, OnlyInputFollows
  <2> QED BY <2>1, <2>2 DEF Receiver
<1> QED BY <1>2, <1>3, <1>4 DEF OnlyInputFollows

\* The runners and the commands keep to the order.
LEMMA WorkersFollow ==
  ASSUME IInv, HandshakeInOrder, OnlyInputFollows, NEW i \in Index, Runner(i) \/ Command(i)
  PROVE  OnlyInputFollows'
<1>1. s2c \in Seq(Message)
  BY DEF IInv, TypeOK
<1>2. CASE UNCHANGED <<handler, receiver, c2s, s2c, client, copying>>
  BY <1>2 DEF OnlyInputFollows, PastHandshake
<1>3. ASSUME RunExport(i) \/ Forward(i) PROVE OnlyInputFollows'
  <2>1. PICK m \in Message : m.type # "paramsRequest" /\ ToClient(m)
    BY <1>3, ExportSends, ForwardSends
  <2>2. UNCHANGED <<handler, receiver, c2s, client, copying>>
    BY <1>3 DEF RunExport, Forward, clientVars, inputVars, stepVars
  <2>3. handler # "recvParams"
    <3>1. runner[i] \in AtWork
      BY <1>3 DEF RunExport, Forward, RunnerAt, AtWork
    <3> QED BY <3>1, NobodyAtWork DEF Finished
  <2>4. /\ connected => /\ Len(s2c') = Len(s2c) + 1 /\ s2c'[Len(s2c) + 1] = m
                        /\ \A n \in 1 .. Len(s2c) : s2c'[n] = s2c[n]
        /\ ~connected => s2c' = s2c
        /\ Len(s2c) \in Nat
    BY <1>1, <2>1, ToClientQueue
  <2>5. PastHandshake => \A n \in 1 .. Len(s2c') : s2c'[n].type # "paramsRequest"
    BY <2>1, <2>4 DEF OnlyInputFollows
  <2> QED BY <2>2, <2>3, <2>5 DEF OnlyInputFollows, PastHandshake
<1>4. CASE Runner(i) /\ ~RunExport(i) /\ ~Forward(i)
  BY <1>2, <1>4 DEF Runner, Prepare, StartPty, StartPtyFails, ForwardFails, Drained, Wait,
    clientVars, netVars, inputVars, stepVars
<1>5. CASE Command(i)
  BY <1>2, <1>5 DEF Command, Prints, Detach, ExitOk, ExitFailed, clientVars, netVars,
    inputVars, stepVars
<1> QED BY <1>3, <1>4, <1>5

\* Once the handler has both messages of the handshake it is sent nothing but
\* input, and the client is asked for nothing: a chunk of stdin cannot be taken
\* for an answer of the handshake, nor the other way round.
THEOREM OnlyInputFollowsHolds == Spec => []OnlyInputFollows
<1>1. Init => OnlyInputFollows
  BY DEF Init, OnlyInputFollows, PastHandshake
<1>2. IInv /\ HandshakeInOrder /\ OnlyInputFollows /\ [Next]_vars => OnlyInputFollows'
  <2> SUFFICES ASSUME IInv, HandshakeInOrder, OnlyInputFollows, [Next]_vars
               PROVE  OnlyInputFollows'
    OBVIOUS
  <2>1. CASE UNCHANGED vars
    BY <2>1 DEF vars, clientVars, netVars, inputVars, stepVars, OnlyInputFollows, PastHandshake
  <2> QED BY <2>1, ClientFollows, HandlerFollows, ReceiverFollows, WorkersFollow DEF Next
<1> QED BY <1>1, <1>2, IInvHolds, HandshakeInOrderHolds, PTL DEF Spec

-----------------------------------------------------------------------------
(* Questions and answers. *)

\* The questions in the first n entries of a script.
Asks(script, n) == Cardinality({k \in 1 .. n : script[k] = "ask"})

\* Questions are counted one by one.
LEMMA AsksFacts ==
  ASSUME NEW script, NEW n \in Nat
  PROVE  /\ Asks(script, n) \in Nat
         /\ Asks(script, 0) = 0
         /\ Asks(script, n + 1) = IF script[n + 1] = "ask" THEN Asks(script, n) + 1
                                 ELSE Asks(script, n)
<1> DEFINE Upto(m) == {k \in 1 .. m : script[k] = "ask"}
<1>1. \A m \in Nat : IsFiniteSet(Upto(m)) /\ Cardinality(Upto(m)) \in Nat
  <2> SUFFICES ASSUME NEW m \in Nat PROVE IsFiniteSet(Upto(m)) /\ Cardinality(Upto(m)) \in Nat
    OBVIOUS
  <2>1. IsFiniteSet(1 .. m)
    BY FS_Interval
  <2>2. Upto(m) \subseteq 1 .. m
    OBVIOUS
  <2> QED BY <2>1, <2>2, FS_Subset, FS_CardinalityType
<1>2. Asks(script, 0) = 0
  <2>1. Upto(0) = {}
    OBVIOUS
  <2> QED BY <2>1, FS_EmptySet DEF Asks
<1>3. CASE script[n + 1] = "ask"
  <2>1. Upto(n + 1) = Upto(n) \cup {n + 1} /\ n + 1 \notin Upto(n)
    BY <1>3
  <2> QED BY <1>1, <1>2, <1>3, <2>1, FS_AddElement DEF Asks
<1>4. CASE script[n + 1] # "ask"
  <2>1. Upto(n + 1) = Upto(n)
    BY <1>4
  <2> QED BY <1>1, <1>2, <1>4, <2>1 DEF Asks
<1> QED BY <1>3, <1>4

\* What is later in the script has no fewer questions before it.
LEMMA AsksGrow ==
  ASSUME NEW script, NEW m \in Nat, NEW n \in Nat, m <= n
  PROVE  Asks(script, m) <= Asks(script, n)
<1> DEFINE Upto(k) == {h \in 1 .. k : script[h] = "ask"}
<1>1. IsFiniteSet(1 .. n)
  BY FS_Interval
<1>2. Upto(n) \subseteq 1 .. n /\ Upto(m) \subseteq Upto(n)
  OBVIOUS
<1>3. IsFiniteSet(Upto(n))
  BY <1>1, <1>2, FS_Subset
<1> QED BY <1>2, <1>3, FS_Subset DEF Asks

\* The questions of command i that were sent to the client.
Seen(i) == Asks(Steps[i].script, forwarded[i])

\* The questions of command i are answered one by one: it has no more than one
\* unanswered, none once it has closed its terminal, and got no answer to a
\* question that was not sent.
Dialogue(i) ==
  /\ Questions(i) <= stdin[i] + 1
  /\ stdin[i] <= Seen(i)
  /\ proc[i] \in {"detached", "ok"} => Questions(i) <= stdin[i]
  /\ written[i] > 0 => proc[i] # "none"

\* The four places of a question that was sent and is not answered yet: on its
\* way to the client, on the screen, answered on the way back, and in the hands
\* of the receiving goroutine.
IsAsk(m) == m.type = "output" /\ m.text = "ask"

Coming == \E n \in 1 .. Len(s2c) : IsAsk(s2c[n])
Shown == typed < asked
Typed == \E n \in 1 .. Len(c2s) : c2s[n] = "input"
Taken == receiver = "sendInput"

Unanswered == Coming \/ Shown \/ Typed \/ Taken

\* There is one such question at a time, in one of its places, and it is the
\* last that the command of step cur asked.
OneQuestion ==
  /\ \A m, n \in 1 .. Len(s2c) : IsAsk(s2c[m]) /\ IsAsk(s2c[n]) => m = n
  /\ \A m, n \in 1 .. Len(c2s) : c2s[m] = "input" /\ c2s[n] = "input" => m = n
  /\ typed <= asked /\ asked <= typed + 1
  /\ Coming => ~Shown /\ ~Typed /\ ~Taken
  /\ Shown => ~Typed /\ ~Taken
  /\ Typed => ~Taken
  /\ Unanswered => cur \in 1 .. Len(Steps) /\ Seen(cur) = stdin[cur] + 1

\* Input is lost only to a command that failed.
LostToFailure == lost => \E i \in Index : proc[i] = "failed"

Answers ==
  Prompted => ~crashed /\ OneQuestion /\ LostToFailure /\ \A i \in Index : Dialogue(i)

\* What is seen of the questions of a command is part of them.
LEMMA QuestionsFacts ==
  ASSUME IInv, NEW i \in Index
  PROVE  /\ Questions(i) = Asks(Steps[i].script, written[i])
         /\ Questions(i) \in Nat /\ Seen(i) \in Nat /\ Seen(i) <= Questions(i)
         /\ forwarded[i] \in Nat /\ written[i] \in Nat /\ stdin[i] \in Nat
         /\ Seen(i) > 0 => forwarded[i] > 0 /\ written[i] > 0
<1>1. /\ forwarded[i] \in Nat /\ written[i] \in Nat /\ stdin[i] \in Nat
      /\ forwarded[i] <= written[i]
  BY DEF IInv, TypeOK, OutputFollowsTheScript
<1>2. Questions(i) = Asks(Steps[i].script, written[i])
  BY DEF Questions, Asks
<1>3. Seen(i) \in Nat /\ Questions(i) \in Nat /\ Seen(i) <= Questions(i)
  BY <1>1, <1>2, AsksFacts, AsksGrow DEF Seen
<1>4. forwarded[i] = 0 => Seen(i) = 0
  BY AsksFacts DEF Seen
<1> QED BY <1>1, <1>2, <1>3, <1>4

\* The command that an unanswered question belongs to was started, and it did
\* not end well.
LEMMA WhoAsked ==
  ASSUME IInv, \A i \in Index : Dialogue(i), OneQuestion, Unanswered
  PROVE  /\ cur \in Index /\ Steps[cur].type = "command" /\ forwarded[cur] > 0
         /\ proc[cur] \in {"running", "failed"}
         /\ Seen(cur) = stdin[cur] + 1
<1>1. cur \in Index /\ Seen(cur) = stdin[cur] + 1
  BY StepFields DEF OneQuestion
<1>2. forwarded[cur] > 0 /\ written[cur] > 0
  BY <1>1, QuestionsFacts
<1>3. proc[cur] # "none" /\ proc[cur] \notin {"detached", "ok"}
  BY <1>1, <1>2, QuestionsFacts DEF Dialogue
<1> QED BY <1>1, <1>2, <1>3 DEF IInv, TypeOK, CommandsFollowTheirRunner

\* One question and one answer at most in the queues.
OneComing == \A m, n \in 1 .. Len(s2c) : IsAsk(s2c[m]) /\ IsAsk(s2c[n]) => m = n
OneTyped == \A m, n \in 1 .. Len(c2s) : c2s[m] = "input" /\ c2s[n] = "input" => m = n

\* A message to the client that asks nothing.
LEMMA NothingAsked ==
  ASSUME s2c \in Seq(Message), OneComing, NEW m \in Message, ToClient(m), ~IsAsk(m)
  PROVE  OneComing' /\ (Coming' => Coming)
<1>1. \A n \in 1 .. Len(s2c') : IsAsk(s2c'[n]) => n \in 1 .. Len(s2c) /\ s2c'[n] = s2c[n]
  <2>1. /\ connected => /\ Len(s2c') = Len(s2c) + 1 /\ s2c'[Len(s2c) + 1] = m
                        /\ \A n \in 1 .. Len(s2c) : s2c'[n] = s2c[n]
        /\ ~connected => s2c' = s2c
        /\ Len(s2c) \in Nat
    BY ToClientQueue
  <2>2. CASE connected
    <3>1. \A n \in 1 .. Len(s2c') : n \in 1 .. Len(s2c) \/ n = Len(s2c) + 1
      BY <2>1, <2>2
    <3> QED BY <2>1, <2>2, <3>1
  <2>3. CASE ~connected
    BY <2>1, <2>3
  <2> QED BY <2>2, <2>3
<1> QED BY <1>1 DEF OneComing, Coming, IsAsk

\* A question is put in a queue that has none.
LEMMA Asked ==
  ASSUME s2c \in Seq(Message), ~Coming, NEW m \in Message, ToClient(m)
  PROVE  OneComing'
<1>1. /\ connected => /\ Len(s2c') = Len(s2c) + 1 /\ s2c'[Len(s2c) + 1] = m
                      /\ \A n \in 1 .. Len(s2c) : s2c'[n] = s2c[n]
      /\ ~connected => s2c' = s2c
      /\ Len(s2c) \in Nat
  BY ToClientQueue
<1>2. \A n \in 1 .. Len(s2c') : IsAsk(s2c'[n]) => n = Len(s2c) + 1
  <2>1. CASE connected
    <3>1. \A n \in 1 .. Len(s2c') : n \in 1 .. Len(s2c) \/ n = Len(s2c) + 1
      BY <1>1, <2>1
    <3> QED BY <1>1, <2>1, <3>1 DEF Coming
  <2>2. CASE ~connected
    BY <1>1, <2>2 DEF Coming
  <2> QED BY <2>1, <2>2
<1> QED BY <1>2 DEF OneComing, IsAsk

\* A message to the server that is no input.
LEMMA NothingTyped ==
  ASSUME c2s \in Seq(FromClient), OneTyped, NEW m \in FromClient, m # "input", ToServer(m)
  PROVE  OneTyped' /\ (Typed' => Typed)
<1>1. \A n \in 1 .. Len(c2s') : c2s'[n] = "input" => n \in 1 .. Len(c2s) /\ c2s'[n] = c2s[n]
  BY ToServerQueue
<1> QED BY <1>1 DEF OneTyped, Typed

\* Input is put in a queue that has none.
LEMMA InputTyped ==
  ASSUME c2s \in Seq(FromClient), ~Typed, ToServer("input")
  PROVE  OneTyped'
<1>1. \A n \in 1 .. Len(c2s') : c2s'[n] = "input" => n = Len(c2s) + 1
  BY ToServerQueue DEF Typed, FromClient
<1> QED BY <1>1 DEF OneTyped

\* A message is taken from the queue of the server: it was input, and no input
\* is left, or the inputs are those that were there.
LEMMA MessageTaken ==
  ASSUME c2s \in Seq(FromClient), OneTyped, c2s # <<>>, c2s' = Tail(c2s)
  PROVE  OneTyped' /\ (Typed' => Typed) /\ (Head(c2s) = "input" => Typed /\ ~Typed')
<1>1. /\ Len(c2s) \in Nat \ {0} /\ Len(c2s') = Len(c2s) - 1 /\ 1 \in 1 .. Len(c2s)
      /\ Head(c2s) = c2s[1]
      /\ \A n \in 1 .. Len(c2s') : n + 1 \in 1 .. Len(c2s) /\ c2s'[n] = c2s[n + 1]
  BY ServerTakes
<1>2. OneTyped'
  <2> SUFFICES ASSUME NEW m \in 1 .. Len(c2s'), NEW n \in 1 .. Len(c2s'),
                      c2s'[m] = "input", c2s'[n] = "input"
               PROVE  m = n
    BY DEF OneTyped
  <2>1. m + 1 = n + 1
    BY <1>1 DEF OneTyped
  <2> QED BY <2>1
<1>3. Typed' => Typed
  BY <1>1 DEF Typed
<1>4. ASSUME Head(c2s) = "input", NEW n \in 1 .. Len(c2s'), c2s'[n] = "input" PROVE FALSE
  <2>1. n + 1 = 1
    BY <1>1, <1>4 DEF OneTyped
  <2> QED BY <2>1
<1> QED BY <1>1, <1>2, <1>3, <1>4 DEF Typed

\* A step that brings no question or answer forward.
LEMMA QuestionStays ==
  ASSUME OneQuestion, Steps' = Steps, UNCHANGED <<typed, asked, cur>>,
         Unanswered => forwarded'[cur] = forwarded[cur] /\ stdin'[cur] = stdin[cur],
         OneComing', OneTyped', Coming' => Coming, Typed' => Typed, Taken' => Taken
  PROVE  OneQuestion'
<1>1. Shown' <=> Shown
  BY DEF Shown
<1>2. Unanswered' => cur' \in 1 .. Len(Steps') /\ Seen(cur)' = stdin'[cur'] + 1
  BY <1>1 DEF OneQuestion, Unanswered, Seen
<1> QED BY <1>1, <1>2 DEF OneQuestion, OneComing, OneTyped

\* A step that leaves the dialogues alone.
LEMMA DialoguesStay ==
  ASSUME \A i \in Index : Dialogue(i), Steps' = Steps, UNCHANGED <<written, forwarded, stdin>>,
         \A i \in Index : /\ proc'[i] \in {"detached", "ok"} => proc'[i] = proc[i]
                          /\ proc[i] # "none" => proc'[i] # "none"
  PROVE  \A i \in Index : Dialogue(i)'
BY DEF Dialogue, Questions, Seen

\* The client, the user and the connection: a question comes to the screen, and
\* is answered.
LEMMA ClientAnswers ==
  ASSUME IInv, Prompted, Answers, Client \/ Type \/ ParamsUnanswered \/ ConnectionLost
  PROVE  Answers'
<1>0. /\ c2s \in Seq(FromClient) /\ s2c \in Seq(Message)
      /\ OneQuestion /\ OneComing /\ OneTyped
      /\ typed \in Nat /\ asked \in Nat
  BY BoundsAssumption DEF IInv, TypeOK, FromClient, Answers, OneQuestion, OneComing, OneTyped
<1>1. Steps' = Steps
  BY StageStays DEF Next
<1>2. UNCHANGED <<cur, crashed, receiver, lost, proc, written, forwarded, stdin>>
  BY DEF Client, Open, OpenPanics, ClientRecv, AnswerParams, ClientRecvError, Type, ParamsUnanswered,
    ConnectionLost, inputVars, stepVars, runVars
<1>3. SUFFICES OneQuestion'
  BY <1>1, <1>2, DialoguesStay DEF Answers, LostToFailure
<1>4. CASE Open \/ AnswerParams
  <2>1. OneTyped' /\ (Typed' => Typed)
    BY <1>0, <1>4, NothingTyped DEF Open, OpenPanics, AnswerParams, FromClient
  <2>2. UNCHANGED <<s2c, typed, asked>>
    BY <1>4 DEF Open, OpenPanics, AnswerParams
  <2> QED BY <1>0, <1>1, <1>2, <2>1, <2>2, QuestionStays DEF OneComing, Coming, Taken
<1>5. CASE OpenPanics \/ ClientRecvError \/ ParamsUnanswered \/ ConnectionLost
  <2>1. UNCHANGED <<c2s, s2c, typed, asked>>
    BY <1>5 DEF OpenPanics, ClientRecvError, ParamsUnanswered, ConnectionLost, clientVars, netVars
  <2> QED BY <1>0, <1>1, <1>2, <2>1, QuestionStays DEF OneComing, OneTyped, Coming, Typed, Taken
<1>6. CASE ClientRecv
  <2>1. /\ Len(s2c) \in Nat \ {0} /\ 1 \in 1 .. Len(s2c)
        /\ \A n \in 1 .. Len(s2c') : n + 1 \in 1 .. Len(s2c) /\ s2c'[n] = s2c[n + 1]
        /\ IsAsk(s2c[1]) => asked' \in {asked, asked + 1}
        /\ ~IsAsk(s2c[1]) => asked' = asked
    BY <1>6, ClientTakes DEF IsAsk
  <2>2. UNCHANGED <<c2s, typed>>
    BY <1>6 DEF ClientRecv
  <2>3. OneComing' /\ (Coming' => Coming)
    <3>1. ASSUME NEW m \in 1 .. Len(s2c'), NEW n \in 1 .. Len(s2c'),
                 IsAsk(s2c'[m]), IsAsk(s2c'[n])
          PROVE  m = n
      <4>1. m + 1 = n + 1
        BY <1>0, <2>1, <3>1 DEF OneComing
      <4> QED BY <4>1
    <3>2. Coming' => Coming
      BY <2>1 DEF Coming, IsAsk
    <3> QED BY <3>1, <3>2 DEF OneComing, IsAsk
  <2>4. CASE IsAsk(s2c[1]) /\ asked' = asked + 1
    <3>1. Coming
      BY <2>1, <2>4 DEF Coming
    <3>2. typed = asked /\ ~Typed /\ ~Taken
      BY <1>0, <3>1 DEF OneQuestion, Shown
    <3>3. ~Coming'
      <4>1. ASSUME NEW n \in 1 .. Len(s2c'), IsAsk(s2c'[n]) PROVE FALSE
        <5>1. n + 1 = 1
          BY <1>0, <2>1, <2>4, <4>1 DEF OneComing
        <5> QED BY <5>1
      <4> QED BY <4>1 DEF Coming, IsAsk
    <3>4. cur' \in 1 .. Len(Steps') /\ Seen(cur)' = stdin'[cur'] + 1
      BY <1>0, <1>1, <1>2, <3>1 DEF OneQuestion, Unanswered, Seen
    <3>5. asked' = asked + 1 /\ OneTyped' /\ ~Typed' /\ ~Taken'
      BY <1>0, <1>2, <2>2, <2>4, <3>2 DEF OneTyped, Typed, Taken
    <3> QED BY <1>0, <2>2, <2>3, <3>2, <3>3, <3>4, <3>5 DEF OneQuestion, OneComing, OneTyped, Shown
  <2>5. CASE asked' = asked
    BY <1>0, <1>1, <1>2, <2>1, <2>2, <2>3, <2>5, QuestionStays DEF OneTyped, Typed, Taken
  <2> QED BY <2>1, <2>4, <2>5
<1>7. CASE Type
  <2>1. Shown /\ typed' = typed + 1 /\ UNCHANGED <<s2c, asked>>
    BY <1>7 DEF Type, Shown
  <2>2. ~Coming /\ ~Typed /\ ~Taken /\ typed + 1 = asked
    BY <1>0, <2>1 DEF OneQuestion, Shown
  <2>3. OneTyped'
    <3>1. c2s' = c2s \/ ToServer("input")
      BY <1>7 DEF Type
    <3> QED BY <1>0, <2>2, <3>1, InputTyped DEF OneTyped
  <2>4. ~Coming' /\ ~Taken' /\ ~Shown' /\ OneComing'
    BY <1>0, <1>2, <2>1, <2>2 DEF Coming, Taken, Shown, OneComing
  <2>5. cur' \in 1 .. Len(Steps') /\ Seen(cur)' = stdin'[cur'] + 1
    BY <1>0, <1>1, <1>2, <2>1 DEF OneQuestion, Unanswered, Seen
  <2> QED BY <1>0, <2>1, <2>2, <2>3, <2>4, <2>5 DEF OneQuestion, OneComing, OneTyped
<1> QED BY <1>4, <1>5, <1>6, <1>7 DEF Client

\* A return of the handler asks nothing.
LEMMA ReturnsQuietly ==
  ASSUME s2c \in Seq(Message), OneComing, NEW h, HandlerReturns(h)
  PROVE  OneComing' /\ (Coming' => Coming)
<1> DEFINE m == [type |-> "status", ok |-> h = "succeeded"]
<1>1. m \in Message /\ ~IsAsk(m)
  BY MessageType DEF IsAsk
<1>2. ToClient(m)
  BY DEF HandlerReturns
<1> HIDE DEF m
<1> QED BY <1>1, <1>2, NothingAsked

\* An answer is handed to the command of step cur, or that command has failed.
LEMMA AnswerDelivered ==
  ASSUME IInv, Prompted, Answers, SelectInput
  PROVE  Answers'
<1>1. /\ Taken /\ OneQuestion /\ ~crashed /\ LostToFailure
      /\ \A i \in Index : Dialogue(i)
  BY DEF SelectInput, Answers, Taken
<1>2. /\ cur \in Index /\ Steps[cur].type = "command" /\ forwarded[cur] > 0
      /\ proc[cur] \in {"running", "failed"}
      /\ Seen(cur) = stdin[cur] + 1
  BY <1>1, WhoAsked DEF Unanswered
<1>3. HandleInput(cur) = {IF proc[cur] = "running" THEN "delivered" ELSE "lost"}
  BY <1>2 DEF HandleInput
<1>4. /\ ~crashed'
      /\ lost' = (lost \/ proc[cur] # "running")
      /\ stdin' = IF proc[cur] = "running" THEN [stdin EXCEPT ![cur] = @ + 1] ELSE stdin
  BY <1>3 DEF SelectInput
<1>5. /\ UNCHANGED <<typed, asked, c2s, s2c, cur, proc, written, forwarded>>
      /\ ~Taken' /\ Steps' = Steps
  <2>1. Steps' = Steps
    BY StageStays DEF Next, Handler
  <2> QED BY <2>1 DEF SelectInput, Taken, clientVars, netVars
<1>6. OneQuestion'
  <2>1. ~Coming /\ ~Shown /\ ~Typed
    BY <1>1 DEF OneQuestion
  <2>2. ~Coming' /\ ~Shown' /\ ~Typed'
    BY <1>5, <2>1 DEF Coming, Shown, Typed
  <2> QED BY <1>1, <1>5, <2>2 DEF OneQuestion, Unanswered
<1>7. LostToFailure'
  BY <1>1, <1>2, <1>4, <1>5 DEF LostToFailure
<1>8. ASSUME NEW i \in Index PROVE Dialogue(i)'
  <2>1. Seen(i)' = Seen(i) /\ Questions(i)' = Questions(i)
    BY <1>5 DEF Seen, Questions
  <2>2. CASE i = cur /\ proc[cur] = "running"
    <3>1. stdin'[i] = stdin[i] + 1
      BY <1>2, <1>4, <2>2 DEF IInv, TypeOK
    <3> QED BY <1>1, <1>2, <1>5, <2>1, <2>2, <3>1, QuestionsFacts DEF Dialogue
  <2>3. CASE ~(i = cur /\ proc[cur] = "running")
    <3>1. stdin'[i] = stdin[i]
      BY <1>2, <1>4, <2>3 DEF IInv, TypeOK
    <3> QED BY <1>1, <1>5, <2>1, <3>1 DEF Dialogue
  <2> QED BY <2>2, <2>3
<1> QED BY <1>4, <1>6, <1>7, <1>8 DEF Answers

\* The other steps of the handler leave questions and answers where they are.
LEMMA HandlerAnswers ==
  ASSUME IInv, Prompted, Answers, Handler
  PROVE  Answers'
<1>0. /\ c2s \in Seq(FromClient) /\ s2c \in Seq(Message)
      /\ OneQuestion /\ OneComing /\ OneTyped
  BY DEF IInv, TypeOK, FromClient, Answers, OneQuestion, OneComing, OneTyped
<1>1. CASE SelectInput
  BY <1>1, AnswerDelivered
<1>2. ASSUME ~SelectInput
      PROVE  /\ Steps' = Steps
             /\ UNCHANGED <<typed, asked, crashed, lost, proc, written, forwarded, stdin>>
  <2>1. Steps' = Steps
    BY StageStays DEF Next
  <2> QED BY <1>2, <2>1 DEF Handler, RecvRequest, RecvParams, HandshakeLost, BeginStep,
      RefuseStep, SelectInputError, SelectError, SelectDone, CollectOutputs, CollectFails,
      ExecuteReturns, clientVars, inputVars, runVars
<1>3. ASSUME ~SelectInput, OneQuestion' PROVE Answers'
  BY <1>2, <1>3, DialoguesStay DEF Answers, LostToFailure
<1>4. ASSUME ~SelectInput, cur' = cur, OneComing', Coming' => Coming, Taken' => Taken,
             c2s' = c2s \/ (c2s # <<>> /\ c2s' = Tail(c2s))
      PROVE  Answers'
  <2>1. OneTyped' /\ (Typed' => Typed)
    BY <1>0, <1>4, MessageTaken DEF OneTyped, Typed
  <2> QED BY <1>0, <1>2, <1>3, <1>4, <2>1, QuestionStays
<1>5. CASE s2c' = s2c /\ ~SelectInput /\ cur' = cur /\ (Taken' => Taken)
           /\ (c2s' = c2s \/ (c2s # <<>> /\ c2s' = Tail(c2s)))
  BY <1>0, <1>4, <1>5 DEF OneComing, Coming
<1>6. CASE ~SelectInput /\ cur' = cur /\ (Taken' => Taken) /\ (\E h : HandlerReturns(h))
           /\ (c2s' = c2s \/ (c2s # <<>> /\ c2s' = Tail(c2s)))
  BY <1>0, <1>4, <1>6, ReturnsQuietly
<1>7. CASE RecvRequest
  <2>1. /\ ~SelectInput /\ cur' = cur /\ (Taken' => Taken) /\ c2s # <<>> /\ c2s' = Tail(c2s)
    BY <1>7 DEF RecvRequest, SelectInput, inputVars, Taken
  <2>2. (\E h : HandlerReturns(h)) \/ ToClient([type |-> "paramsRequest"])
    BY <1>7 DEF RecvRequest
  <2>3. CASE ToClient([type |-> "paramsRequest"])
    <3>1. [type |-> "paramsRequest"] \in Message /\ ~IsAsk([type |-> "paramsRequest"])
      BY MessageType DEF IsAsk
    <3> QED BY <1>0, <1>4, <2>1, <2>3, <3>1, NothingAsked
  <2> QED BY <1>6, <2>1, <2>2, <2>3
<1>8. CASE RecvParams
  BY <1>5, <1>6, <1>8 DEF RecvParams, SelectInput, Taken
<1>9. CASE HandshakeLost \/ RefuseStep \/ SelectInputError \/ CollectFails \/ ExecuteReturns
  BY <1>6, <1>9 DEF HandshakeLost, RefuseStep, SelectInputError, CollectFails, ExecuteReturns,
    SelectInput, inputVars, Taken
<1>10. CASE SelectError \/ SelectDone \/ BeginStep
  <2>1. c2s' = c2s /\ cur' = cur /\ (Taken' => Taken) /\ ~SelectInput
    BY <1>10 DEF SelectError, SelectDone, BeginStep, SelectInput, netVars, inputVars, runVars,
      Taken, IInv, TypeOK
  <2> QED BY <1>5, <1>6, <1>10, <2>1 DEF SelectError, SelectDone, BeginStep, netVars
<1>11. CASE CollectOutputs
  <2>1. handler = "collect" /\ ~SelectInput /\ UNCHANGED <<c2s, s2c, typed, asked, receiver>>
    BY <1>11 DEF CollectOutputs, SelectInput, clientVars, netVars, inputVars
  <2>2. ~Unanswered
    <3>1. SUFFICES ASSUME Unanswered PROVE FALSE
      OBVIOUS
    <3>2. /\ cur \in Index /\ Steps[cur].type = "command"
          /\ proc[cur] \in {"running", "failed"}
      BY <1>0, <3>1, WhoAsked DEF Answers
    <3> QED BY <2>1, <3>2 DEF IInv, RunnersFollowTheHandler, CommandsFollowTheirRunner
  <2>3. ~Coming' /\ ~Shown' /\ ~Typed' /\ ~Taken'
    BY <2>1, <2>2 DEF Unanswered, Coming, Shown, Typed, Taken
  <2>4. OneQuestion'
    BY <1>0, <2>1, <2>3 DEF OneQuestion, Unanswered
  <2> QED BY <1>3, <2>1, <2>4
<1> QED BY <1>1, <1>7, <1>8, <1>9, <1>10, <1>11 DEF Handler

\* The receiving goroutine takes the answer of the user.
LEMMA ReceiverAnswers ==
  ASSUME IInv, OnlyInputFollows, Prompted, Answers, Receiver
  PROVE  Answers'
<1>0. /\ c2s \in Seq(FromClient) /\ OneQuestion /\ OneComing /\ OneTyped
  BY DEF IInv, TypeOK, FromClient, Answers, OneQuestion, OneComing, OneTyped
<1>1. /\ Steps' = Steps
      /\ UNCHANGED <<typed, asked, s2c, cur, crashed, lost, proc, written, forwarded, stdin>>
  <2>1. Steps' = Steps
    BY StageStays DEF Next
  <2> QED BY <2>1 DEF Receiver, ReceiveInput, ReceiveError, clientVars, netVars, stepVars, runVars
<1>2. SUFFICES OneQuestion'
  BY <1>1, DialoguesStay DEF Answers, LostToFailure
<1>3. CASE ReceiveInput
  <2>1. receiver = "recv" /\ c2s # <<>> /\ c2s' = Tail(c2s) /\ Taken'
    BY <1>3 DEF ReceiveInput, Taken
  <2>2. Head(c2s) = "input"
    <3>1. 1 \in 1 .. Len(c2s) /\ Head(c2s) = c2s[1]
      BY <1>0, <2>1, ServerTakes
    <3> QED BY <2>1, <3>1 DEF OnlyInputFollows, PastHandshake
  <2>3. Typed /\ ~Typed' /\ OneTyped'
    BY <1>0, <2>1, <2>2, MessageTaken
  <2>4. ~Coming' /\ ~Shown' /\ OneComing'
    BY <1>0, <1>1, <2>3 DEF OneQuestion, Coming, Shown, OneComing
  <2>5. cur' \in 1 .. Len(Steps') /\ Seen(cur)' = stdin'[cur'] + 1
    BY <1>0, <1>1, <2>3 DEF OneQuestion, Unanswered, Seen
  <2> QED BY <1>0, <1>1, <2>3, <2>4, <2>5 DEF OneQuestion, OneComing, OneTyped
<1>4. CASE ReceiveError
  <2>1. c2s' = c2s /\ (Taken' => Taken)
    BY <1>4 DEF ReceiveError, netVars, Taken
  <2> QED BY <1>0, <1>1, <2>1, QuestionStays DEF OneComing, OneTyped, Coming, Typed
<1> QED BY <1>3, <1>4 DEF Receiver

\* A question is sent to the client only when the one before it is answered.
LEMMA ForwardAnswers ==
  ASSUME IInv, Prompted, Answers, NEW i \in Index, Forward(i)
  PROVE  Answers'
<1>0. /\ s2c \in Seq(Message) /\ OneQuestion /\ OneComing /\ OneTyped
      /\ \A j \in Index : Dialogue(j)
  BY DEF IInv, TypeOK, Answers, OneQuestion, OneComing, OneTyped
<1>1. /\ Steps' = Steps /\ forwarded[i] < written[i] /\ forwarded' = [forwarded EXCEPT ![i] = @ + 1]
      /\ UNCHANGED <<typed, asked, c2s, receiver, cur, crashed, lost, proc, written, stdin>>
  <2>1. Steps' = Steps
    BY StageStays DEF Next, Runner
  <2> QED BY <2>1 DEF Forward, clientVars, inputVars, stepVars
<1>2. /\ i = cur /\ i \in 1 .. Len(Steps)
      /\ \E m \in Message : /\ m.type = "output" /\ m.text = Steps[i].script[forwarded[i] + 1]
                            /\ ToClient(m)
  BY ForwardSends
<1>3. /\ forwarded[i] \in Nat /\ forwarded'[i] = forwarded[i] + 1
      /\ \A j \in Index : j # i => forwarded'[j] = forwarded[j]
      /\ Seen(i)' = Asks(Steps[i].script, forwarded[i] + 1)
  <2>1. forwarded \in [Index -> Nat]
    BY DEF IInv, TypeOK
  <2> QED BY <1>1, <2>1 DEF Seen
<1>4. /\ Seen(i) \in Nat /\ Questions(i) \in Nat /\ stdin[i] \in Nat
      /\ Seen(i)' = IF Steps[i].script[forwarded[i] + 1] = "ask" THEN Seen(i) + 1 ELSE Seen(i)
  BY <1>3, AsksFacts, QuestionsFacts DEF Seen
<1>5. Seen(i)' <= Questions(i)
  <2>1. written[i] \in Nat /\ forwarded[i] + 1 <= written[i]
    BY <1>1, <1>3, QuestionsFacts
  <2> QED BY <1>3, <2>1, AsksGrow, QuestionsFacts
<1>6. \A j \in Index : Dialogue(j)'
  <2> SUFFICES ASSUME NEW j \in Index PROVE Dialogue(j)'
    OBVIOUS
  <2>1. Questions(j)' = Questions(j)
    BY <1>1 DEF Questions
  <2>2. stdin[j] <= Seen(j)'
    <3>1. CASE j = i
      BY <1>0, <1>4, <3>1 DEF Dialogue
    <3>2. CASE j # i
      BY <1>0, <1>1, <1>3, <3>2 DEF Dialogue, Seen
    <3> QED BY <3>1, <3>2
  <2> QED BY <1>0, <1>1, <2>1, <2>2 DEF Dialogue
<1>7. OneQuestion'
  <2>1. PICK m \in Message : /\ m.type = "output" /\ m.text = Steps[i].script[forwarded[i] + 1]
                             /\ ToClient(m)
    BY <1>2
  <2>2. /\ Shown' = Shown /\ Typed' = Typed /\ Taken' = Taken /\ OneTyped'
    BY <1>0, <1>1 DEF Shown, Typed, Taken, OneTyped
  <2>3. CASE IsAsk(m)
    <3>1. Seen(i)' = Seen(i) + 1 /\ stdin[i] <= Seen(i) /\ Questions(i) <= stdin[i] + 1
      BY <1>0, <1>4, <2>1, <2>3 DEF Dialogue, IsAsk
    <3>2. Seen(i) = stdin[i]
      BY <1>4, <1>5, <3>1
    <3>3. ~Unanswered
      BY <1>0, <1>2, <1>4, <3>2 DEF OneQuestion
    <3>4. OneComing'
      BY <1>0, <2>1, <3>3, Asked DEF Unanswered
    <3>5. cur' \in 1 .. Len(Steps') /\ Seen(cur)' = stdin'[cur'] + 1
      BY <1>1, <1>2, <3>1, <3>2 DEF Seen
    <3> QED BY <1>0, <1>1, <2>2, <3>3, <3>4, <3>5 DEF OneQuestion, OneComing, OneTyped, Unanswered
  <2>4. CASE ~IsAsk(m)
    <3>1. OneComing' /\ (Coming' => Coming)
      BY <1>0, <2>1, <2>4, NothingAsked
    <3>2. Seen(i)' = Seen(i)
      BY <1>4, <2>1, <2>4 DEF IsAsk
    <3>3. Unanswered' => cur' \in 1 .. Len(Steps') /\ Seen(cur)' = stdin'[cur'] + 1
      BY <1>0, <1>1, <1>2, <2>2, <3>1, <3>2 DEF OneQuestion, Unanswered, Seen
    <3> QED BY <1>0, <1>1, <2>2, <3>1, <3>3 DEF OneQuestion, OneComing, OneTyped
  <2> QED BY <2>3, <2>4
<1> QED BY <1>0, <1>1, <1>6, <1>7 DEF Answers, LostToFailure

\* The other steps of a runner leave questions and answers where they are.
LEMMA RunnerAnswers ==
  ASSUME IInv, Prompted, Answers, NEW i \in Index, Runner(i)
  PROVE  Answers'
<1>0. /\ s2c \in Seq(Message) /\ OneQuestion /\ OneComing /\ OneTyped
      /\ proc \in [Index -> {"none", "running", "detached", "ok", "failed"}]
  BY DEF IInv, TypeOK, Answers, OneQuestion, OneComing, OneTyped
<1>1. CASE Forward(i)
  BY <1>1, ForwardAnswers
<1>2. CASE ~Forward(i)
  <2>1. /\ Steps' = Steps
        /\ UNCHANGED <<typed, asked, c2s, receiver, cur, crashed, lost, written, forwarded, stdin>>
    <3>1. Steps' = Steps
      BY StageStays DEF Next
    <3> QED BY <1>2, <3>1 DEF Runner, RunExport, Prepare, StartPty, StartPtyFails, ForwardFails,
        Drained, Wait, clientVars, netVars, inputVars, stepVars
  <2>2. OneComing' /\ (Coming' => Coming)
    <3>1. CASE RunExport(i)
      <4>1. PICK m \in Message : m.type = "export" /\ ToClient(m)
        BY <3>1, ExportSends
      <4> QED BY <1>0, <4>1, NothingAsked DEF IsAsk
    <3>2. CASE ~RunExport(i)
      <4>1. s2c' = s2c
        BY <1>2, <3>2 DEF Runner, Prepare, StartPty, StartPtyFails, ForwardFails, Drained, Wait,
          netVars
      <4> QED BY <1>0, <4>1 DEF OneComing, Coming
    <3> QED BY <3>1, <3>2
  <2>3. \A j \in Index : /\ proc'[j] \in {"detached", "ok"} => proc'[j] = proc[j]
                         /\ proc[j] # "none" => proc'[j] = proc[j]
    <3>1. CASE StartPty(i)
      <4>1. proc[i] = "none"
        BY <3>1 DEF StartPty, RunnerAt, IInv, CommandsFollowTheirRunner
      <4> QED BY <1>0, <3>1, <4>1 DEF StartPty
    <3>2. CASE ~StartPty(i)
      BY <1>2, <3>2 DEF Runner, RunExport, Prepare, StartPtyFails, ForwardFails, Drained, Wait
    <3> QED BY <3>1, <3>2
  <2>4. OneQuestion'
    BY <1>0, <2>1, <2>2, QuestionStays DEF OneTyped, Typed, Taken
  <2>5. \A j \in Index : Dialogue(j)'
    BY <2>1, <2>3, DialoguesStay DEF Answers
  <2> QED BY <2>1, <2>3, <2>4, <2>5 DEF Answers, LostToFailure
<1> QED BY <1>1, <1>2

\* A command asks, and ends well, only when its questions are answered.
LEMMA CommandAnswers ==
  ASSUME IInv, Prompted, Answers, NEW i \in Index, Command(i)
  PROVE  Answers'
<1>0. /\ OneQuestion /\ OneComing /\ OneTyped /\ \A j \in Index : Dialogue(j)
      /\ proc \in [Index -> {"none", "running", "detached", "ok", "failed"}]
      /\ written \in [Index -> Nat]
  BY DEF IInv, TypeOK, Answers, OneQuestion, OneComing, OneTyped
<1>1. /\ Steps' = Steps
      /\ UNCHANGED <<typed, asked, c2s, s2c, receiver, cur, crashed, lost, forwarded, stdin>>
  <2>1. Steps' = Steps
    BY StageStays DEF Next
  <2> QED BY <2>1 DEF Command, Prints, Detach, ExitOk, ExitFailed, clientVars, netVars,
      inputVars, stepVars
<1>2. OneQuestion'
  BY <1>0, <1>1, QuestionStays DEF OneComing, OneTyped, Coming, Typed, Taken
<1>3. \A j \in Index : Seen(j)' = Seen(j)
  BY <1>1 DEF Seen
<1>4. /\ \A j \in Index : j # i => proc'[j] = proc[j] /\ written'[j] = written[j]
      /\ proc[i] \in LiveProc
  BY <1>0 DEF Command, Prints, Detach, ExitOk, ExitFailed, LiveProc
<1>5. LostToFailure'
  BY <1>1, <1>4 DEF Answers, LostToFailure, LiveProc
<1>6. \A j \in Index : j # i => Dialogue(j)'
  BY <1>0, <1>1, <1>3, <1>4 DEF Dialogue, Questions
<1>7. Dialogue(i)'
  <2>1. /\ Questions(i) = Asks(Steps[i].script, written[i])
        /\ Questions(i) \in Nat /\ stdin[i] \in Nat /\ written[i] \in Nat
    BY QuestionsFacts
  <2>2. CASE Prints(i)
    <3>1. /\ written'[i] = written[i] + 1 /\ proc'[i] = "running" /\ Questions(i) <= stdin[i]
      BY <1>0, <2>1, <2>2 DEF Prints, Answered
    <3>2. Questions(i)' = Asks(Steps[i].script, written[i] + 1)
      BY <1>1, <3>1 DEF Questions, Asks
    <3>3. Questions(i)' <= stdin[i] + 1
      BY <2>1, <3>1, <3>2, AsksFacts
    <3> QED BY <1>0, <1>1, <1>3, <3>1, <3>3 DEF Dialogue
  <2>3. CASE Detach(i) \/ ExitOk(i)
    <3>1. written' = written /\ proc'[i] # "none" /\ Questions(i) <= stdin[i]
      BY <1>0, <2>1, <2>3 DEF Detach, ExitOk, Answered
    <3>2. Questions(i)' = Questions(i)
      BY <1>1, <3>1 DEF Questions
    <3> QED BY <1>0, <1>1, <1>3, <3>1, <3>2 DEF Dialogue
  <2>4. CASE ExitFailed(i)
    <3>1. written' = written /\ proc'[i] = "failed"
      BY <1>0, <2>4 DEF ExitFailed
    <3>2. Questions(i)' = Questions(i)
      BY <1>1, <3>1 DEF Questions
    <3> QED BY <1>0, <1>1, <1>3, <3>1, <3>2 DEF Dialogue
  <2> QED BY <2>2, <2>3, <2>4 DEF Command
<1> QED BY <1>1, <1>2, <1>5, <1>6, <1>7 DEF Answers

\* A user who types only to answer has one question to answer at a time, that
\* of the command at work, and no step of the system lets two meet.
THEOREM AnswersHold == Spec => []Answers
<1>1. Init => Answers
  <2> SUFFICES ASSUME Init PROVE Answers
    OBVIOUS
  <2>1. OneQuestion /\ LostToFailure /\ ~crashed
    BY BoundsAssumption DEF Init, OneQuestion, LostToFailure, Unanswered, Coming, Shown, Typed,
      Taken
  <2>2. ASSUME NEW i \in Index PROVE Dialogue(i)
    <3>1. written[i] = 0 /\ forwarded[i] = 0 /\ stdin[i] = 0 /\ proc[i] = "none"
      BY DEF Init
    <3>2. Questions(i) = Asks(Steps[i].script, written[i])
      BY DEF Questions, Asks
    <3>3. Questions(i) = 0 /\ Seen(i) = 0
      BY <3>1, <3>2, AsksFacts DEF Seen
    <3> QED BY <3>1, <3>3 DEF Dialogue
  <2> QED BY <2>1, <2>2 DEF Answers
<1>2. IInv /\ OnlyInputFollows /\ Answers /\ [Next]_vars => Answers'
  <2> SUFFICES ASSUME IInv, OnlyInputFollows, Answers, Prompted, [Next]_vars PROVE Answers'
    BY DEF Answers
  <2>1. CASE UNCHANGED vars
    <3>1. /\ UNCHANGED <<typed, asked, c2s, s2c, receiver, lost, cur, crashed, proc, written,
                        forwarded, stdin>>
          /\ Steps' = Steps
      BY <2>1 DEF vars, clientVars, netVars, inputVars, stepVars, runVars, Steps
    <3>2. OneQuestion'
      BY <3>1 DEF Answers, OneQuestion, Unanswered, Coming, Shown, Typed, Taken, Seen
    <3>3. \A i \in Index : Dialogue(i)'
      BY <3>1, DialoguesStay DEF Answers
    <3> QED BY <3>1, <3>2, <3>3 DEF Answers, LostToFailure
  <2> QED BY <2>1, ClientAnswers, HandlerAnswers, ReceiverAnswers, RunnerAnswers, CommandAnswers
        DEF Next
<1> QED BY <1>1, <1>2, IInvHolds, OnlyInputFollowsHolds, PTL DEF Spec

\* When the user types only to answer, no answer brings the server down, and
\* each goes to the command that asked unless that command failed, for every
\* definition, every script and every number of questions: AnswersReachTheCommand.
THEOREM AnswersReachTheCommandHolds == Spec => []AnswersReachTheCommand
<1>1. IInv /\ Answers => AnswersReachTheCommand
  <2> SUFFICES ASSUME IInv, Answers, Prompted PROVE AnswersReachTheCommand
    BY DEF AnswersReachTheCommand
  <2>1. \A i \in Index : stdin[i] <= Questions(i)
    BY QuestionsFacts DEF Answers, Dialogue
  <2> QED BY <2>1 DEF Answers, LostToFailure, AnswersReachTheCommand
<1> QED BY <1>1, IInvHolds, AnswersHold, PTL

-----------------------------------------------------------------------------
(* Who waits for whom. *)

\* When each goroutine can take its next step: the guards of its actions.
ClientCan ==
  \/ client \in {"open", "prompt"}
  \/ client = "receive" /\ (s2c # <<>> \/ ~connected \/ crashed)

HandlerCan ==
  /\ ~crashed
  /\ \/ handler \in {"recvRequest", "recvParams"} /\ (c2s # <<>> \/ ~connected)
     \/ handler \in {"step", "collect"}
     \/ /\ handler = "select"
        /\ receiver \in {"sendInput", "sendError"} \/ runner[cur] \in {"sendError", "sendDone"}

ReceiverCan ==
  ~crashed /\ receiver = "recv" /\ (c2s # <<>> \/ ~connected \/ handler \in Finished)

RunnerCan(i) ==
  /\ ~crashed
  /\ \/ runner[i] = "started" /\ Steps[i].type \in {"command", "export"}
     \/ runner[i] = "ready"
     \/ runner[i] = "copy" /\ forwarded[i] < written[i]
     \/ runner[i] = "copy" /\ forwarded[i] = written[i] /\ proc[i] # "running"
     \/ runner[i] = "wait" /\ proc[i] \in {"ok", "failed"}

\* Nobody can: not in the client, not in the server.
AllWait == ~ClientCan /\ ~HandlerCan /\ ~ReceiverCan /\ \A i \in Index : ~RunnerCan(i)

\* The goroutines of a call never wait for each other: before it has returned
\* they can only all wait for a command that has not exited, all of whose output
\* is on the screen; and if it waits for an answer, the question is one of those
\* that the user, who types only to answer, has not answered.
WaitsForTheCommand ==
  AllWait /\ client \notin {"done", "panicked"} =>
    /\ connected /\ handler = "select"
    /\ cur \in 1 .. Len(Steps) /\ Steps[cur].type = "command"
    /\ proc[cur] \in LiveProc
    /\ forwarded[cur] = written[cur] /\ s2c = <<>>
    /\ Prompted /\ ~Answered(cur) => typed < asked

\* What the handler and its runner wait for is there.
SomebodyWorks ==
  /\ handler \in {"step", "select", "collect"} => receiver # "off"
  /\ \A i \in Index :
       /\ runner[i] # "none" => Steps[i].type \in {"command", "export"}
       /\ runner[i] = "copy" => proc[i] # "none"
       /\ runner[i] = "wait" => /\ proc[i] \in {"detached", "ok", "failed"}
                                /\ forwarded[i] = written[i]

\* The goroutines of the server find what they wait for.
LEMMA NextSomebodyWorks == IInv /\ SomebodyWorks /\ [Next]_vars => SomebodyWorks'
<1> SUFFICES ASSUME IInv, SomebodyWorks, [Next]_vars PROVE SomebodyWorks'
  OBVIOUS
<1>0. /\ runner \in [Index -> {"none", "started", "ready", "copy", "wait",
                               "sendError", "sendDone", "ended"}]
      /\ proc \in [Index -> {"none", "running", "detached", "ok", "failed"}]
      /\ written \in [Index -> Nat] /\ forwarded \in [Index -> Nat]
  BY DEF IInv, TypeOK
<1>1. Steps' = Steps
  BY StageStays DEF vars, Steps
<1>2. ASSUME UNCHANGED runVars, handler' \in {"step", "select", "collect"} => receiver' # "off"
      PROVE  SomebodyWorks'
  BY <1>1, <1>2 DEF SomebodyWorks, runVars
<1>3. CASE UNCHANGED vars
  BY <1>2, <1>3 DEF vars, SomebodyWorks, inputVars, stepVars
<1>4. CASE Client \/ Type \/ ParamsUnanswered \/ ConnectionLost
  BY <1>2, <1>4 DEF Client, Open, OpenPanics, ClientRecv, AnswerParams, ClientRecvError, Type,
    ParamsUnanswered, ConnectionLost, SomebodyWorks, inputVars, stepVars
<1>5. CASE RecvRequest \/ RecvParams \/ HandshakeLost \/ RefuseStep \/ CollectFails
           \/ ExecuteReturns \/ SelectInputError
  BY <1>2, <1>5 DEF RecvRequest, RecvParams, HandshakeLost, RefuseStep, CollectFails,
    ExecuteReturns, SelectInputError, HandlerReturns
<1>6. CASE CollectOutputs
  BY <1>2, <1>6 DEF CollectOutputs, SomebodyWorks, inputVars
<1>7. CASE SelectInput
  BY <1>1, <1>7 DEF SelectInput, SomebodyWorks
<1>8. CASE BeginStep
  <2>1. Steps[cur].type \in {"command", "export"}
    BY <1>8 DEF BeginStep, HasRunner
  <2> QED BY <1>0, <1>1, <1>8, <2>1 DEF BeginStep, SomebodyWorks, inputVars
<1>9. CASE SelectError \/ SelectDone
  BY <1>0, <1>1, <1>9 DEF SelectError, SelectDone, HandlerReturns, SomebodyWorks, inputVars
<1>10. CASE Receiver
  BY <1>2, <1>10 DEF Receiver, ReceiveInput, ReceiveError, stepVars
<1>11. ASSUME NEW i \in Index, Runner(i) PROVE SomebodyWorks'
  <2>1. UNCHANGED <<handler, receiver>>
    BY <1>11 DEF Runner, RunExport, Prepare, StartPty, StartPtyFails, Forward, ForwardFails,
      Drained, Wait, stepVars, inputVars
  <2>2. ASSUME NEW j \in Index, j # i
        PROVE  /\ runner'[j] = runner[j] /\ proc'[j] = proc[j]
               /\ forwarded'[j] = forwarded[j] /\ written'[j] = written[j]
    BY <1>0, <1>11, <2>2 DEF Runner, RunExport, Prepare, StartPty, StartPtyFails, Forward,
      ForwardFails, Drained, Wait, RunnerGoes
  <2>3. runner[i] # "none"
    BY <1>11 DEF Runner, RunExport, Prepare, StartPty, StartPtyFails, Forward, ForwardFails,
      Drained, Wait, RunnerAt
  <2>4. /\ runner'[i] = "copy" => proc'[i] # "none"
        /\ runner'[i] = "wait" => /\ proc'[i] \in {"detached", "ok", "failed"}
                                  /\ forwarded'[i] = written'[i]
    <3>1. CASE RunExport(i) \/ Prepare(i) \/ StartPtyFails(i) \/ ForwardFails(i) \/ Wait(i)
      BY <1>0, <3>1 DEF RunExport, Prepare, StartPtyFails, ForwardFails, Wait, RunnerGoes
    <3>2. CASE StartPty(i)
      BY <1>0, <3>2 DEF StartPty, RunnerGoes
    <3>3. CASE Forward(i)
      BY <1>0, <3>3 DEF Forward, RunnerAt, SomebodyWorks
    <3>4. CASE Drained(i)
      BY <1>0, <3>4 DEF Drained, RunnerAt, RunnerGoes, SomebodyWorks
    <3> QED BY <1>11, <3>1, <3>2, <3>3, <3>4 DEF Runner
  <2> QED BY <1>1, <2>1, <2>2, <2>3, <2>4 DEF SomebodyWorks
<1>12. ASSUME NEW i \in Index, Command(i) PROVE SomebodyWorks'
  <2>1. UNCHANGED <<handler, receiver, runner, forwarded>>
    BY <1>12 DEF Command, Prints, Detach, ExitOk, ExitFailed, stepVars, inputVars
  <2>2. \A j \in Index :
          \/ proc'[j] = proc[j] /\ written'[j] = written[j]
          \/ proc[j] = "running" /\ proc'[j] = "running"
          \/ /\ proc'[j] \in {"detached", "ok", "failed"} /\ written'[j] = written[j]
    BY <1>0, <1>12 DEF Command, Prints, Detach, ExitOk, ExitFailed
  <2> QED BY <1>0, <1>1, <2>1, <2>2 DEF SomebodyWorks
<1> QED BY <1>3, <1>4, <1>5, <1>6, <1>7, <1>8, <1>9, <1>10, <1>11, <1>12 DEF Next, Handler

\* The next message of the call is on its way: the first two and the question
\* between them, and the status, which only a handler that returned has sent.
\* On a connection that is up the client has not panicked.
SomebodySends ==
  /\ connected /\ handler = "recvRequest" => client \in {"open", "done"} \/ c2s # <<>>
  /\ connected /\ handler = "recvParams" =>
       client \in {"prompt", "done"} \/ c2s # <<>> \/ s2c # <<>>
  /\ connected /\ handler \in Finished =>
       client = "done" \/ (s2c # <<>> /\ s2c[Len(s2c)].type = "status")
  /\ \A n \in 1 .. Len(s2c) : s2c[n].type = "status" => handler \in Finished
  /\ connected => client # "panicked"

\* The steps of the client, the user and the connection.
LEMMA ClientSends ==
  ASSUME IInv, HandshakeInOrder, OnlyInputFollows, SomebodySends,
         Client \/ Type \/ ParamsUnanswered \/ ConnectionLost
  PROVE  SomebodySends'
<1>0. UNCHANGED <<handler, crashed>> /\ c2s \in Seq(FromClient) /\ s2c \in Seq(Message)
  BY DEF Client, Open, OpenPanics, ClientRecv, AnswerParams, ClientRecvError, Type, ParamsUnanswered,
    ConnectionLost, stepVars, IInv, TypeOK, FromClient
<1>1. CASE Open
  <2>1. connected => c2s' # <<>>
    BY <1>0, <1>1, ToServerQueue DEF Open, FromClient
  <2> QED BY <1>0, <1>1, <2>1 DEF Open, SomebodySends
<1>2. CASE ClientRecv
  <2>1. /\ s2c # <<>> /\ Len(s2c) \in Nat \ {0} /\ Len(s2c') = Len(s2c) - 1 /\ s2c' \in Seq(Message)
        /\ \A n \in 1 .. Len(s2c') : n + 1 \in 1 .. Len(s2c) /\ s2c'[n] = s2c[n + 1]
        /\ Head(s2c) = s2c[1] /\ 1 \in 1 .. Len(s2c)
    BY <1>0, <1>2, ClientTakes
  <2>2. /\ UNCHANGED <<c2s, connected>> /\ client = "receive"
        /\ client' \in {"receive", "prompt", "done"}
        /\ s2c[1].type = "status" => client' = "done"
        /\ client' = "prompt" <=> s2c[1].type = "paramsRequest"
    BY <1>2, <2>1 DEF ClientRecv, Returns
  <2>3. handler # "recvRequest"
    BY <2>1 DEF HandshakeInOrder
  <2>4. handler = "recvParams" => client' = "prompt"
    BY <2>1, <2>2 DEF OnlyInputFollows
  <2>5. connected /\ handler \in Finished =>
          client' = "done" \/ (s2c' # <<>> /\ s2c'[Len(s2c')].type = "status")
    <3>1. CASE Len(s2c) = 1
      BY <2>1, <2>2, <3>1 DEF SomebodySends
    <3>2. CASE Len(s2c) # 1
      <4>1. Len(s2c') \in 1 .. Len(s2c') /\ Len(s2c') + 1 = Len(s2c)
        BY <2>1, <3>2
      <4> QED BY <2>1, <2>2, <4>1 DEF SomebodySends
    <3> QED BY <3>1, <3>2
  <2>6. \A n \in 1 .. Len(s2c') : s2c'[n].type = "status" => handler \in Finished
    BY <2>1 DEF SomebodySends
  <2> QED BY <1>0, <2>2, <2>3, <2>4, <2>5, <2>6 DEF SomebodySends
<1>3. CASE AnswerParams
  <2>1. connected => c2s' # <<>>
    BY <1>0, <1>3, ToServerQueue DEF AnswerParams, FromClient
  <2> QED BY <1>0, <1>3, <2>1 DEF AnswerParams, SomebodySends
<1>4. CASE Type
  <2>1. c2s # <<>> => c2s' # <<>>
    <3>1. CASE ToServer("input")
      BY <1>0, <3>1, ToServerQueue DEF FromClient
    <3> QED BY <1>4, <3>1 DEF Type
  <2> QED BY <1>0, <1>4, <2>1 DEF Type, SomebodySends
<1>5. CASE OpenPanics \/ ClientRecvError
  BY <1>0, <1>5 DEF OpenPanics, ClientRecvError, Returns, netVars, SomebodySends
<1>6. CASE ParamsUnanswered \/ ConnectionLost
  BY <1>0, <1>6 DEF ParamsUnanswered, ConnectionLost, clientVars, SomebodySends
<1> QED BY <1>1, <1>2, <1>3, <1>4, <1>5, <1>6 DEF Client

\* A handler that returns sends its status.
LEMMA StatusSent ==
  ASSUME IInv, SomebodySends, NEW h \in Finished, HandlerReturns(h), ~(handler \in Finished),
         UNCHANGED <<client, connected>>
  PROVE  SomebodySends'
<1> DEFINE status == [type |-> "status", ok |-> h = "succeeded"]
<1>1. status \in Message /\ status.type = "status"
  BY MessageType
<1>2. /\ connected => /\ Len(s2c') = Len(s2c) + 1 /\ s2c'[Len(s2c) + 1] = status
      /\ Len(s2c) \in Nat /\ s2c' \in Seq(Message)
  BY <1>1, ToClientQueue DEF HandlerReturns, IInv, TypeOK
<1>3. handler' = h
  BY DEF HandlerReturns
<1> HIDE DEF status
<1>4. connected => s2c' # <<>> /\ s2c'[Len(s2c')].type = "status"
  BY <1>1, <1>2
<1> QED BY <1>3, <1>4 DEF SomebodySends, Finished

\* The steps of the handler.
LEMMA HandlerSends ==
  ASSUME IInv, HandshakeInOrder, SomebodySends, Handler
  PROVE  SomebodySends'
<1>0. UNCHANGED <<client, connected>> /\ handler \notin Finished
  BY DEF Handler, RecvRequest, RecvParams, HandshakeLost, BeginStep, RefuseStep,
    SelectInput, SelectInputError, SelectError, SelectDone, CollectOutputs, CollectFails,
    ExecuteReturns, clientVars, netVars, Finished
<1>1. CASE \E h \in Finished : HandlerReturns(h)
  BY <1>0, <1>1, StatusSent
<1>2. CASE /\ s2c' = s2c /\ handler' \notin Finished \cup {"recvRequest", "recvParams"}
           /\ crashed => crashed'
  BY <1>0, <1>2 DEF SomebodySends
<1>3. CASE HandshakeLost \/ RefuseStep \/ SelectInputError \/ SelectError \/ CollectFails
           \/ ExecuteReturns
  BY <1>1, <1>3 DEF HandshakeLost, RefuseStep, SelectInputError, SelectError, CollectFails,
    ExecuteReturns, Finished
<1>4. CASE BeginStep \/ SelectInput \/ SelectDone \/ CollectOutputs
  BY <1>2, <1>4 DEF BeginStep, SelectInput, SelectDone, CollectOutputs, netVars, Finished
<1>5. CASE RecvParams
  BY <1>1, <1>2, <1>5 DEF RecvParams, Finished
<1>6. CASE RecvRequest
  <2>1. CASE handler' = "recvParams" /\ ToClient([type |-> "paramsRequest"])
    <3> DEFINE question == [type |-> "paramsRequest"]
    <3>1. question \in Message /\ question.type = "paramsRequest"
      BY MessageType
    <3>2. s2c = <<>>
      BY <1>6 DEF RecvRequest, HandshakeInOrder
    <3>3. connected => s2c' = <<question>>
      BY <2>1, <3>2 DEF ToClient
    <3>4. ~connected => s2c' = <<>>
      BY <2>1, <3>2 DEF ToClient
    <3> HIDE DEF question
    <3>5. crashed' = crashed
      BY <1>6 DEF RecvRequest
    <3> QED BY <1>0, <2>1, <3>1, <3>2, <3>3, <3>4, <3>5 DEF SomebodySends, Finished
  <2> QED BY <1>1, <1>6, <2>1 DEF RecvRequest, Finished
<1> QED BY <1>3, <1>4, <1>5, <1>6 DEF Handler

\* The other goroutines of the server and the commands.
LEMMA WorkersSend ==
  ASSUME IInv, NobodyIsAbandoned, HandshakeInOrder, SomebodySends,
         Receiver \/ \E i \in Index : Runner(i) \/ Command(i)
  PROVE  SomebodySends'
<1>1. CASE Receiver
  <2>1. /\ UNCHANGED <<client, connected, handler, crashed, s2c>> /\ receiver = "recv"
    BY <1>1 DEF Receiver, ReceiveInput, ReceiveError, clientVars, netVars, stepVars
  <2>2. handler \notin {"recvRequest", "recvParams"}
    BY <2>1 DEF HandshakeInOrder
  <2> QED BY <2>1, <2>2 DEF SomebodySends
<1>2. ASSUME NEW i \in Index, Runner(i) \/ Command(i) PROVE SomebodySends'
  <2>1. UNCHANGED <<client, connected, handler, crashed, c2s>>
    BY <1>2 DEF Runner, RunExport, Prepare, StartPty, StartPtyFails, Forward, ForwardFails,
      Drained, Wait, Command, Prints, Detach, ExitOk, ExitFailed, clientVars, netVars, stepVars
  <2>2. CASE s2c' = s2c
    BY <2>1, <2>2 DEF SomebodySends
  <2>3. ASSUME NEW m \in Message, ToClient(m), m.type # "status", runner[i] \in AtWork
        PROVE  SomebodySends'
    <3>1. connected => handler = "select"
      BY <2>3 DEF NobodyIsAbandoned
    <3>2. /\ connected => /\ Len(s2c') = Len(s2c) + 1 /\ s2c'[Len(s2c) + 1] = m
                          /\ \A n \in 1 .. Len(s2c) : s2c'[n] = s2c[n]
          /\ ~connected => s2c' = s2c
          /\ Len(s2c) \in Nat
      BY <2>3, ToClientQueue DEF IInv, TypeOK
    <3>3. \A n \in 1 .. Len(s2c') : s2c'[n].type = "status" => handler \in Finished
      <4>1. CASE connected
        <5>1. \A n \in 1 .. Len(s2c') : n \in 1 .. Len(s2c) \/ n = Len(s2c) + 1
          BY <3>2, <4>1
        <5> QED BY <2>3, <3>2, <4>1, <5>1 DEF SomebodySends
      <4>2. CASE ~connected
        BY <3>2, <4>2 DEF SomebodySends
      <4> QED BY <4>1, <4>2
    <3> QED BY <2>1, <3>1, <3>2, <3>3 DEF SomebodySends, Finished
  <2>4. CASE RunExport(i)
    BY <2>3, <2>4, ExportSends DEF AtWork
  <2>5. CASE Forward(i)
    BY <2>3, <2>5, ForwardSends DEF AtWork
  <2>6. CASE Prepare(i) \/ StartPty(i) \/ StartPtyFails(i) \/ ForwardFails(i) \/ Drained(i)
             \/ Wait(i) \/ Command(i)
    BY <2>2, <2>6 DEF Prepare, StartPty, StartPtyFails, ForwardFails, Drained, Wait, Command,
      Prints, Detach, ExitOk, ExitFailed, netVars
  <2> QED BY <1>2, <2>4, <2>5, <2>6 DEF Runner
<1> QED BY <1>1, <1>2

\* No question of a command that runs is lost, nor its answer, as long as the
\* connection is up and the client has not given up.
QuestionsAreKept ==
  Prompted /\ connected /\ client # "done" =>
    \A i \in Index : proc[i] = "running" /\ Seen(i) > stdin[i] => Unanswered

\* The places of a command that runs on a connection that is up.
LEMMA WhereItRuns ==
  ASSUME IInv, NobodyIsAbandoned, connected, NEW i \in Index, proc[i] = "running"
  PROVE  /\ handler = "select" /\ i = cur /\ i \in 1 .. Len(Steps)
         /\ runner[i] \in {"copy", "wait"} /\ Steps[i].type = "command"
<1>1. runner[i] \in {"copy", "wait"} /\ handler = "select"
  BY DEF NobodyIsAbandoned, LiveProc, AtWork
<1> QED BY <1>1, RunnerAtWork DEF IInv, CommandsFollowTheirRunner

\* A question that is on its way stays so when one more message is sent.
LEMMA StillComing ==
  ASSUME s2c \in Seq(Message), NEW m \in Message, ToClient(m), Coming
  PROVE  Coming'
<1>1. /\ connected => /\ Len(s2c') = Len(s2c) + 1
                       /\ \A n \in 1 .. Len(s2c) : s2c'[n] = s2c[n]
      /\ ~connected => s2c' = s2c
      /\ Len(s2c) \in Nat
  BY ToClientQueue
<1>2. PICK n \in 1 .. Len(s2c) : IsAsk(s2c[n])
  BY DEF Coming
<1>3. n \in 1 .. Len(s2c') /\ s2c'[n] = s2c[n]
  BY <1>1, <1>2
<1> QED BY <1>2, <1>3 DEF Coming, IsAsk

\* The client and the user pass the question on.
LEMMA ClientKeeps ==
  ASSUME IInv, Prompted, Answers, OnlyInputFollows, SomebodySends, connected', Unanswered,
         client # "done", client' # "done", handler = "select", Client \/ Type \/ ParamsUnanswered \/ ConnectionLost
  PROVE  Unanswered'
<1>0. /\ connected /\ ~crashed /\ client \notin {"open", "prompt", "done"}
      /\ typed \in Nat /\ asked \in Nat /\ typed <= asked
      /\ c2s \in Seq(FromClient)
  <2>1. connected
    BY LostForGood DEF Next
  <2> QED BY <2>1, BoundsAssumption DEF Answers, OneQuestion, OnlyInputFollows, PastHandshake,
      SomebodySends, Finished, IInv, TypeOK, FromClient
<1>1. CASE ClientRecv
  <2>1. /\ Len(s2c) \in Nat \ {0}
        /\ \A n \in 2 .. Len(s2c) : n - 1 \in 1 .. Len(s2c') /\ s2c[n] = s2c'[n - 1]
        /\ IsAsk(s2c[1]) => asked' = asked + 1
        /\ ~IsAsk(s2c[1]) => asked' = asked
        /\ UNCHANGED <<typed, c2s, receiver>>
    BY <1>1, ClientTakes DEF IsAsk, ClientRecv, inputVars
  <2>2. CASE IsAsk(s2c[1])
    BY <1>0, <2>1, <2>2 DEF Unanswered, Shown
  <2>3. CASE ~IsAsk(s2c[1]) /\ Coming
    <3>1. PICK n \in 2 .. Len(s2c) : IsAsk(s2c[n])
      <4>1. \A n \in 1 .. Len(s2c) : n = 1 \/ n \in 2 .. Len(s2c)
        BY <2>1
      <4> QED BY <2>3, <4>1 DEF Coming
    <3>2. Coming'
      BY <2>1, <3>1 DEF Coming, IsAsk
    <3> QED BY <3>2 DEF Unanswered
  <2>4. CASE ~IsAsk(s2c[1]) /\ ~Coming
    BY <2>1, <2>4 DEF Unanswered, Shown, Typed, Taken
  <2> QED BY <2>2, <2>3, <2>4
<1>2. CASE Type
  <2>1. ToServer("input")
    BY <1>0, <1>2 DEF Type
  <2>2. Len(c2s') = Len(c2s) + 1 /\ c2s'[Len(c2s) + 1] = "input" /\ Len(c2s) \in Nat
    BY <1>0, <2>1, ToServerQueue DEF FromClient
  <2>3. Len(c2s') \in 1 .. Len(c2s') /\ c2s'[Len(c2s')] = "input"
    BY <2>2
  <2> QED BY <2>3 DEF Unanswered, Typed
<1>3. CASE \/ Open \/ OpenPanics \/ AnswerParams \/ ClientRecvError \/ ParamsUnanswered
           \/ ConnectionLost
  BY <1>0, <1>3 DEF Open, OpenPanics, AnswerParams, ClientRecvError, ParamsUnanswered,
    ConnectionLost
<1> QED BY <1>1, <1>2, <1>3 DEF Client

\* No step of the system loses a question, or its answer.
LEMMA NextQuestionsAreKept ==
  ASSUME IInv, NobodyIsAbandoned, OnlyInputFollows, SomebodySends, Answers, QuestionsAreKept,
         [Next]_vars
  PROVE  QuestionsAreKept'
<1> SUFFICES ASSUME Prompted, connected', client' # "done", NEW i \in Index,
                    proc'[i] = "running", Seen(i)' > stdin'[i]
             PROVE  Unanswered'
  BY DEF QuestionsAreKept
<1>0. /\ runner \in [Index -> {"none", "started", "ready", "copy", "wait",
                               "sendError", "sendDone", "ended"}]
      /\ proc \in [Index -> {"none", "running", "detached", "ok", "failed"}]
      /\ forwarded \in [Index -> Nat] /\ stdin \in [Index -> Nat]
      /\ s2c \in Seq(Message)
      /\ Seen(i) \in Nat /\ Steps' = Steps /\ client # "done"
      /\ OneQuestion /\ ~crashed /\ \A j \in Index : Dialogue(j)
  BY QuestionsFacts, StageStays, DoneForGood DEF IInv, TypeOK, vars, Steps, Answers
<1>1. CASE UNCHANGED vars
  <2>1. UNCHANGED <<connected, proc, forwarded, stdin, typed, asked, s2c, c2s, receiver>>
    BY <1>1 DEF vars, clientVars, netVars, inputVars, runVars
  <2>2. Unanswered
    BY <1>0, <2>1 DEF QuestionsAreKept, Seen
  <2> QED BY <2>1, <2>2 DEF Unanswered, Coming, Shown, Typed, Taken
<1>2. CASE Next /\ proc[i] # "running"
  <2>1. StartPty(i)
    <3>1. CASE \E j \in Index : Runner(j)
      BY <1>0, <1>2, <3>1 DEF Runner, RunExport, Prepare, StartPty, StartPtyFails, Forward,
        ForwardFails, Drained, Wait
    <3>2. CASE \E j \in Index : Command(j)
      BY <1>0, <1>2, <3>2 DEF Command, Prints, Detach, ExitOk, ExitFailed
    <3>3. CASE Client \/ Type \/ ParamsUnanswered \/ ConnectionLost \/ Receiver
      BY <1>2, <3>3 DEF Client, Open, OpenPanics, ClientRecv, AnswerParams, ClientRecvError, Type,
        ParamsUnanswered, ConnectionLost, Receiver, ReceiveInput, ReceiveError, runVars
    <3>4. CASE Handler
      BY <1>2, <3>4 DEF Handler, RecvRequest, RecvParams, HandshakeLost, BeginStep, RefuseStep,
        SelectInput, SelectInputError, SelectError, SelectDone, CollectOutputs, CollectFails,
        ExecuteReturns, runVars
    <3> QED BY <1>2, <3>1, <3>2, <3>3, <3>4 DEF Next
  <2>2. proc[i] = "none"
    BY <2>1 DEF StartPty, RunnerAt, IInv, CommandsFollowTheirRunner
  <2>3. Seen(i) = 0
    BY <1>0, <2>2, QuestionsFacts DEF Dialogue
  <2>4. Seen(i)' = 0 /\ stdin'[i] \in Nat
    BY <1>0, <2>1, <2>3 DEF StartPty, Seen
  <2> QED BY <2>4
<1>3. CASE Next /\ proc[i] = "running"
  <2>0. connected
    BY <1>3, LostForGood
  <2>1. /\ handler = "select" /\ i = cur /\ i \in 1 .. Len(Steps)
        /\ runner[i] \in {"copy", "wait"} /\ Steps[i].type = "command"
    BY <1>3, <2>0, WhereItRuns
  <2>2. Seen(i) > stdin[i] => Unanswered
    BY <1>0, <1>3, <2>0 DEF QuestionsAreKept
  <2>3. CASE UNCHANGED <<forwarded, stdin, typed, asked, s2c, c2s, receiver>>
    BY <1>0, <2>2, <2>3 DEF Seen, Unanswered, Coming, Shown, Typed, Taken
  <2>4. CASE Client \/ Type \/ ParamsUnanswered \/ ConnectionLost
    <3>1. UNCHANGED <<forwarded, stdin>>
      BY <2>4 DEF Client, Open, OpenPanics, ClientRecv, AnswerParams, ClientRecvError, Type,
        ParamsUnanswered, ConnectionLost, runVars
    <3>2. Unanswered
      BY <1>0, <2>2, <3>1 DEF Seen
    <3> QED BY <1>0, <2>1, <2>4, <3>2, ClientKeeps
  <2>5. CASE Handler
    <3>1. SelectInput
      BY <2>0, <2>1, <2>5 DEF Handler, RecvRequest, RecvParams, HandshakeLost, BeginStep,
        RefuseStep, SelectInputError, SelectError, SelectDone, CollectOutputs, CollectFails,
        ExecuteReturns, NobodyIsAbandoned, Finished
    <3>2. /\ forwarded[cur] > 0 /\ Seen(cur) = stdin[cur] + 1
      BY <1>0, <3>1, WhoAsked DEF SelectInput, Unanswered, Taken
    <3>3. HandleInput(cur) = {"delivered"}
      BY <1>3, <2>1, <3>2 DEF HandleInput
    <3>4. stdin'[cur] = stdin[cur] + 1 /\ forwarded' = forwarded
      BY <1>0, <2>1, <3>1, <3>3 DEF SelectInput
    <3>5. Seen(i)' = stdin'[i] /\ stdin'[i] \in Nat
      BY <1>0, <2>1, <3>2, <3>4 DEF Seen
    <3> QED BY <3>5
  <2>6. CASE Receiver
    BY <2>0, <2>1, <2>6 DEF Receiver, ReceiveInput, ReceiveError, Finished, Unanswered, Taken
  <2>7. ASSUME NEW j \in Index, Runner(j) PROVE Unanswered'
    <3>1. j = i /\ (Forward(i) \/ Drained(i) \/ Wait(i))
      <4>1. runner[j] \notin {"none", "ended"}
        BY <2>7 DEF Runner, RunExport, Prepare, StartPty, StartPtyFails, Forward, ForwardFails,
          Drained, Wait, RunnerAt
      <4>2. j = i
        BY <2>1, <4>1, RunnerAtWork
      <4> QED BY <2>0, <2>1, <2>7, <4>2 DEF Runner, RunExport, Prepare, StartPty,
          StartPtyFails, ForwardFails, RunnerAt
    <3>2. CASE Drained(i) \/ Wait(i)
      BY <2>3, <3>2 DEF Drained, Wait, clientVars, netVars, inputVars
    <3>3. CASE Forward(i)
      <4>1. PICK m \in Message : /\ m.type = "output"
                                 /\ m.text = Steps[i].script[forwarded[i] + 1]
                                 /\ ToClient(m)
        BY <3>3, ForwardSends
      <4>2. /\ UNCHANGED <<stdin, typed, asked, c2s, receiver>>
            /\ forwarded'[i] = forwarded[i] + 1
        BY <1>0, <3>3 DEF Forward, clientVars, inputVars
      <4>3. CASE IsAsk(m)
        <5>1. Len(s2c') = Len(s2c) + 1 /\ s2c'[Len(s2c) + 1] = m /\ Len(s2c) \in Nat
          BY <1>0, <2>0, <4>1, ToClientQueue
        <5>2. Len(s2c') \in 1 .. Len(s2c') /\ s2c'[Len(s2c')] = m
          BY <5>1
        <5> QED BY <4>3, <5>2 DEF Unanswered, Coming, IsAsk
      <4>4. CASE ~IsAsk(m)
        <5>1. Seen(i)' = Seen(i)
          <6>1. Steps[i].script[forwarded[i] + 1] # "ask"
            BY <4>1, <4>4 DEF IsAsk
          <6> QED BY <1>0, <4>2, <6>1, AsksFacts DEF Seen
        <5>2. Unanswered
          BY <2>2, <4>2, <5>1
        <5>3. Coming => Coming'
          BY <1>0, <4>1, StillComing
        <5> QED BY <4>2, <5>2, <5>3 DEF Unanswered, Shown, Typed, Taken
      <4> QED BY <4>3, <4>4
    <3> QED BY <3>1, <3>2, <3>3
  <2>8. ASSUME NEW j \in Index, Command(j) PROVE Unanswered'
    BY <2>3, <2>8 DEF Command, Prints, Detach, ExitOk, ExitFailed, clientVars, netVars, inputVars
  <2> QED BY <1>3, <2>4, <2>5, <2>6, <2>7, <2>8 DEF Next
<1> QED BY <1>1, <1>2, <1>3

\* Somebody works, somebody sends, and no question is lost.
ProgressInv == SomebodyWorks /\ SomebodySends /\ QuestionsAreKept

\* It is an invariant of the call.
THEOREM ProgressInvHolds == Spec => []ProgressInv
<1>1. Init => ProgressInv
  <2> SUFFICES ASSUME Init PROVE ProgressInv
    OBVIOUS
  <2> QED BY DEF Init, ProgressInv, SomebodyWorks, SomebodySends, QuestionsAreKept, Finished
<1>2. /\ IInv /\ NobodyIsAbandoned /\ HandshakeInOrder /\ OnlyInputFollows /\ Answers
      /\ ProgressInv /\ [Next]_vars
      => ProgressInv'
  <2> SUFFICES ASSUME IInv, NobodyIsAbandoned, HandshakeInOrder, OnlyInputFollows, Answers,
                      ProgressInv, [Next]_vars
               PROVE  ProgressInv'
    OBVIOUS
  <2>1. SomebodySends'
    <3>1. UNCHANGED vars => SomebodySends'
      BY DEF vars, clientVars, netVars, stepVars, ProgressInv, SomebodySends
    <3> QED BY <3>1, ClientSends, HandlerSends, WorkersSend DEF Next, ProgressInv
  <2>2. SomebodyWorks'
    BY NextSomebodyWorks DEF ProgressInv
  <2>3. QuestionsAreKept'
    BY NextQuestionsAreKept DEF ProgressInv
  <2> QED BY <2>1, <2>2, <2>3 DEF ProgressInv
<1> QED BY <1>1, <1>2, IInvHolds, NobodyIsAbandonedHolds, HandshakeInOrderHolds,
    OnlyInputFollowsHolds, AnswersHold, PTL DEF Spec

\* There is no deadlock of client, handler, receiving goroutine and runners, for
\* every definition, script and input, and whatever is lost or fails: while the
\* call has not returned, nor died of a nil stream, one of them can go on, or a
\* command can.
THEOREM WaitsForTheCommandHolds == Spec => []WaitsForTheCommand
<1>1. /\ IInv /\ NobodyIsAbandoned /\ HandshakeInOrder /\ OnlyInputFollows /\ Answers
      /\ ProgressInv
      => WaitsForTheCommand
  <2> SUFFICES ASSUME IInv, NobodyIsAbandoned, HandshakeInOrder, OnlyInputFollows, Answers,
                      ProgressInv, AllWait, client \notin {"done", "panicked"}
               PROVE  /\ connected /\ handler = "select"
                      /\ cur \in 1 .. Len(Steps) /\ Steps[cur].type = "command"
                      /\ proc[cur] \in LiveProc
                      /\ forwarded[cur] = written[cur] /\ s2c = <<>>
                      /\ Prompted /\ ~Answered(cur) => typed < asked
    BY DEF WaitsForTheCommand
  <2>1. client = "receive" /\ s2c = <<>> /\ connected /\ ~crashed
    BY DEF AllWait, ClientCan, IInv, TypeOK
  <2>2. handler = "select"
    BY <2>1 DEF AllWait, HandlerCan, ProgressInv, SomebodySends, IInv, TypeOK
  <2>3. cur \in Index /\ cur \in 1 .. Len(Steps) /\ runner[cur] \notin {"none", "ended"}
    <3>1. cur \in Index
      BY <2>2, StepsType, BoundsAssumption DEF IInv, TypeOK, WhereTheHandlerIs, Index
    <3>2. runner[cur] \notin {"none", "ended"}
      BY <2>2, <3>1 DEF IInv, RunnersFollowTheHandler
    <3> QED BY <3>1, <3>2, RunnerAtWork
  <2>4. receiver = "recv" /\ c2s = <<>>
    BY <2>1, <2>2 DEF AllWait, HandlerCan, ReceiverCan, ProgressInv, SomebodyWorks, IInv, TypeOK
  <2>5. runner[cur] \in {"copy", "wait"}
    BY <2>1, <2>2, <2>3 DEF AllWait, HandlerCan, RunnerCan, ProgressInv, SomebodyWorks, IInv,
      TypeOK
  <2>6. proc[cur] \in LiveProc /\ forwarded[cur] = written[cur]
    <3>1. /\ forwarded[cur] \in Nat /\ written[cur] \in Nat /\ forwarded[cur] <= written[cur]
          /\ proc[cur] \in {"none", "running", "detached", "ok", "failed"}
      BY <2>3 DEF IInv, TypeOK, OutputFollowsTheScript
    <3>2. CASE runner[cur] = "copy"
      BY <2>1, <2>3, <3>1, <3>2 DEF AllWait, RunnerCan, LiveProc
    <3>3. CASE runner[cur] = "wait"
      BY <2>1, <2>3, <3>1, <3>3 DEF AllWait, RunnerCan, LiveProc, ProgressInv, SomebodyWorks
    <3> QED BY <2>5, <3>2, <3>3
  <2>7. ASSUME Prompted, ~Answered(cur) PROVE typed < asked
    <3>1. Questions(cur) \in Nat /\ stdin[cur] \in Nat /\ Questions(cur) > stdin[cur]
      BY <2>3, <2>7, QuestionsFacts DEF Answered
    <3>2. Seen(cur) = Questions(cur)
      BY <2>3, <2>6, QuestionsFacts DEF Seen
    <3>3. proc[cur] = "running"
      BY <2>3, <2>6, <2>7, <3>1 DEF Answers, Dialogue, LiveProc
    <3>4. Unanswered
      BY <2>1, <2>3, <2>7, <3>1, <3>2, <3>3 DEF ProgressInv, QuestionsAreKept
    <3>5. ~Coming /\ ~Typed /\ ~Taken
      BY <2>1, <2>4 DEF Coming, Typed, Taken
    <3> QED BY <3>4, <3>5 DEF Unanswered, Shown
  <2>8. Steps[cur].type = "command"
    BY <2>3, <2>5 DEF IInv, CommandsFollowTheirRunner
  <2> QED BY <2>1, <2>2, <2>3, <2>6, <2>7, <2>8
<1> QED BY <1>1, IInvHolds, NobodyIsAbandonedHolds, HandshakeInOrderHolds, OnlyInputFollowsHolds,
    AnswersHold, ProgressInvHolds, PTL
=============================================================================
