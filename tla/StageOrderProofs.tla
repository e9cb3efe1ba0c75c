-------------------------- MODULE StageOrderProofs --------------------------
(***************************************************************************)
(* Theorems of StageExecution on the order of things: commands, the        *)
(* directory they write to, and the messages of the handshake. They stand  *)
(* on the inductive invariant of StageExecutionProofs.                     *)
(***************************************************************************)
EXTENDS StageExecutionProofs

(* Commands and their directory. *)

AtWork == {"started", "ready", "copy", "wait"}

\* Only a lost connection makes the handler leave a runner at work, or a runner
\* its command; and the directory is there as long as the handler waits.
NobodyIsAbandoned ==
  /\ receiver = "sendError" => ~connected \/ handler \in Finished
  /\ handler \in {"select", "collect"} => dir = "present"
  /\ \A i \in Index : runner[i] \in AtWork /\ connected => handler = "select"
  /\ \A i \in Index : proc[i] \in LiveProc /\ connected => runner[i] \in {"copy", "wait"}

\* Nobody is at work before the first message.
LEMMA InitNobody == Init => NobodyIsAbandoned
BY DEF Init, NobodyIsAbandoned, AtWork, LiveProc

\* When the handler is anywhere but in its select loop nobody is at work.
LEMMA NobodyAtWork ==
  ASSUME IInv, ~(handler \in Finished), handler # "select", NEW i \in Index
  PROVE  runner[i] \notin AtWork
<1>1. /\ i < cur => runner[i] = "ended"
      /\ i > cur => runner[i] = "none"
      /\ i = cur => runner[i] \in {"none", "ended"}
  BY DEF IInv, RunnersFollowTheHandler, TypeOK, Finished
<1>2. i < cur \/ i > cur \/ i = cur
  BY BoundsAssumption DEF IInv, TypeOK, Index
<1> QED BY <1>1, <1>2 DEF AtWork

\* In the select loop it is the runner of cur, if any.
LEMMA OneAtWork ==
  ASSUME IInv, handler = "select", NEW i \in Index, i # cur
  PROVE  runner[i] \in {"none", "ended"}
<1>1. i < cur \/ i > cur
  BY BoundsAssumption DEF IInv, TypeOK, Index
<1> QED BY <1>1 DEF IInv, RunnersFollowTheHandler

\* The steps of the client, the user and the network leave nobody behind.
LEMMA ClientNobody ==
  IInv /\ NobodyIsAbandoned /\ (Client \/ Type \/ ParamsUnanswered \/ ConnectionLost)
    => NobodyIsAbandoned'
BY DEF Client, Open, OpenPanics, ClientRecv, AnswerParams, ParamsUnanswered, ClientRecvError, Type,
  ConnectionLost, NobodyIsAbandoned, clientVars, netVars, inputVars, stepVars, runVars

\* A handler that leaves a place other than its select loop leaves nobody.
LEMMA LeaveNobody ==
  ASSUME IInv, NobodyIsAbandoned, ~(handler \in Finished), handler # "select",
         UNCHANGED <<connected, runVars>>,
         receiver' = "sendError" => receiver = "sendError" \/ ~connected \/ handler' \in Finished,
         handler' \notin {"select", "collect"}
  PROVE  NobodyIsAbandoned'
BY NobodyAtWork DEF NobodyIsAbandoned, runVars, AtWork

\* The steps of the handler.
LEMMA HandlerNobody == IInv /\ NobodyIsAbandoned /\ Handler => NobodyIsAbandoned'
<1> SUFFICES ASSUME IInv, NobodyIsAbandoned, Handler PROVE NobodyIsAbandoned'
  OBVIOUS
<1>1. CASE RecvRequest
  BY <1>1, LeaveNobody DEF RecvRequest, HandlerReturns, inputVars, Finished
<1>2. CASE RecvParams
  BY <1>2, LeaveNobody DEF RecvParams, HandlerReturns, Finished
<1>3. CASE HandshakeLost \/ RefuseStep \/ CollectFails \/ ExecuteReturns
  BY <1>3, LeaveNobody DEF HandshakeLost, RefuseStep, CollectFails, ExecuteReturns,
    HandlerReturns, inputVars, Finished
<1>4. CASE CollectOutputs
  BY <1>4, LeaveNobody DEF CollectOutputs, netVars, inputVars, Finished, NobodyIsAbandoned
<1>5. CASE BeginStep
  <2>1. cur \in Index /\ runner \in [Index -> {"none", "started", "ready", "copy", "wait",
                                              "sendError", "sendDone", "ended"}]
    BY <1>5, StepsType, BoundsAssumption DEF BeginStep, IInv, TypeOK, Index
  <2>2. proc[cur] \notin LiveProc
    BY <1>5, <2>1 DEF BeginStep, IInv, CommandsFollowTheirRunner, RunnersFollowTheHandler,
      LiveProc
  <2> QED BY <1>5, <2>1, <2>2 DEF BeginStep, NobodyIsAbandoned, netVars, inputVars, LiveProc,
      Finished
<1>6. CASE SelectInput
  BY <1>6 DEF SelectInput, NobodyIsAbandoned, netVars
<1>7. CASE SelectInputError
  BY <1>7 DEF SelectInputError, NobodyIsAbandoned, HandlerReturns, runVars, Finished
<1>8. CASE SelectError \/ SelectDone
  <2>1. handler = "select" /\ UNCHANGED <<connected, proc, receiver>>
    BY <1>8 DEF SelectError, SelectDone, netVars, inputVars
  <2>2. runner[cur] \notin AtWork
    BY <1>8 DEF SelectError, SelectDone, AtWork
  <2>3. \A i \in Index : runner'[i] \notin AtWork /\ (i # cur => runner'[i] = runner[i])
    <3>1. runner \in [Index -> {"none", "started", "ready", "copy", "wait",
                                "sendError", "sendDone", "ended"}]
      BY DEF IInv, TypeOK
    <3>2. \A i \in Index : i # cur => runner[i] \notin AtWork
      BY <2>1, OneAtWork DEF AtWork
    <3> QED BY <1>8, <3>1, <3>2 DEF SelectError, SelectDone, AtWork
  <2>4. \A i \in Index : proc[i] \in LiveProc => ~connected
    <3>1. \A i \in Index : runner[i] \notin AtWork
      BY <2>1, <2>2, OneAtWork DEF AtWork
    <3> QED BY <3>1 DEF NobodyIsAbandoned, AtWork
  <2>5. receiver = "sendError" => ~connected
    BY <2>1 DEF NobodyIsAbandoned, Finished
  <2>6. handler' \in {"select", "collect"} => dir' = "present"
    BY <1>8, <2>1 DEF SelectError, SelectDone, HandlerReturns, NobodyIsAbandoned
  <2> QED BY <2>1, <2>3, <2>4, <2>5, <2>6 DEF NobodyIsAbandoned
<1> QED BY <1>1, <1>2, <1>3, <1>4, <1>5, <1>6, <1>7, <1>8 DEF Handler

\* The steps of the goroutine that receives, of a runner and of a command.
LEMMA WorkersNobody ==
  ASSUME IInv, NobodyIsAbandoned, NEW i \in Index, Receiver \/ Runner(i) \/ Command(i)
  PROVE  NobodyIsAbandoned'
<1>1. CASE Receiver
  BY <1>1 DEF Receiver, ReceiveInput, ReceiveError, NobodyIsAbandoned, netVars, stepVars,
    runVars, Finished
<1>2. CASE Runner(i)
  <2>1. UNCHANGED <<connected, receiver, handler, dir>>
    BY <1>2 DEF Runner, RunExport, Prepare, StartPty, StartPtyFails, Forward, ForwardFails,
      Drained, Wait, netVars, inputVars, stepVars
  <2>2. /\ runner \in [Index -> {"none", "started", "ready", "copy", "wait",
                                 "sendError", "sendDone", "ended"}]
        /\ proc \in [Index -> {"none", "running", "detached", "ok", "failed"}]
    BY DEF IInv, TypeOK
  <2>3. \A j \in Index : j # i => runner'[j] = runner[j] /\ proc'[j] = proc[j]
    BY <1>2, <2>2 DEF Runner, RunExport, Prepare, StartPty, StartPtyFails, Forward,
      ForwardFails, Drained, Wait, RunnerGoes
  <2>4. runner'[i] \in AtWork => runner[i] \in AtWork
    BY <1>2, <2>2 DEF Runner, RunExport, Prepare, StartPty, StartPtyFails, Forward,
      ForwardFails, Drained, Wait, RunnerAt, RunnerGoes, AtWork
  <2>5. proc'[i] \in LiveProc /\ connected => runner'[i] \in {"copy", "wait"}
    <3>1. CASE RunExport(i) \/ Prepare(i) \/ StartPtyFails(i)
      BY <3>1, <2>2 DEF RunExport, Prepare, StartPtyFails, RunnerAt, RunnerGoes,
        NobodyIsAbandoned
    <3>2. CASE StartPty(i) \/ Forward(i) \/ Drained(i)
      BY <3>2, <2>2 DEF StartPty, Forward, Drained, RunnerAt, RunnerGoes, NobodyIsAbandoned
    <3>3. CASE ForwardFails(i) \/ Wait(i)
      BY <3>3, <2>2 DEF ForwardFails, Wait, RunnerAt, RunnerGoes, LiveProc
    <3> QED BY <1>2, <3>1, <3>2, <3>3 DEF Runner
  <2> QED BY <2>1, <2>3, <2>4, <2>5 DEF NobodyIsAbandoned
<1>3. CASE Command(i)
  <2>1. UNCHANGED <<connected, receiver, handler, dir, runner>>
    BY <1>3 DEF Command, Prints, Detach, ExitOk, ExitFailed, netVars, inputVars, stepVars
  <2>2. proc \in [Index -> {"none", "running", "detached", "ok", "failed"}]
    BY DEF IInv, TypeOK
  <2>3. \A j \in Index : proc'[j] \in LiveProc => proc[j] \in LiveProc
    BY <1>3, <2>2 DEF Command, Prints, Detach, ExitOk, ExitFailed, LiveProc
  <2> QED BY <2>1, <2>3 DEF NobodyIsAbandoned
<1> QED BY <1>1, <1>2, <1>3

\* Nobody is ever abandoned on a connection that is up.
THEOREM NobodyIsAbandonedHolds == Spec => []NobodyIsAbandoned
<1>1. IInv /\ NobodyIsAbandoned /\ [Next]_vars => NobodyIsAbandoned'
  <2>1. CASE UNCHANGED vars
    BY <2>1 DEF vars, netVars, inputVars, stepVars, runVars, NobodyIsAbandoned
  <2>2. ASSUME NobodyIsAbandoned, IInv, Receiver PROVE NobodyIsAbandoned'
    BY <2>2 DEF Receiver, ReceiveInput, ReceiveError, NobodyIsAbandoned, netVars, stepVars,
      runVars, Finished
  <2> QED BY <2>1, <2>2, ClientNobody, HandlerNobody, WorkersNobody DEF Next
<1> QED BY <1>1, InitNobody, IInvHolds, PTL DEF Spec

\* Two commands never run at once, and none beside a later step, while the
\* connection is up: CommandsDoNotOverlap, for every definition.
THEOREM CommandsDoNotOverlapHolds == Spec => []CommandsDoNotOverlap
<1>1. IInv /\ NobodyIsAbandoned => CommandsDoNotOverlap
  <2> SUFFICES ASSUME IInv, NobodyIsAbandoned, NEW i \in Index
               PROVE  /\ runner[i] \notin {"none", "ended"} => i = cur
                      /\ proc[i] \in LiveProc => /\ i = cur
                                                 /\ connected => handler = "select"
    BY DEF CommandsDoNotOverlap
  <2>1. i < cur \/ i > cur \/ i = cur
    BY BoundsAssumption DEF IInv, TypeOK, Index
  <2>2. runner[i] \notin {"none", "ended"} => i = cur
    BY <2>1 DEF IInv, RunnersFollowTheHandler
  <2>3. proc[i] \in LiveProc => runner[i] \notin {"none", "ended"}
    BY DEF IInv, CommandsFollowTheirRunner, LiveProc
  <2> QED BY <2>2, <2>3 DEF NobodyIsAbandoned, AtWork
<1> QED BY <1>1, IInvHolds, NobodyIsAbandonedHolds, PTL

\* While the connection is up the outputs directory outlives the command that
\* writes to it: OutputsDirOutlivesCommand, for every definition.
THEOREM OutputsDirOutlivesCommandHolds == Spec => []OutputsDirOutlivesCommand
<1>1. NobodyIsAbandoned => OutputsDirOutlivesCommand
  BY DEF NobodyIsAbandoned, OutputsDirOutlivesCommand, AtWork
<1> QED BY <1>1, NobodyIsAbandonedHolds, PTL

-----------------------------------------------------------------------------
(* The handshake. *)

\* Until the handler has both messages, the client has sent nothing else, or
\* what it sent is behind them, or the connection is lost.
HandshakeInOrder ==
  /\ handler \in {"recvRequest", "recvParams"} => receiver = "off"
  /\ handler = "recvRequest" =>
       /\ s2c = <<>> /\ ~copying /\ client # "prompt"
       /\ c2s = <<>> \/ (c2s = <<"stageExecuteRequest">> /\ client # "open")
  /\ handler = "recvParams" =>
       /\ client # "open"
       /\ c2s # <<>> => Head(c2s) = "paramsResponse"
       /\ c2s = <<>> /\ connected => ~copying
  /\ handler # "rejected"

\* What is sent stays behind the head of the queue.
LEMMA ToServerHead ==
  ASSUME c2s \in Seq({"stageExecuteRequest", "paramsResponse", "input"}),
         NEW m \in {"stageExecuteRequest", "paramsResponse", "input"}, ToServer(m)
  PROVE  /\ c2s = <<>> /\ connected => c2s' = <<m>>
         /\ c2s # <<>> => c2s' # <<>> /\ Head(c2s') = Head(c2s)
         /\ ~connected => c2s' = c2s
<1>1. CASE connected
  <2>1. c2s' = Append(c2s, m)
    BY <1>1 DEF ToServer
  <2>2. CASE c2s = <<>>
    BY <1>1, <2>1, <2>2
  <2>3. CASE c2s # <<>>
    <3>1. Len(c2s) > 0 /\ Len(c2s') = Len(c2s) + 1 /\ c2s'[1] = c2s[1]
      BY <2>1, <2>3
    <3> QED BY <1>1, <2>1, <2>3, <3>1
  <2> QED BY <2>2, <2>3
<1>2. CASE ~connected
  BY <1>2 DEF ToServer
<1> QED BY <1>1, <1>2

\* The order of the handshake holds whatever the user types.
THEOREM HandshakeInOrderHolds == Spec => []HandshakeInOrder
<1>1. Init => HandshakeInOrder
  BY DEF Init, HandshakeInOrder
<1>2. IInv /\ HandshakeInOrder /\ [Next]_vars => HandshakeInOrder'
  <2> SUFFICES ASSUME IInv, HandshakeInOrder, [Next]_vars PROVE HandshakeInOrder'
    OBVIOUS
  <2>0. c2s \in Seq({"stageExecuteRequest", "paramsResponse", "input"})
    BY DEF IInv, TypeOK
  <2>1. CASE Open
    <3>1. ToServer("stageExecuteRequest") /\ client = "open" /\ client' = "receive"
          /\ UNCHANGED <<handler, s2c, copying, connected, receiver>>
      BY <2>1 DEF Open, stepVars, inputVars
    <3>2. /\ c2s = <<>> /\ connected => c2s' = <<"stageExecuteRequest">>
          /\ ~connected => c2s' = c2s
      BY <2>0, <3>1, ToServerHead
    <3> QED BY <3>1, <3>2 DEF HandshakeInOrder
  <2>2. CASE OpenPanics \/ ClientRecv \/ ClientRecvError \/ ParamsUnanswered \/ ConnectionLost
    BY <2>2 DEF OpenPanics, ClientRecv, ClientRecvError, ParamsUnanswered, ConnectionLost, Returns,
      HandshakeInOrder, clientVars, netVars, inputVars, stepVars
  <2>3. CASE AnswerParams
    <3>1. ToServer("paramsResponse") /\ client = "prompt" /\ client' = "receive"
          /\ UNCHANGED <<handler, s2c, connected, receiver>>
      BY <2>3 DEF AnswerParams, stepVars, inputVars
    <3>2. /\ c2s = <<>> /\ connected => c2s' = <<"paramsResponse">>
          /\ c2s # <<>> => c2s' # <<>> /\ Head(c2s') = Head(c2s)
          /\ ~connected => c2s' = c2s
      BY <2>0, <3>1, ToServerHead
    <3>3. handler # "recvRequest"
      BY <3>1 DEF HandshakeInOrder
    <3> QED BY <3>1, <3>2, <3>3 DEF HandshakeInOrder
  <2>4. CASE Type
    <3>1. /\ copying /\ UNCHANGED <<handler, s2c, connected, client, copying, receiver>>
          /\ c2s' = c2s \/ ToServer("input")
      BY <2>4 DEF Type, stepVars, inputVars
    <3>2. handler # "recvRequest"
      BY <3>1 DEF HandshakeInOrder
    <3>3. CASE c2s' = c2s
      BY <3>1, <3>2, <3>3 DEF HandshakeInOrder
    <3>4. CASE ToServer("input")
      <4>1. /\ c2s # <<>> => c2s' # <<>> /\ Head(c2s') = Head(c2s)
            /\ ~connected => c2s' = c2s
        BY <2>0, <3>4, ToServerHead
      <4> QED BY <3>1, <3>2, <4>1 DEF HandshakeInOrder
    <3> QED BY <3>1, <3>3, <3>4
  <2>5. CASE RecvRequest
    <3>1. /\ handler = "recvRequest" /\ receiver = "off"
          /\ c2s = <<"stageExecuteRequest">> /\ client # "open" /\ ~copying
      BY <2>5 DEF RecvRequest, HandshakeInOrder
    <3>2. c2s' = <<>> /\ UNCHANGED <<client, copying, receiver>> /\ handler' \in {"failed", "recvParams"}
      BY <2>5, <3>1 DEF RecvRequest, HandlerReturns, clientVars, inputVars
    <3> QED BY <3>1, <3>2 DEF HandshakeInOrder
  <2>6. CASE RecvParams
    <3>1. Head(c2s) = "paramsResponse"
      BY <2>6 DEF RecvParams, HandshakeInOrder
    <3> QED BY <2>6, <3>1 DEF RecvParams, HandshakeInOrder
  <2>7. CASE UNCHANGED <<c2s, client, copying, connected>>
             /\ (handler' = "recvRequest" => handler = "recvRequest" /\ s2c' = s2c)
             /\ (handler' = "recvParams" => handler = "recvParams")
             /\ (handler' \in {"recvRequest", "recvParams"} => receiver' = receiver)
             /\ handler' # "rejected"
    BY <2>7 DEF HandshakeInOrder
  <2>8. CASE HandshakeLost \/ BeginStep \/ RefuseStep \/ SelectInput \/ SelectInputError
             \/ SelectError \/ SelectDone \/ CollectOutputs \/ CollectFails \/ ExecuteReturns
    BY <2>8, <2>7 DEF HandshakeLost, BeginStep, RefuseStep, SelectInput, SelectInputError,
      SelectError, SelectDone, CollectOutputs, CollectFails, ExecuteReturns, HandlerReturns,
      clientVars, netVars, inputVars
  <2>9. CASE Receiver
    <3>1. receiver = "recv" /\ UNCHANGED <<handler, s2c, client, copying, connected>>
      BY <2>9 DEF Receiver, ReceiveInput, ReceiveError, clientVars, netVars, stepVars
    <3> QED BY <3>1 DEF HandshakeInOrder
  <2>10. ASSUME NEW i \in Index, Runner(i) \/ Command(i) PROVE HandshakeInOrder'
    <3>1. UNCHANGED <<c2s, client, copying, connected, handler, receiver>>
      BY <2>10 DEF Runner, RunExport, Prepare, StartPty, StartPtyFails, Forward, ForwardFails,
        Drained, Wait, Command, Prints, Detach, ExitOk, ExitFailed, clientVars, netVars,
        inputVars, stepVars
    <3>2. handler = "recvRequest" => s2c' = s2c
      <4> SUFFICES ASSUME handler = "recvRequest" PROVE s2c' = s2c
        OBVIOUS
      <4>1. runner[i] \notin AtWork
        BY NobodyAtWork DEF Finished
      <4> QED BY <2>10, <4>1 DEF Runner, RunExport, Prepare, StartPty, StartPtyFails, Forward,
        ForwardFails, Drained, Wait, Command, Prints, Detach, ExitOk, ExitFailed, RunnerAt,
        AtWork, netVars
    <3> QED BY <3>1, <3>2, <2>7 DEF HandshakeInOrder
  <2>11. CASE UNCHANGED vars
    BY <2>11 DEF vars, clientVars, netVars, inputVars, stepVars, HandshakeInOrder
  <2> QED BY <2>1, <2>2, <2>3, <2>4, <2>5, <2>6, <2>8, <2>9, <2>10, <2>11
    DEF Next, Client, Handler
<1> QED BY <1>1, <1>2, IInvHolds, PTL DEF Spec

\* So the handler never rejects a message of the handshake:
\* HandshakeNeverRejected, for every definition and every amount of input.
THEOREM HandshakeNeverRejectedHolds == Spec => []HandshakeNeverRejected
<1>1. HandshakeInOrder => HandshakeNeverRejected
  BY DEF HandshakeInOrder, HandshakeNeverRejected
<1> QED BY <1>1, HandshakeInOrderHolds, PTL
=============================================================================
