---------------------------- MODULE CorkRunProofs ----------------------------
(***************************************************************************)
(* Theorems of CorkRun for every stage and every number of its steps and   *)
(* of retries: its type invariant, that "Cork is done!" means the stage    *)
(* ran, that the container is removed, for what causes the process panics, *)
(* that its server does as ServerContract says, and that its goroutines    *)
(* never wait for each other.                                              *)
(***************************************************************************)
EXTENDS CorkRun, TLAPS

(* The inductive invariant. *)

\* The other goroutines of the run are started by the main one.
StartedInOrder ==
  /\ main \in {"setup", "create", "attach", "start", "count", "append", "creds", "session"} =>
       client = "off" /\ ssh = "off" /\ server = "off"
  /\ main = "append" => children = 1

\* What success is made of: all the steps are complete, the exports are on
\* disk, and the client will not touch the stage again.
Accomplished ==
  /\ stage \in DOMAIN StepCount /\ completed = StepCount[stage]
  /\ exported
  /\ client \in {"awaitAnswer", "sendEOF", "sendErr", "ended"}

\* Success is handed from the client to the server it kills, to the ssh
\* session, to the main goroutine, to the exit status.
SuccessIsHandedOn ==
  /\ client \in {"write", "killServer", "awaitAnswer", "sendEOF"} =>
       stage \in DOMAIN StepCount /\ completed = StepCount[stage]
  /\ client \in {"killServer", "awaitAnswer", "sendEOF"} => exported
  /\ "env" \notin Faults =>
       /\ server \in {"stopping", "exitedOk"} => Accomplished
       /\ ssh = "sendOk" => Accomplished
       /\ main \in {"close", "kill", "report"} /\ ~failing /\ ~panicking => Accomplished
       /\ exit = "done" => Accomplished

\* Until the child of Start is registered nothing kills the container, and a
\* Kill that has run leaves none.
KillsRemoveTheContainer ==
  /\ main \in {"setup", "create", "attach", "start", "count"} => children = 0
  /\ children = 0 => killSignals = 0
  /\ killSignals = 0 <=> child = "off"
  /\ main \in {"setup", "create", "attach", "start", "count", "append"} =>
       killSignals = 0 /\ container # "gone"
  /\ "docker" \notin Faults =>
       /\ child \in {"sendDone", "ended"} => container = "gone"
       /\ main = "report" => container = "gone"
       /\ exit \in {"done", "failed"} => container = "gone"
       /\ exit = "terminated" /\ children = 1 => container = "gone"

RInv == TypeOK /\ StartedInOrder /\ SuccessIsHandedOn /\ KillsRemoveTheContainer

-----------------------------------------------------------------------------

\* The steps of the main goroutine.
LEMMA MainPreserves ==
  ASSUME RInv, Main
  PROVE  RInv'
<1> USE DEF RInv, TypeOK, StartedInOrder, SuccessIsHandedOn, Accomplished, KillsRemoveTheContainer,
          stageVars, mainVars, termVars, farVars, dockVars, Alive
<1>1. CASE Setup
  BY <1>1 DEF Setup, MainGoes
<1>2. CASE SetupFails
  BY <1>2 DEF SetupFails
<1>3. CASE Create
  BY <1>3 DEF Create, MainGoes
<1>4. CASE Attach
  BY <1>4 DEF Attach, MainGoes
<1>5. CASE StartContainer
  BY <1>5 DEF StartContainer, MainGoes
<1>6. CASE CommanderFails
  BY <1>6 DEF CommanderFails
<1>7. CASE CountChild
  BY <1>7 DEF CountChild, MainGoes
<1>8. CASE AppendChild
  BY <1>8 DEF AppendChild, MainGoes
<1>9. CASE SetupCreds
  BY <1>9 DEF SetupCreds, MainGoes
<1>10. CASE CredsFail
  BY <1>10 DEF CredsFail, MainGoes
<1>11. CASE CredsFatal
  BY <1>11 DEF CredsFatal
<1>12. CASE NoDockerConfig
  BY <1>12 DEF NoDockerConfig, MainGoes
<1>13. CASE OpenSession
  BY <1>13 DEF OpenSession, MainGoes
<1>14. CASE SessionFails
  BY <1>14 DEF SessionFails, MainGoes
<1>15. CASE SelectClientErr
  BY <1>15 DEF SelectClientErr, MainGoes
<1>16. CASE SelectClientEOF
  BY <1>16 DEF SelectClientEOF
<1>17. CASE SelectCommandEnd
  <2>1. /\ main = "select" /\ main' = "close" /\ ssh' = "ended"
        /\ failing' \in BOOLEAN /\ (~failing' => ssh = "sendOk")
        /\ UNCHANGED <<stageVars, panicking, termVars, client, retries, exported, server,
                       dockVars, exit>>
    BY <1>17 DEF SelectCommandEnd, MainGoes
  <2>2. TypeOK'
    BY <2>1
  <2>3. StartedInOrder' /\ SuccessIsHandedOn'
    BY <2>1
  <2>4. KillsRemoveTheContainer'
    BY <2>1
  <2> QED BY <2>2, <2>3, <2>4
<1>18. CASE MainCloses
  <2>1. /\ main = "close" /\ main' = "kill" /\ closed' \in BOOLEAN
        /\ exit' = "panic" \/ exit' = exit
        /\ UNCHANGED <<stageVars, failing, panicking, termVars, farVars, container>>
    BY <1>18 DEF MainCloses, Close
  <2>2. TypeOK'
    BY <2>1
  <2>3. StartedInOrder' /\ SuccessIsHandedOn' /\ KillsRemoveTheContainer'
    BY <2>1
  <2> QED BY <2>2, <2>3
<1>19. CASE MainKills
  BY <1>19 DEF MainKills, MainGoes, KillContainer, KillFails
<1>20. CASE Report
  BY <1>20 DEF Report
<1> QED
  BY <1>1, <1>2, <1>3, <1>4, <1>5, <1>6, <1>7, <1>8, <1>9, <1>10, <1>11, <1>12, <1>13, <1>14,
    <1>15, <1>16, <1>17, <1>18, <1>19, <1>20 DEF Main

\* The steps of Ctrl-C.
LEMMA TerminatorPreserves ==
  ASSUME RInv, Interrupt \/ Terminator \/ Child
  PROVE  RInv'
<1> USE DEF RInv, TypeOK, StartedInOrder, SuccessIsHandedOn, Accomplished, KillsRemoveTheContainer,
          stageVars, mainVars, termVars, farVars, dockVars, Alive
<1>1. CASE Interrupt
  BY <1>1 DEF Interrupt
<1>2. CASE TakeSignal
  BY <1>2 DEF TakeSignal
<1>3. CASE NotifyAll
  BY <1>3 DEF NotifyAll
<1>4. CASE NotifyChild
  BY <1>4 DEF NotifyChild
<1>5. CASE WaitForAll
  BY <1>5 DEF WaitForAll
<1>6. CASE ChildCloses
  <2>1. /\ child = "close" /\ child' = "kill" /\ closed' \in BOOLEAN
        /\ exit' = "panic" \/ exit' = exit
        /\ UNCHANGED <<stageVars, mainVars, signal, terminator, children, killSignals, farVars, container>>
    BY <1>6 DEF ChildCloses, Close
  <2>2. TypeOK'
    BY <2>1
  <2>3. StartedInOrder' /\ SuccessIsHandedOn' /\ KillsRemoveTheContainer'
    BY <2>1
  <2> QED BY <2>2, <2>3
<1>7. CASE ChildKills
  BY <1>7 DEF ChildKills, KillContainer, KillFails
<1> QED BY <1>1, <1>2, <1>3, <1>4, <1>5, <1>6, <1>7
      DEF Terminator, Child

\* The steps of the goroutine of runClient.
LEMMA ClientPreserves ==
  ASSUME RInv, Client
  PROVE  RInv'
<1> USE DEF RInv, TypeOK, StartedInOrder, SuccessIsHandedOn, Accomplished, KillsRemoveTheContainer,
          stageVars, mainVars, termVars, farVars, dockVars, Alive
<1>1. CASE Connect
  BY <1>1 DEF Connect, ClientGoes, Serving
<1>2. CASE RetryConnect
  BY <1>2, RunAssumption DEF RetryConnect
<1>3. CASE ConnectFatal
  BY <1>3 DEF ConnectFatal
<1>4. CASE StageOk
  BY <1>4 DEF StageOk, ClientGoes, Contract!ReportSuccess
<1>5. CASE StageError
  BY <1>5 DEF StageError, ClientGoes, Contract!ReportFailure
<1>6. CASE WriteExports
  BY <1>6 DEF WriteExports, ClientGoes
<1>7. CASE WriteFails
  BY <1>7 DEF WriteFails, ClientGoes
<1>8. CASE KillServer
  BY <1>8 DEF KillServer, ClientGoes
<1>9. CASE ServerKilled
  BY <1>9 DEF ServerKilled, ClientGoes
<1>10. CASE KillServerFails
  BY <1>10 DEF KillServerFails, ClientGoes
<1>11. CASE OpenStage \/ OpenPanics
  BY <1>11 DEF OpenStage, OpenPanics, ClientGoes
<1> QED BY <1>1, <1>2, <1>3, <1>4, <1>5, <1>6, <1>7, <1>8, <1>9, <1>10, <1>11
      DEF Client

\* The steps of the session and of the server, and a signal.
LEMMA FarPreserves ==
  ASSUME RInv, Session \/ SessionBreaks \/ Server \/ ServerDies \/ StageRuns
  PROVE  RInv'
<1> USE DEF RInv, TypeOK, StartedInOrder, SuccessIsHandedOn, Accomplished, KillsRemoveTheContainer,
          stageVars, mainVars, termVars, farVars, dockVars, Alive
<1>1. CASE Dial
  BY <1>1 DEF Dial
<1>2. CASE DialFatal
  BY <1>2 DEF DialFatal
<1>3. CASE SessionEnds
  BY <1>3 DEF SessionEnds
<1>4. CASE SessionBreaks
  BY <1>4 DEF SessionBreaks
<1>5. CASE Serve
  BY <1>5 DEF Serve
<1>6. CASE ServeReturns
  BY <1>6 DEF ServeReturns
<1>7. CASE ServerExits
  BY <1>7 DEF ServerExits
<1>8. CASE ServerDies
  BY <1>8 DEF ServerDies
<1>9. CASE StageRuns
  BY <1>9, RunAssumption DEF StageRuns, Contract!BeginNext, Contract!Complete
<1> QED BY <1>1, <1>2, <1>3, <1>4, <1>5, <1>6, <1>7, <1>8, <1>9
      DEF Session, Server

-----------------------------------------------------------------------------
(* The theorems. *)

\* The invariant holds of every run.
THEOREM RInvHolds == Spec => []RInv
<1>1. Init => RInv
  <2> SUFFICES ASSUME Init PROVE RInv
    OBVIOUS
  <2>1. TypeOK
    <3>1. /\ failing \in BOOLEAN /\ panicking \in BOOLEAN
          /\ exported \in BOOLEAN /\ closed \in BOOLEAN
      BY DEF Init
    <3> QED BY <3>1, RunAssumption DEF Init, Contract!ContractInit, TypeOK
  <2>2. StartedInOrder /\ SuccessIsHandedOn /\ KillsRemoveTheContainer
    BY DEF Init, StartedInOrder, SuccessIsHandedOn, KillsRemoveTheContainer
  <2> QED BY <2>1, <2>2 DEF RInv
<1>2. RInv /\ [Next]_vars => RInv'
  <2> SUFFICES ASSUME RInv, [Next]_vars PROVE RInv'
    OBVIOUS
  <2>1. CASE Next
    BY <2>1, MainPreserves, TerminatorPreserves, ClientPreserves, FarPreserves DEF Next
  <2>2. CASE UNCHANGED vars
    BY <2>2 DEF vars, stageVars, mainVars, termVars, farVars, dockVars, RInv, TypeOK,
      StartedInOrder, SuccessIsHandedOn, Accomplished, KillsRemoveTheContainer
  <2> QED BY <2>1, <2>2
<1> QED BY <1>1, <1>2, PTL DEF Spec

\* The variables keep their types.
THEOREM RunTypeCorrect == Spec => []TypeOK
BY RInvHolds, PTL DEF RInv

\* Whatever fails, but for the environment file of the server, "Cork is done!"
\* means that the stage ran and its exports were written.
THEOREM DoneMeansStageRanHolds == "env" \notin Faults => (Spec => []DoneMeansStageRan)
<1> SUFFICES ASSUME "env" \notin Faults PROVE Spec => []DoneMeansStageRan
  OBVIOUS
<1>1. RInv => DoneMeansStageRan
  BY DEF RInv, SuccessIsHandedOn, Accomplished, DoneMeansStageRan
<1> QED BY <1>1, RInvHolds, PTL

\* As long as docker itself works, no container is left by a run that returns
\* from Start, nor by a Ctrl-C that found its child.
THEOREM ContainerRemovedHolds == Spec => []ContainerRemoved
<1>1. RInv => ContainerRemoved
  BY DEF RInv, KillsRemoveTheContainer, ContainerRemoved
<1> QED BY <1>1, RInvHolds, PTL

-----------------------------------------------------------------------------
(* What the process panics for. *)

\* As long as the process lives the CloseWaiter is closed by a Kill that has
\* begun: the deferred one, or that of the child of Ctrl-C.
KillsBegun ==
  /\ Alive /\ closed => main \in {"kill", "report"} \/ child \in {"kill", "sendDone"}
  /\ Alive => child # "ended"
  /\ PanicsForCause

\* The main goroutine panics for cause.
LEMMA MainPanicsForCause ==
  ASSUME RInv, KillsBegun, Main
  PROVE  KillsBegun'
<1> USE DEF KillsBegun, PanicsForCause, Alive, stageVars, mainVars, termVars, farVars, dockVars
<1>1. CASE MainCloses
  BY <1>1 DEF MainCloses, Close
<1>2. CASE MainKills \/ Report
  BY <1>2 DEF MainKills, Report, MainGoes
<1>3. CASE \/ Setup \/ SetupFails \/ Create \/ Attach \/ StartContainer \/ CommanderFails
           \/ CountChild
  BY <1>3 DEF Setup, SetupFails, Create, Attach, StartContainer, CommanderFails,
    CountChild, MainGoes
<1>4. CASE AppendChild
  BY <1>4 DEF AppendChild, MainGoes, RInv, KillsRemoveTheContainer
<1>5. CASE SetupCreds \/ CredsFail \/ CredsFatal \/ NoDockerConfig
  BY <1>5 DEF SetupCreds, CredsFail, CredsFatal, NoDockerConfig, MainGoes
<1>6. CASE OpenSession \/ SessionFails \/ SelectClientErr \/ SelectClientEOF \/ SelectCommandEnd
  BY <1>6 DEF OpenSession, SessionFails, SelectClientErr, SelectClientEOF, SelectCommandEnd,
    MainGoes
<1> QED BY <1>1, <1>2, <1>3, <1>4, <1>5, <1>6 DEF Main

\* So do those of Ctrl-C, and everything that is not the main goroutine.
LEMMA OthersPanicForCause ==
  ASSUME KillsBegun, [Next]_vars, ~Main
  PROVE  KillsBegun'
<1> USE DEF KillsBegun, PanicsForCause, Alive, stageVars, mainVars, termVars, farVars, dockVars
<1>1. CASE Interrupt \/ Terminator
  BY <1>1 DEF Interrupt, Terminator, TakeSignal, NotifyAll, NotifyChild, WaitForAll
<1>2. CASE Child
  BY <1>2 DEF Child, ChildCloses, ChildKills, Close
<1>3. CASE Client
  BY <1>3 DEF Client, Connect, RetryConnect, ConnectFatal, OpenStage, OpenPanics,
    StageOk, StageError, WriteExports, WriteFails, KillServer, ServerKilled, KillServerFails, ClientGoes
<1>4. CASE Session \/ SessionBreaks \/ Server \/ ServerDies \/ StageRuns
  BY <1>4 DEF Session, Dial, DialFatal, SessionEnds, SessionBreaks, Server, Serve, ServeReturns,
    ServerExits, ServerDies, StageRuns
<1>5. CASE UNCHANGED vars
  BY <1>5 DEF vars
<1> QED BY <1>1, <1>2, <1>3, <1>4, <1>5 DEF Next

\* Whatever fails and whenever Ctrl-C is hit, the process panics for no other
\* cause than the three of PanicsForCause: a second close of the CloseWaiter once
\* the child was notified, no docker configuration, a stream that is nil.
THEOREM PanicsForCauseHolds == Spec => []PanicsForCause
<1>1. Init => KillsBegun
  BY DEF Init, KillsBegun, PanicsForCause
<1>2. RInv /\ KillsBegun /\ [Next]_vars => KillsBegun'
  BY MainPanicsForCause, OthersPanicForCause
<1>3. KillsBegun => PanicsForCause
  BY DEF KillsBegun
<1> QED BY <1>1, <1>2, <1>3, RInvHolds, PTL DEF Spec

-----------------------------------------------------------------------------
(* The server of the run keeps the promise of ServerContract. *)

\* There is no server before the session runs it.
NotDialled == ssh \in {"off", "dial"} => server = "off"

\* A step of the run starts the server only once, and has it do no more than
\* the contract allows.
LEMMA StepPromised ==
  ASSUME TypeOK, StartedInOrder, NotDialled, [Next]_vars
  PROVE  NotDialled' /\ (Promise!ServerNext \/ server' = server)
<1> USE DEF TypeOK, NotDialled, stageVars, mainVars, termVars, farVars, dockVars, Alive,
          Promise!ServerNext
<1>1. CASE MainKills \/ ChildKills
  BY <1>1 DEF MainKills, ChildKills, KillContainer, KillFails, MainGoes, Promise!Die
<1>2. CASE OpenSession
  BY <1>2 DEF OpenSession, MainGoes, StartedInOrder
<1>3. CASE SelectCommandEnd \/ SelectClientErr \/ SelectClientEOF
  BY <1>3 DEF SelectCommandEnd, SelectClientErr, SelectClientEOF, MainGoes
<1>4. CASE Dial
  BY <1>4 DEF Dial, Promise!Begin
<1>5. CASE SessionEnds \/ SessionBreaks \/ ServerDies
  BY <1>5 DEF SessionEnds, SessionBreaks, ServerDies, Promise!Die
<1>6. CASE Serve
  BY <1>6 DEF Serve, Promise!Serve
<1>7. CASE ServeReturns
  BY <1>7 DEF ServeReturns, Promise!GiveUp
<1>8. CASE KillServer
  BY <1>8 DEF KillServer, ClientGoes, Promise!Stop
<1>9. CASE ServerExits
  BY <1>9 DEF ServerExits, Promise!Exit
<1>10. CASE Main /\ ~MainKills /\ ~OpenSession /\ ~SelectCommandEnd /\ ~SelectClientErr
              /\ ~SelectClientEOF
  BY <1>10 DEF Main, Setup, SetupFails, Create, Attach, StartContainer, CommanderFails,
    CountChild, AppendChild, SetupCreds, CredsFail, CredsFatal, NoDockerConfig, SessionFails,
    MainCloses, Close, Report, MainGoes
<1>11. CASE Client /\ ~KillServer
  BY <1>11 DEF Client, Connect, RetryConnect, ConnectFatal, OpenStage, OpenPanics,
    StageOk, StageError, WriteExports, WriteFails, ServerKilled, KillServerFails, ClientGoes
<1>12. CASE Interrupt \/ Terminator \/ ChildCloses \/ DialFatal \/ StageRuns \/ UNCHANGED vars
  BY <1>12 DEF Interrupt, Terminator, TakeSignal, NotifyAll, NotifyChild, WaitForAll, ChildCloses,
    Close, DialFatal, StageRuns, vars
<1> QED
  BY <1>1, <1>2, <1>3, <1>4, <1>5, <1>6, <1>7, <1>8, <1>9, <1>10, <1>11, <1>12
    DEF Next, Child, Session, Server

\* What the run has the server do, and does to it, is what ServerContract says a
\* server does (ServerAsPromised).
THEOREM ServerAsPromisedHolds == Spec => ServerAsPromised
<1>1. Init => NotDialled /\ Promise!ServerInit
  BY DEF Init, NotDialled, Promise!ServerInit
<1>2. RInv /\ NotDialled /\ [Next]_vars => NotDialled' /\ [Promise!ServerNext]_server
  BY StepPromised DEF RInv
<1> QED
  BY <1>1, <1>2, RInvHolds, PTL DEF Spec, ServerAsPromised, Promise!ServerSpec

-----------------------------------------------------------------------------
(* Who waits for whom. *)

\* When each goroutine of the run, and the server, can take its next step: the
\* guards of its actions.
MainCan ==
  \/ main \notin {"creds", "select"}
  \/ main = "creds" /\ container \in {"running", "gone"}
  \/ main = "select" /\ (client \in {"sendErr", "sendEOF"} \/ ssh \in {"sendOk", "sendFailed"})

TerminatorCan ==
  \/ terminator = "wait" /\ signal = "sent"
  \/ terminator = "notify"
  \/ terminator = "send" /\ child = "wait"
  \/ terminator = "waitAll" /\ (children = 0 \/ (children = 1 /\ child = "sendDone"))

ChildCan == child \in {"close", "kill"}

ClientCan ==
  \/ client \in {"connect", "open", "write", "awaitAnswer"}
  \/ client = "execute" /\ report = "none"
  \/ client = "killServer" /\ server \in {"serving", "exitedFailed"}

SessionCan ==
  \/ ssh = "dial" /\ container \in {"running", "gone"}
  \/ ssh = "run" /\ server \in {"exitedOk", "exitedFailed"}

ServerCan == server \in {"starting", "stopping"}

\* The goroutines of a run never wait for each other: as long as the process
\* lives, one of them can go on, or the server will, and Ctrl-C is not needed
\* for it.
RunGoesOn == Alive => MainCan \/ ClientCan \/ SessionCan \/ ServerCan

\* Nor do those of Ctrl-C: they are held up only where the signal came between
\* the two steps of AddChild, so that NotifyAll missed a child that WaitForAll
\* counts.
InterruptGoesOn ==
  Alive /\ terminator # "wait" =>
    TerminatorCan \/ ChildCan \/ (children = 1 /\ child \in {"off", "wait"})

\* While the main goroutine waits in its select, the session has not been taken
\* leave of, and the client is through only when the server is.
SelectIsServed ==
  /\ main \in {"count", "append", "creds", "session", "select"} => container \in {"running", "gone"}
  /\ main = "select" =>
       /\ client # "off" /\ ssh \notin {"off", "ended"}
       /\ ssh = "run" => server # "off"
       /\ client = "ended" => server \in {"stopping", "exitedOk", "exitedFailed"}
  /\ Alive => client # "panicked"
  /\ client \in {"off", "connect", "open", "execute"} => report = "none"
  /\ client \in {"off", "connect"} => server # "stopping"
  /\ client \in {"open", "execute", "write", "killServer"} => server \in {"serving", "exitedFailed"}
  /\ client \in {"awaitAnswer", "sendEOF"} => server \in {"stopping", "exitedOk", "exitedFailed"}

\* The child is notified once, by a terminator that then waits for it.
ChildIsNotified ==
  /\ terminator \in {"wait", "notify"} => child \in {"off", "wait"}
  /\ terminator = "send" => child = "wait"
  /\ Alive => child # "ended"

WaitInv == SelectIsServed /\ ChildIsNotified

\* Each step leaves somebody to wait for.
LEMMA NextWaitInv == RInv /\ NotDialled /\ WaitInv /\ [Next]_vars => WaitInv'
<1> SUFFICES ASSUME RInv, NotDialled, WaitInv, [Next]_vars PROVE WaitInv'
  OBVIOUS
<1> USE DEF RInv, TypeOK, StartedInOrder, KillsRemoveTheContainer, NotDialled, WaitInv, SelectIsServed,
          ChildIsNotified, stageVars, mainVars, termVars, farVars, dockVars, Alive
<1>1. CASE \/ Setup \/ SetupFails \/ Create \/ Attach \/ StartContainer \/ CommanderFails
           \/ CountChild \/ AppendChild
  BY <1>1 DEF Setup, SetupFails, Create, Attach, StartContainer, CommanderFails, CountChild,
    AppendChild, MainGoes
<1>2. CASE SetupCreds \/ CredsFail \/ CredsFatal \/ NoDockerConfig \/ OpenSession \/ SessionFails
  BY <1>2 DEF SetupCreds, CredsFail, CredsFatal, NoDockerConfig, OpenSession, SessionFails, MainGoes
<1>3. CASE SelectClientErr \/ SelectClientEOF \/ SelectCommandEnd
  BY <1>3 DEF SelectClientErr, SelectClientEOF, SelectCommandEnd, MainGoes
<1>4. CASE MainCloses \/ MainKills \/ Report
  BY <1>4 DEF MainCloses, MainKills, Report, MainGoes, Close, KillContainer, KillFails
<1>5. CASE Interrupt \/ Terminator
  BY <1>5 DEF Interrupt, Terminator, TakeSignal, NotifyAll, NotifyChild, WaitForAll
<1>6. CASE Child
  BY <1>6 DEF Child, ChildCloses, ChildKills, Close, KillContainer, KillFails
<1>7. CASE Client
  <2>1. CASE Connect \/ RetryConnect \/ ConnectFatal \/ OpenStage \/ OpenPanics
    BY <2>1 DEF Connect, RetryConnect, ConnectFatal, OpenStage, OpenPanics, ClientGoes, Serving
  <2>2. CASE StageOk \/ StageError
    BY <2>2 DEF StageOk, StageError, ClientGoes, Contract!ReportSuccess, Contract!ReportFailure
  <2>3. CASE WriteExports \/ WriteFails \/ KillServer \/ ServerKilled \/ KillServerFails
    BY <2>3 DEF WriteExports, WriteFails, KillServer, ServerKilled, KillServerFails, ClientGoes
  <2> QED BY <1>7, <2>1, <2>2, <2>3 DEF Client
<1>8. CASE Session \/ SessionBreaks
  BY <1>8 DEF Session, Dial, DialFatal, SessionEnds, SessionBreaks
<1>9. CASE Server \/ ServerDies
  BY <1>9 DEF Server, Serve, ServeReturns, ServerExits, ServerDies
<1>10. CASE StageRuns
  BY <1>10 DEF StageRuns, Contract!BeginNext, Contract!Complete
<1>11. CASE UNCHANGED vars
  BY <1>11 DEF vars
<1> QED BY <1>1, <1>2, <1>3, <1>4, <1>5, <1>6, <1>7, <1>8, <1>9, <1>10, <1>11 DEF Next, Main

\* So somebody is always left (WaitInv): the select of Start has a client, a
\* session or a server to hear from, and the child of Ctrl-C its terminator.
THEOREM WaitInvHolds == Spec => []WaitInv
<1>1. Init => NotDialled /\ WaitInv
  BY DEF Init, NotDialled, WaitInv, SelectIsServed, ChildIsNotified, Contract!ContractInit
<1>2. RInv /\ NotDialled /\ [Next]_vars => NotDialled'
  BY StepPromised DEF RInv
<1> QED BY <1>1, <1>2, NextWaitInv, RInvHolds, PTL DEF Spec

\* No deadlock of a run (RunGoesOn): the client, the session, the main goroutine
\* in its select and the server are never all stuck, whatever has failed.
THEOREM RunGoesOnHolds == Spec => []RunGoesOn
<1>1. RInv /\ WaitInv => RunGoesOn
  BY DEF RInv, TypeOK, WaitInv, SelectIsServed, RunGoesOn, MainCan, ClientCan, SessionCan, ServerCan
<1> QED BY <1>1, RInvHolds, WaitInvHolds, PTL

\* Ctrl-C is held up nowhere else than between the two steps of AddChild
\* (InterruptGoesOn).
THEOREM InterruptGoesOnHolds == Spec => []InterruptGoesOn
<1>1. RInv /\ WaitInv => InterruptGoesOn
  BY DEF RInv, TypeOK, WaitInv, ChildIsNotified, InterruptGoesOn, TerminatorCan, ChildCan
<1> QED BY <1>1, RInvHolds, WaitInvHolds, PTL
=============================================================================
