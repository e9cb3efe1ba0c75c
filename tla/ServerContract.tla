--------------------------- MODULE ServerContract ---------------------------
(***************************************************************************)
(* What a cork-server promises the run that starts it over ssh: whether it *)
(* serves is settled once, and it exits with status 0 only when it was     *)
(* told to, or before it ever served. ServerLifecycle implements it, and   *)
(* CorkRun relies on it.                                                   *)
(***************************************************************************)

VARIABLE server

Begin  == server = "off" /\ server' = "starting"
Serve  == server = "starting" /\ server' \in {"serving", "hookFailed"}
GiveUp == server = "starting" /\ server' = "exitedOk"
Stop   == server \in {"serving", "hookFailed"} /\ server' = "stopping"
Exit   == server = "stopping" /\ server' = "exitedOk"
Die    == server \notin {"off", "exitedOk", "exitedFailed"} /\ server' = "exitedFailed"

ServerInit == server = "off"
ServerNext == Begin \/ Serve \/ GiveUp \/ Stop \/ Exit \/ Die

ServerSpec == ServerInit /\ [][ServerNext]_server
=============================================================================
