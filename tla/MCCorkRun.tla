----------------------------- MODULE MCCorkRun -----------------------------
(***************************************************************************)
(* The stages the runs of CorkRun ask for: two steps, none, and one the    *)
(* server does not know.                                                   *)
(***************************************************************************)
EXTENDS CorkRun, TLC

CONSTANTS build, nothing, unknown

Stages == {build, nothing, unknown}

Counts == build :> 2 @@ nothing :> 0
=============================================================================
