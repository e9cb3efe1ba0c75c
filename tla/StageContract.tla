---------------------------- MODULE StageContract ----------------------------
(***************************************************************************)
(* What a StageExecute call promises to the cork client, whatever happens  *)
(* to goroutines, commands and the connection: the steps of the stage run  *)
(* one at a time, in the order of the definition, each one begun only when *)
(* the one before it is complete; the call reports success only when all   *)
(* of them are; and it reports once.                                       *)
(***************************************************************************)
EXTENDS Naturals

CONSTANTS StageName,   \* the stages a user may ask for
          StepCount    \* how many steps a stage the server knows has

VARIABLES stage,       \* the stage asked for
          begun,       \* steps begun
          completed,   \* steps that ran to their end
          report       \* what the call returned: "none" yet, "ok" or "error"

contractVars == <<stage, begun, completed, report>>

ContractInit ==
  /\ stage \in StageName
  /\ begun = 0 /\ completed = 0 /\ report = "none"

BeginNext ==
  /\ stage \in DOMAIN StepCount
  /\ begun = completed /\ begun < StepCount[stage]
  /\ begun' = begun + 1
  /\ UNCHANGED <<stage, completed, report>>

Complete ==
  /\ completed < begun
  /\ completed' = begun
  /\ UNCHANGED <<stage, begun, report>>

ReportSuccess ==
  /\ report = "none"
  /\ stage \in DOMAIN StepCount /\ completed = StepCount[stage]
  /\ report' = "ok"
  /\ UNCHANGED <<stage, begun, completed>>

\* The stage stops where it is, as far as the client is concerned: the server
\* may not have noticed yet.
ReportFailure ==
  /\ report = "none"
  /\ report' = "error"
  /\ UNCHANGED <<stage, begun, completed>>

ContractNext == BeginNext \/ Complete \/ ReportSuccess \/ ReportFailure

ContractSpec == ContractInit /\ [][ContractNext]_contractVars
=============================================================================
