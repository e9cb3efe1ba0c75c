----------------------------- MODULE StageSteps -----------------------------
(***************************************************************************)
(* What a definition.yml says, and what of it a template looks up.         *)
(*                                                                         *)
(*   server/definition/server.go    resolveSteps                           *)
(*   server/definition/step.go      Step, StepArgs, ResolveArgs            *)
(*   server/definition/template.go  the functions a template may call      *)
(*                                                                         *)
(* A name, an output key and the lookup of an output are sequences: their  *)
(* parts between the dots, <<"">> being the empty string.                  *)
(***************************************************************************)
EXTENDS Naturals, FiniteSets, SequencesExt

CONSTANTS
  StageName,  \* names of stages
  NoStage,    \* a stage argument left out
  ParamName,  \* names of parameters
  Name, Key,  \* names of steps, and of outputs they declare
  Lookup,     \* arguments of the template function output
  MaxDepth    \* maxDepth

ASSUME MaxDepthAssumption == MaxDepth \in Nat

ASSUME NoStageAssumption == NoStage \notin StageName

NoName == <<"">>

StepTypes == {"stage", "container", "command", "export"}

\* params and reads: what its templates look up whatever the parameters are.
\* guarded: <<p, q>> when a template looks up q only if p is not empty, as
\* {{ if param "p" }}{{ param "q" }}{{ end }} does. hidden: the outputs it looks
\* up behind a condition that is false while nothing has a value, as in
\* {{ if param "p" }}{{ output "a.b" }}{{ end }}. malformed: a template of the
\* step does not parse.
Step ==
  [type : StepTypes \cup {"other"}, name : Name, stage : StageName \cup {NoStage},
   outputs : SUBSET Key, params : SUBSET ParamName, reads : SUBSET Lookup,
   guarded : SUBSET (ParamName \X ParamName), hidden : SUBSET Lookup, malformed : BOOLEAN]

\* The steps of the body of a stage, where deeper[s] are those of stage s, one
\* call deeper: a step that calls a stage is replaced by the steps of that
\* stage. The empty set, when one of them is not to be had, is an error.
ResolveBody(body, deeper) ==
  LET parts == [i \in 1 .. Len(body) |->
                  IF body[i].type \notin StepTypes THEN {}
                  ELSE IF body[i].type = "stage" THEN deeper[body[i].stage]
                  ELSE {<<body[i]>>}]
  IN IF \E i \in DOMAIN parts : parts[i] = {} THEN {}
     ELSE {FlattenSeq([i \in DOMAIN parts |-> CHOOSE p \in parts[i] : TRUE])}

\* resolveSteps of each stage, at each depth.
ResolvedAt(stages) ==
  LET resolved[depth \in 0 .. MaxDepth + 1] ==
        [s \in StageName \cup {NoStage} |->
           IF depth > MaxDepth \/ s \notin DOMAIN stages THEN {}
           ELSE ResolveBody(stages[s], resolved[depth + 1])]
  IN resolved

\* Faulty variant of ResolveSteps: a stage that calls itself is cut short.
ResolveStepsCutShort(stages, stage) ==
  LET resolved[depth \in 0 .. MaxDepth + 1] ==
        [s \in StageName \cup {NoStage} |->
           IF depth > MaxDepth THEN {<<>>}
           ELSE IF s \notin DOMAIN stages THEN {}
           ELSE ResolveBody(stages[s], resolved[depth + 1])]
  IN resolved[0][stage]

\* ListSteps: the list of steps of a stage, or the empty set for an error.
ResolveSteps(stages, stage) == ResolvedAt(stages)[0][stage]

\* The parameters ResolveArgs looks up, when those in given are not empty.
LooksUp(step, given) ==
  step.params \cup {g[1] : g \in step.guarded}
    \cup {g[2] : g \in {h \in step.guarded : h[1] \in given}}

\* What the first n steps of a list look up while none has a value.
ParamsOf(list, n) == UNION {LooksUp(list[i], {}) : i \in 1 .. n}

\* The lookups its outputs answer while a definition is validated.
Declared(step) == {step.name \o key : key \in step.outputs}

\* Faulty variant of Finds: the output is looked up with its step.
FindsWhole(lookup) == <<SubSeq(lookup, 1, 1), lookup>>

\* outputsResolve: the step and the output that a lookup finds at run time.
Finds(lookup) == <<SubSeq(lookup, 1, 1), SubSeq(lookup, 2, 2)>>
=============================================================================
