----------------------------- MODULE Definition -----------------------------
(***************************************************************************)
(* The cork server loads definition.yml: Validate walks every stage, in    *)
(* the order of a Go map, and keeps the parameters each of them needs.     *)
(*                                                                         *)
(*   server/definition/server.go    Validate, walkSteps                    *)
(*   server/definition/template.go  the variables a template requires      *)
(***************************************************************************)
EXTENDS StageSteps

CONSTANT Definitions   \* the definitions a server may be started with

ASSUME DefinitionsAssumption ==
  \A d \in Definitions :
    /\ d.version \in Nat
    /\ d.params \subseteq ParamName
    /\ DOMAIN d.stages \subseteq StageName /\ IsFiniteSet(DOMAIN d.stages)
    /\ \A s \in DOMAIN d.stages : d.stages[s] \in Seq(Step)

VARIABLES
  def,        \* the definition
  toWalk,     \* stages Validate has still to range over
  stage,      \* the stage walkSteps is at, NoStage between two calls
  steps,      \* the steps of that stage
  walked,     \* how many of them are walked
  usedStepNames, availableOutputs, requiredUserParams,  \* of walkSteps
  requiredUserParamsByStage,
  verdict     \* "none" yet, "valid", "invalid", or "panic"

walkVars == <<stage, steps, walked, usedStepNames, availableOutputs, requiredUserParams>>
vars == <<def, toWalk, walkVars, requiredUserParamsByStage, verdict>>

TypeOK ==
  /\ def \in Definitions
  /\ toWalk \subseteq DOMAIN def.stages
  /\ stage \in toWalk \cup {NoStage}
  /\ walked \in Nat
  /\ requiredUserParamsByStage \in [DOMAIN def.stages \ toWalk -> SUBSET def.params]
  /\ verdict \in {"none", "valid", "invalid", "panic"}

Init ==
  /\ def \in Definitions
  /\ toWalk = DOMAIN def.stages
  /\ stage = NoStage /\ steps = <<>> /\ walked = 0
  /\ usedStepNames = {} /\ availableOutputs = {} /\ requiredUserParams = {}
  /\ requiredUserParamsByStage = <<>>
  /\ verdict = "none"

\* The steps of a stage, when resolveSteps returns no error.
ListSteps(s) == CHOOSE list \in ResolveSteps(def.stages, s) : TRUE

Refuse(answer) ==
  /\ verdict' = answer
  /\ UNCHANGED <<def, toWalk, walkVars, requiredUserParamsByStage>>

\* Validate looks at the version before it looks at any stage.
RefuseVersion ==
  /\ verdict = "none" /\ def.version # 1
  /\ Refuse("invalid")

\* Faulty variant of BeginWalk: outputs and parameters of the walk before stay.
BeginWalkOnTop(s) ==
  /\ verdict = "none" /\ def.version = 1 /\ stage = NoStage
  /\ s \in toWalk
  /\ ResolveSteps(def.stages, s) # {} /\ steps' = ListSteps(s)
  /\ stage' = s /\ walked' = 0 /\ usedStepNames' = {}
  /\ UNCHANGED <<def, toWalk, availableOutputs, requiredUserParams,
                 requiredUserParamsByStage, verdict>>

\* walkSteps of the next stage.
BeginWalk(s) ==
  /\ verdict = "none" /\ def.version = 1 /\ stage = NoStage
  /\ s \in toWalk
  /\ ResolveSteps(def.stages, s) # {} /\ steps' = ListSteps(s)
  /\ stage' = s /\ walked' = 0
  /\ usedStepNames' = {} /\ availableOutputs' = {} /\ requiredUserParams' = {}
  /\ UNCHANGED <<def, toWalk, requiredUserParamsByStage, verdict>>

RefuseStage(s) ==
  /\ verdict = "none" /\ def.version = 1 /\ stage = NoStage
  /\ s \in toWalk
  /\ ResolveSteps(def.stages, s) = {}
  /\ Refuse("invalid")

Walking == verdict = "none" /\ stage # NoStage /\ walked < Len(steps)

NameTaken(step) == step.name # NoName /\ step.name \in usedStepNames

\* The templates are rendered with nothing given: what is behind a condition that
\* only a value makes true is not looked up. A lookup without a dot makes
\* outputsResolve index out of range.
Panics(step) == \E lookup \in step.reads : Len(lookup) < 2

WalkStep ==
  /\ Walking
  /\ LET step == steps[walked + 1] IN
       /\ ~NameTaken(step) /\ ~step.malformed /\ ~Panics(step)
       /\ step.reads \subseteq availableOutputs
       /\ usedStepNames' = usedStepNames \cup {step.name}
       /\ availableOutputs' = availableOutputs \cup Declared(step)
       /\ requiredUserParams' = requiredUserParams \cup LooksUp(step, {})
  /\ walked' = walked + 1
  /\ UNCHANGED <<def, toWalk, stage, steps, requiredUserParamsByStage, verdict>>

RefuseStep ==
  /\ Walking
  /\ LET step == steps[walked + 1] IN
       \/ NameTaken(step)
       \/ step.malformed
       \/ ~Panics(step) /\ ~(step.reads \subseteq availableOutputs)
  /\ Refuse("invalid")

PanicAtStep ==
  /\ Walking
  /\ ~NameTaken(steps[walked + 1]) /\ Panics(steps[walked + 1])
  /\ Refuse("panic")

Walked == verdict = "none" /\ stage # NoStage /\ walked = Len(steps)

\* Faulty variant of EndWalk: undefined parameters are let through.
EndWalkUnchecked ==
  /\ Walked
  /\ requiredUserParamsByStage' =
       [s \in DOMAIN requiredUserParamsByStage \cup {stage} |->
          IF s = stage THEN requiredUserParams ELSE requiredUserParamsByStage[s]]
  /\ toWalk' = toWalk \ {stage} /\ stage' = NoStage
  /\ UNCHANGED <<def, steps, walked, usedStepNames, availableOutputs,
                 requiredUserParams, verdict>>

EndWalk ==
  /\ Walked /\ requiredUserParams \subseteq def.params
  /\ requiredUserParamsByStage' =
       [s \in DOMAIN requiredUserParamsByStage \cup {stage} |->
          IF s = stage THEN requiredUserParams ELSE requiredUserParamsByStage[s]]
  /\ toWalk' = toWalk \ {stage} /\ stage' = NoStage
  /\ UNCHANGED <<def, steps, walked, usedStepNames, availableOutputs,
                 requiredUserParams, verdict>>

RefuseParams ==
  /\ Walked /\ ~(requiredUserParams \subseteq def.params)
  /\ Refuse("invalid")

Accept ==
  /\ verdict = "none" /\ def.version = 1 /\ stage = NoStage /\ toWalk = {}
  /\ Refuse("valid")

Next ==
  \/ RefuseVersion
  \/ \E s \in StageName : BeginWalk(s) \/ RefuseStage(s)
  \/ WalkStep \/ RefuseStep \/ PanicAtStep
  \/ EndWalk \/ RefuseParams \/ Accept

Spec == Init /\ [][Next]_vars

-----------------------------------------------------------------------------
(* Properties. *)

\* In the first n steps of a list every output that is read whatever the values
\* are is declared before.
ReadsAfterDeclared(list, n) ==
  \A i \in 1 .. n : \A lookup \in list[i].reads :
    \E j \in 1 .. i - 1 : lookup \in Declared(list[j])

\* What Validate accepted can be listed, and the outputs its steps look up
\* whatever the values are were each declared by a step before, in the list of
\* every stage that calls them. Of a lookup behind a condition it says nothing.
OutputsAvailable ==
  verdict = "valid" =>
    \A s \in DOMAIN def.stages :
      /\ ResolveSteps(def.stages, s) # {}
      /\ ReadsAfterDeclared(ListSteps(s), Len(ListSteps(s)))

\* RequiredUserParamsForStage answers for every stage with the parameters of
\* all its steps, those of the stages it calls included, and each is defined:
\* nothing of one walk leaks into the next.
RequiredParamsCollected ==
  verdict = "valid" =>
    \A s \in DOMAIN def.stages :
      /\ requiredUserParamsByStage[s] = ParamsOf(ListSteps(s), Len(ListSteps(s)))
      /\ requiredUserParamsByStage[s] \subseteq def.params

\* No dot in the name or in an output of a step: each is one part.
Undotted(step) ==
  /\ step.name = <<step.name[1]>>
  /\ \A key \in step.outputs : key = <<key[1]>>

\* An output that validation found available (server.go:182), one looked up
\* whatever the values are, is found when the stage runs, although validation
\* compares whole lookups and outputsResolve splits them at the dots
\* (template.go:79), as long as no name has a dot.
LookupsFound ==
  verdict = "valid" =>
    \A s \in DOMAIN def.stages :
      LET list == ListSteps(s) IN
        \A i \in 1 .. Len(list) : \A lookup \in list[i].reads :
          (\A j \in 1 .. i - 1 : Undotted(list[j])) =>
            \E j \in 1 .. i - 1 : \E key \in list[j].outputs :
              Finds(lookup) = <<list[j].name, key>>

\* The stages a stage calls.
Calls(stages, s) == {step.stage : step \in {x \in Range(stages[s]) : x.type = "stage"}}

\* Some stages call each other in a circle: each of them calls one of them.
Circular(stages) ==
  \E S \in SUBSET DOMAIN stages : S # {} /\ \A s \in S : Calls(stages, s) \cap S # {}

\* A step that is wrong whatever the others are.
Faulty(stages, s) ==
  \E step \in Range(stages[s]) :
    \/ step.type \notin StepTypes
    \/ step.type = "stage" /\ step.stage \notin DOMAIN stages
    \/ step.type # "stage" /\ step.malformed

\* A name used twice, or an output that is read whatever the values are before it
\* is declared, in a list.
Confused(list) ==
  \/ \E i, j \in 1 .. Len(list) : i # j /\ list[i].name = list[j].name /\ list[i].name # NoName
  \/ ~ReadsAfterDeclared(list, Len(list))

\* What may be wrong with a definition.
Wrong ==
  \/ def.version # 1
  \/ Circular(def.stages)
  \/ \E s \in DOMAIN def.stages :
       \/ Faulty(def.stages, s)
       \/ /\ ResolveSteps(def.stages, s) # {}
          /\ \/ Confused(ListSteps(s))
             \/ ~(ParamsOf(ListSteps(s), Len(ListSteps(s))) \subseteq def.params)

\* A definition is refused exactly for what is wrong with it, whatever order
\* the stages are walked in. resolveSteps (server.go:105) does not look for
\* circles but counts its depth: it is right about them as long as there are
\* at most MaxDepth + 1 stages, and may refuse a definition of more without.
RefusedForCause ==
  /\ verdict = "valid" => ~Wrong
  /\ verdict = "invalid" => Wrong \/ Cardinality(DOMAIN def.stages) > MaxDepth + 1
=============================================================================
