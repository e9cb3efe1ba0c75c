----------------------------- MODULE Parameters -----------------------------
(***************************************************************************)
(* The parameters of one run, from cork.yml, the command line and the user *)
(* to the templates of the steps.                                          *)
(*                                                                         *)
(*   run.go                         the --param options                    *)
(*   server/main.go                 the paramsRequest                      *)
(*   utils/params/interactive.go    LoadParams                             *)
(*   server/definition/template.go  the lookups of the steps               *)
(***************************************************************************)
EXTENDS StageSteps

CONSTANTS
  Value,          \* values in cork.yml, on the command line and of defaults
  NoValue,        \* no value
  StepLists,      \* the steps of the stages that may be asked for
  ParamSets,      \* the params sections of definition.yml
  CorkFiles,      \* the params sections of cork.yml
  OptionLists     \* the --param options given: <<parameter, value>>

\* What a prompt returns: the word a user typed, or nothing.
Typed == {"word", ""}

ASSUME ValueAssumption == NoValue \notin Value \cup Typed /\ Value \cap Typed \subseteq {""}

ASSUME SectionsAssumption ==
  /\ \A l \in StepLists : l \in Seq(Step)
  /\ \A d \in ParamSets :
       d \in [ParamName -> [default : Value \cup {NoValue}, sensitive : BOOLEAN]]
  /\ CorkFiles \subseteq [ParamName -> Value \cup {NoValue}]
  /\ \A o \in OptionLists : o \in Seq(ParamName \X Value)

\* The steps are of a definition that Validate accepted (OutputsAvailable).
ASSUME ListsAssumption ==
  \A l \in StepLists : \A i \in 1 .. Len(l) : \A lookup \in l[i].reads :
    \E j \in 1 .. i - 1 : lookup \in Declared(l[j])

VARIABLES
  list,      \* the steps of the stage
  params,    \* ServerDefinition.Params: validation saw to it that all are there
  file,      \* the params of cork.yml
  options,   \* the options of the command line
  applied,   \* how many of them were applied
  provided,  \* corkDef.Params, then ProvidedParams
  request,   \* the paramDefinitions received
  resolved,  \* resolvedParams, then UserParams of the renderer
  shown,     \* parameters whose input was echoed as it was typed
  rendered,  \* how many steps were rendered
  missing,   \* parameters a template looked up and did not find
  early,     \* outputs a template looked up that no step before has declared
  phase

runVars == <<list, params, file, options>>
loadVars == <<resolved, shown>>
renderVars == <<rendered, missing, early>>
vars == <<runVars, applied, provided, request, loadVars, renderVars, phase>>

TypeOK ==
  /\ list \in StepLists /\ params \in ParamSets
  /\ file \in CorkFiles /\ options \in OptionLists
  /\ applied \in 0 .. Len(options)
  /\ provided \in [ParamName -> Value \cup {NoValue}]
  /\ DOMAIN request \subseteq ParamName
  /\ \A p \in DOMAIN request :
       request[p] \in [default : Value \cup {""}, hasDefault : BOOLEAN, sensitive : BOOLEAN]
  /\ resolved \in [ParamName -> Value \cup Typed \cup {NoValue}]
  /\ shown \subseteq ParamName
  /\ rendered \in 0 .. Len(list) /\ missing \subseteq ParamName /\ early \subseteq Lookup
  /\ phase \in {"options", "load", "run"}

Init ==
  /\ list \in StepLists /\ params \in ParamSets
  /\ file \in CorkFiles /\ options \in OptionLists
  /\ applied = 0 /\ provided = file
  /\ request = <<>>
  /\ resolved = [p \in ParamName |-> NoValue]
  /\ shown = {}
  /\ rendered = 0 /\ missing = {} /\ early = {}
  /\ phase = "options"

\* executeCorkRun: an option replaces what came before it.
ApplyOption ==
  /\ phase = "options" /\ applied < Len(options)
  /\ applied' = applied + 1
  /\ LET option == options[applied + 1] IN
       provided' = [provided EXCEPT ![option[1]] = option[2]]
  /\ UNCHANGED <<runVars, request, loadVars, renderVars, phase>>

\* Faulty variant of Definitions: the default is sent without looking at nil.
DefinitionsOfNil(needed) ==
  [p \in needed |-> [default |-> params[p].default,
                     hasDefault |-> params[p].default # NoValue, sensitive |-> FALSE]]

\* The paramDefinitions of the handshake, which leave IsSensitive out.
Definitions(needed) ==
  [p \in needed |->
     [default |-> IF params[p].default = NoValue THEN "" ELSE params[p].default,
      hasDefault |-> params[p].default # NoValue, sensitive |-> FALSE]]

\* Faulty variant of SendRequest: the last step of the stage is not walked.
SendShortRequest ==
  /\ phase = "options" /\ applied = Len(options)
  /\ request' = Definitions(ParamsOf(list, Len(list) - 1))
  /\ phase' = "load"
  /\ UNCHANGED <<runVars, applied, provided, loadVars, renderVars>>

SendRequest ==
  /\ phase = "options" /\ applied = Len(options)
  /\ request' = Definitions(ParamsOf(list, Len(list)))
  /\ phase' = "load"
  /\ UNCHANGED <<runVars, applied, provided, loadVars, renderVars>>

Resolve(p, value) == resolved' = [resolved EXCEPT ![p] = value]

\* Faulty variant of LoadGiven: a default goes before what is provided.
LoadDefaultFirst(p) ==
  /\ \/ request[p].hasDefault /\ Resolve(p, request[p].default)
     \/ ~request[p].hasDefault /\ provided[p] # NoValue /\ Resolve(p, provided[p])
  /\ UNCHANGED shown

LoadGiven(p) ==
  /\ \/ provided[p] # NoValue /\ Resolve(p, provided[p])
     \/ provided[p] = NoValue /\ request[p].hasDefault /\ Resolve(p, request[p].default)
  /\ UNCHANGED shown

\* prompt.PasswordMasked, and prompt.String, which echoes what it scans.
Prompt(p) ==
  /\ provided[p] = NoValue /\ ~request[p].hasDefault
  /\ \E input \in Typed : Resolve(p, input)
  /\ shown' = IF request[p].sensitive THEN shown ELSE shown \cup {p}

\* One turn of LoadParams, which ranges over a map.
LoadParam(p) ==
  /\ phase = "load" /\ p \in DOMAIN request /\ resolved[p] = NoValue
  /\ LoadGiven(p) \/ Prompt(p)
  /\ UNCHANGED <<runVars, applied, provided, request, renderVars, phase>>

SendResponse ==
  /\ phase = "load" /\ \A p \in DOMAIN request : resolved[p] # NoValue
  /\ phase' = "run"
  /\ UNCHANGED <<runVars, applied, provided, request, loadVars, renderVars>>

\* ResolveArgs of the next step: what is not found renders to nothing. An output
\* behind a condition may be looked up as soon as anything has a value.
RenderStep ==
  /\ phase = "run" /\ rendered < Len(list)
  /\ LET step  == list[rendered + 1]
         given == {p \in ParamName : resolved[p] \notin {NoValue, ""}} IN
       /\ missing' = missing \cup {p \in LooksUp(step, given) : resolved[p] = NoValue}
       /\ \E behind \in SUBSET step.hidden :
            /\ given = {} /\ rendered = 0 => behind = {}
            /\ early' = early \cup {lookup \in step.reads \cup behind :
                 \A j \in 1 .. rendered : lookup \notin Declared(list[j])}
  /\ rendered' = rendered + 1
  /\ UNCHANGED <<runVars, applied, provided, request, loadVars, phase>>

Next ==
  \/ ApplyOption \/ SendRequest
  \/ \E p \in ParamName : LoadParam(p)
  \/ SendResponse \/ RenderStep

Spec == Init /\ [][Next]_vars

-----------------------------------------------------------------------------
(* Properties. *)

OptionsFor(p) == {i \in 1 .. Len(options) : options[i][1] = p}

\* Every parameter a template looks up while the stage runs has been asked for, and
\* every output was declared by a step before, though validation, which learns what
\* to ask for and to check from a rendering without values (server.go:169-187), saw
\* none of the values.
EveryLookupAnswered == missing = {} /\ early = {}

\* The last option of the command line wins over cork.yml, that over the
\* default, and the user is asked for nothing else.
GivenValuesWin ==
  phase = "run" =>
    \A p \in DOMAIN request :
      IF OptionsFor(p) # {}
      THEN \E i \in OptionsFor(p) : /\ \A j \in OptionsFor(p) : j <= i
                                    /\ resolved[p] = options[i][2]
      ELSE IF file[p] # NoValue THEN resolved[p] = file[p]
      ELSE IF params[p].default # NoValue THEN resolved[p] = params[p].default
      ELSE resolved[p] \in Typed

\* The input of a parameter marked is_sensitive is not shown.
SensitiveInputHidden == \A p \in shown : ~params[p].sensitive
=============================================================================
