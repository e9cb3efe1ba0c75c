-------------------------- MODULE ParametersProofs --------------------------
(***************************************************************************)
(* Theorems of Parameters for any number of parameters, options and steps. *)
(***************************************************************************)
EXTENDS Parameters, TLAPS

(* The inductive invariant. *)

\* The options for p among those applied.
AppliedFor(p) == {i \in 1 .. applied : options[i][1] = p}

\* What is provided for p: its last option applied, or else its value in
\* cork.yml.
Provided(p) ==
  IF AppliedFor(p) # {}
  THEN \E i \in AppliedFor(p) : /\ \A j \in AppliedFor(p) : j <= i
                                /\ provided[p] = options[i][2]
  ELSE provided[p] = file[p]

\* The options are applied before the request, and the request is for what the
\* steps look up without values.
RequestSent ==
  IF phase = "options" THEN request = <<>> /\ rendered = 0
  ELSE applied = Len(options) /\ request = Definitions(ParamsOf(list, Len(list)))

\* What a resolved parameter got.
Resolved(p) ==
  IF provided[p] # NoValue THEN resolved[p] = provided[p]
  ELSE IF params[p].default # NoValue THEN resolved[p] = params[p].default
  ELSE resolved[p] \in Typed

Loaded ==
  /\ \A p \in ParamName : resolved[p] # NoValue => phase # "options" /\ Resolved(p)
  /\ phase = "run" => \A p \in DOMAIN request : resolved[p] # NoValue

IInv == TypeOK /\ (\A p \in ParamName : Provided(p)) /\ RequestSent /\ Loaded

-----------------------------------------------------------------------------
(* Steps. *)

\* What a step looks up are parameters.
LEMMA LookupsAreParams ==
  ASSUME NEW l \in StepLists, NEW i \in 1 .. Len(l), NEW given
  PROVE  LooksUp(l[i], given) \subseteq ParamName
<1>1. l[i] \in Step
  BY SectionsAssumption
<1> QED BY <1>1 DEF LooksUp, Step

\* And so it is for all the steps of a list.
LEMMA ParamsOfSteps ==
  ASSUME NEW l \in StepLists
  PROVE  ParamsOf(l, Len(l)) \subseteq ParamName
BY LookupsAreParams DEF ParamsOf

\* The sections of a run, and the lengths of its lists.
LEMMA SectionTypes ==
  ASSUME TypeOK
  PROVE  /\ list \in Seq(Step) /\ Len(list) \in Nat
         /\ options \in Seq(ParamName \X Value) /\ Len(options) \in Nat
         /\ params \in [ParamName -> [default : Value \cup {NoValue}, sensitive : BOOLEAN]]
         /\ applied \in 0 .. Len(options) /\ rendered \in 0 .. Len(list)
<1>1. list \in Seq(Step)
  BY SectionsAssumption DEF TypeOK
<1>2. options \in Seq(ParamName \X Value)
  BY SectionsAssumption DEF TypeOK
<1>3. params \in [ParamName -> [default : Value \cup {NoValue}, sensitive : BOOLEAN]]
  BY SectionsAssumption DEF TypeOK
<1>4. Len(list) \in Nat
  BY <1>1
<1>5. Len(options) \in Nat
  BY <1>2
<1>6. applied \in 0 .. Len(options) /\ rendered \in 0 .. Len(list)
  BY DEF TypeOK
<1> QED BY <1>1, <1>2, <1>3, <1>4, <1>5, <1>6

\* The invariant holds before an option is applied.
LEMMA InitIInv == Init => IInv
<1> SUFFICES ASSUME Init PROVE IInv
  OBVIOUS
<1>1. file \in [ParamName -> Value \cup {NoValue}]
  BY SectionsAssumption DEF Init
<1>2. options \in Seq(ParamName \X Value) /\ list \in Seq(Step)
  BY SectionsAssumption DEF Init
<1>3. TypeOK
  BY <1>1, <1>2 DEF Init, TypeOK
<1>4. \A p \in ParamName : Provided(p)
  BY DEF Init, Provided, AppliedFor
<1>5. RequestSent /\ Loaded
  BY DEF Init, RequestSent, Loaded
<1> QED BY <1>3, <1>4, <1>5 DEF IInv

\* The next option takes the place of what was provided before it.
LEMMA ApplyOptionPreserves == IInv /\ ApplyOption => IInv'
<1> SUFFICES ASSUME IInv, ApplyOption PROVE IInv'
  OBVIOUS
<1> USE DEF runVars, loadVars, renderVars
<1>1. /\ options \in Seq(ParamName \X Value) /\ Len(options) \in Nat
      /\ applied \in Nat /\ applied < Len(options)
  BY SectionTypes DEF IInv, ApplyOption
<1>2. options[applied + 1] \in ParamName \X Value
  BY <1>1
<1>3. TypeOK'
  <2>1. provided' \in [ParamName -> Value \cup {NoValue}]
    BY <1>2 DEF IInv, TypeOK, ApplyOption
  <2>2. applied' \in 0 .. Len(options)
    BY <1>1 DEF ApplyOption
  <2> QED BY <2>1, <2>2 DEF IInv, TypeOK, ApplyOption
<1>4. ASSUME NEW p \in ParamName PROVE Provided(p)'
  <2> DEFINE option == options[applied + 1]
  <2>1. provided' = [provided EXCEPT ![option[1]] = option[2]]
    BY DEF ApplyOption
  <2>2. provided \in [ParamName -> Value \cup {NoValue}] /\ Provided(p)
    BY DEF IInv, TypeOK
  <2>3. AppliedFor(p)' = AppliedFor(p) \cup (IF option[1] = p THEN {applied + 1} ELSE {})
    BY <1>1 DEF ApplyOption, AppliedFor
  <2>4. CASE option[1] = p
    <3>1. provided'[p] = option[2]
      BY <2>1, <2>2, <2>4
    <3>2. \A j \in AppliedFor(p)' : j <= applied + 1
      BY <1>1, <2>3 DEF AppliedFor
    <3>3. applied + 1 \in AppliedFor(p)'
      BY <2>3, <2>4
    <3> QED BY <3>1, <3>2, <3>3 DEF Provided, ApplyOption
  <2>5. CASE option[1] # p
    <3>1. AppliedFor(p)' = AppliedFor(p) /\ provided'[p] = provided[p]
      BY <2>1, <2>2, <2>3, <2>5
    <3> QED BY <3>1, <2>2 DEF Provided, ApplyOption
  <2> QED BY <2>4, <2>5
<1>5. RequestSent' /\ Loaded'
  BY DEF IInv, RequestSent, Loaded, ApplyOption
<1> QED BY <1>3, <1>4, <1>5 DEF IInv

\* A step that leaves the options alone leaves what is provided alone.
LEMMA ProvidedFrame ==
  ASSUME UNCHANGED <<runVars, applied, provided>>, \A p \in ParamName : Provided(p)
  PROVE  \A p \in ParamName : Provided(p)'
BY DEF runVars, Provided, AppliedFor

\* The request asks for every parameter the steps look up without values.
LEMMA SendRequestPreserves == IInv /\ SendRequest => IInv'
<1> SUFFICES ASSUME IInv, SendRequest PROVE IInv'
  OBVIOUS
<1> USE DEF runVars, loadVars, renderVars
<1>0. Len(list) \in 0 .. Len(list)
  BY SectionTypes DEF IInv
<1>1. list \in StepLists /\ Len(list) \in 0 .. Len(list)
  BY <1>0 DEF IInv, TypeOK
<1>2. ParamsOf(list, Len(list)) \subseteq ParamName
  BY <1>1, ParamsOfSteps
<1>3. params \in [ParamName -> [default : Value \cup {NoValue}, sensitive : BOOLEAN]]
  BY SectionTypes DEF IInv
<1>4. \A p \in DOMAIN request' :
        request'[p] \in [default : Value \cup {""}, hasDefault : BOOLEAN, sensitive : BOOLEAN]
  BY <1>2, <1>3 DEF SendRequest, Definitions
<1>5. DOMAIN request' \subseteq ParamName
  BY <1>2 DEF SendRequest, Definitions
<1>6. TypeOK'
  BY <1>4, <1>5 DEF IInv, TypeOK, SendRequest
<1>7. RequestSent' /\ Loaded'
  BY DEF IInv, RequestSent, Loaded, Resolved, SendRequest, Definitions
<1>8. \A p \in ParamName : Provided(p)'
  BY ProvidedFrame DEF IInv, SendRequest
<1> QED BY <1>6, <1>7, <1>8 DEF IInv

\* One turn of LoadParams gives a parameter what it is to have.
LEMMA LoadParamPreserves ==
  ASSUME IInv, NEW q \in ParamName, LoadParam(q)
  PROVE  IInv'
<1> USE DEF runVars, loadVars, renderVars
<1>1. q \in DOMAIN request /\ q \in ParamName /\ resolved[q] = NoValue /\ phase = "load"
  BY DEF LoadParam, IInv, TypeOK
<1>2. /\ params \in [ParamName -> [default : Value \cup {NoValue}, sensitive : BOOLEAN]]
      /\ provided \in [ParamName -> Value \cup {NoValue}]
      /\ resolved \in [ParamName -> Value \cup Typed \cup {NoValue}]
  BY SectionsAssumption DEF IInv, TypeOK
<1>0. q \in ParamsOf(list, Len(list)) /\ request = Definitions(ParamsOf(list, Len(list)))
  BY <1>1 DEF IInv, RequestSent, Definitions
<1>3. /\ request[q].hasDefault <=> params[q].default # NoValue
      /\ request[q].hasDefault => request[q].default = params[q].default
  BY <1>0, Zenon DEF Definitions
<1>4. \E x \in Value \cup Typed :
         /\ resolved' = [resolved EXCEPT ![q] = x]
         /\ IF provided[q] # NoValue THEN x = provided[q]
            ELSE IF params[q].default # NoValue THEN x = params[q].default
            ELSE x \in Typed
  <2>1. CASE LoadGiven(q)
    <3>1. CASE provided[q] # NoValue
      BY <1>1, <1>2, <2>1, <3>1 DEF LoadGiven, Resolve
    <3>2. CASE provided[q] = NoValue
      BY <1>1, <1>2, <1>3, <2>1, <3>2 DEF LoadGiven, Resolve
    <3> QED BY <3>1, <3>2
  <2>2. CASE Prompt(q)
    BY <1>1, <1>2, <1>3, <2>2 DEF Prompt, Resolve
  <2> QED BY <2>1, <2>2 DEF LoadParam
<1>5. PICK x \in Value \cup Typed :
         /\ resolved' = [resolved EXCEPT ![q] = x]
         /\ IF provided[q] # NoValue THEN x = provided[q]
            ELSE IF params[q].default # NoValue THEN x = params[q].default
            ELSE x \in Typed
  BY <1>4
<1>6. shown' \subseteq ParamName
  BY DEF LoadParam, LoadGiven, Prompt, IInv, TypeOK
<1>7. resolved' \in [ParamName -> Value \cup Typed \cup {NoValue}]
  BY <1>2, <1>5
<1>8. TypeOK'
  BY <1>6, <1>7 DEF IInv, TypeOK, LoadParam
<1>9. RequestSent'
  BY DEF IInv, RequestSent, LoadParam, Definitions
<1>10. Loaded'
  <2>1. ASSUME NEW p \in ParamName, resolved'[p] # NoValue PROVE Resolved(p)'
    <3>1. CASE p = q
      BY <1>2, <1>5, <3>1 DEF Resolved, LoadParam
    <3>2. CASE p # q
      <4>1. resolved'[p] = resolved[p]
        BY <1>2, <1>5, <3>2
      <4> QED BY <2>1, <4>1 DEF IInv, Loaded, Resolved, LoadParam
    <3> QED BY <3>1, <3>2
  <2>2. phase' = "load"
    BY <1>1 DEF LoadParam
  <2> QED BY <2>1, <2>2 DEF Loaded
<1>11. \A p \in ParamName : Provided(p)'
  BY ProvidedFrame DEF IInv, LoadParam
<1> QED BY <1>8, <1>9, <1>10, <1>11 DEF IInv

\* The step to render is one of the list.
LEMMA RenderedNext == IInv /\ RenderStep => rendered + 1 \in 1 .. Len(list)
<1> SUFFICES ASSUME IInv, RenderStep PROVE rendered + 1 \in 1 .. Len(list)
  OBVIOUS
<1>1. rendered < Len(list)
  BY DEF RenderStep
<1>2. rendered \in 0 .. Len(list) /\ Len(list) \in Nat
  BY SectionTypes DEF IInv
<1> QED BY <1>1, <1>2

\* The answer is sent when all is resolved; the templates change nothing.
LEMMA RunPreserves == IInv /\ (SendResponse \/ RenderStep) => IInv'
<1> SUFFICES ASSUME IInv, SendResponse \/ RenderStep PROVE IInv'
  OBVIOUS
<1> USE DEF runVars, loadVars, renderVars
<1>1. missing' \subseteq ParamName
  <2>1. CASE RenderStep
    <3> DEFINE given == {p \in ParamName : resolved[p] \notin {NoValue, ""}}
    <3>1. rendered + 1 \in 1 .. Len(list)
      BY <2>1, RenderedNext
    <3>2. list \in StepLists /\ missing \subseteq ParamName
      BY DEF IInv, TypeOK
    <3>3. LooksUp(list[rendered + 1], given) \subseteq ParamName
      BY <3>1, <3>2, LookupsAreParams
    <3> QED BY <2>1, <3>2, <3>3 DEF RenderStep
  <2>2. CASE SendResponse
    BY <2>2 DEF IInv, TypeOK, SendResponse
  <2> QED BY <2>1, <2>2
<1>7. early' \subseteq Lookup
  <2>1. CASE RenderStep
    <3>1. rendered + 1 \in 1 .. Len(list)
      BY <2>1, RenderedNext
    <3>2. list \in StepLists /\ early \subseteq Lookup
      BY DEF IInv, TypeOK
    <3>3. list[rendered + 1].reads \subseteq Lookup /\ list[rendered + 1].hidden \subseteq Lookup
      <4>1. list \in Seq(Step)
        BY <3>2, SectionsAssumption
      <4>2. list[rendered + 1] \in Step
        BY <3>1, <4>1
      <4> QED BY <4>2 DEF Step
    <3>4. PICK behind \in SUBSET list[rendered + 1].hidden :
            early' = early \cup {lookup \in list[rendered + 1].reads \cup behind :
                       \A j \in 1 .. rendered : lookup \notin Declared(list[j])}
      BY <2>1 DEF RenderStep
    <3> QED BY <3>2, <3>3, <3>4
  <2>2. CASE SendResponse
    BY <2>2 DEF IInv, TypeOK, SendResponse
  <2> QED BY <2>1, <2>2
<1>6. rendered' \in 0 .. Len(list)
  <2>1. CASE RenderStep
    <3>1. rendered + 1 \in 1 .. Len(list) /\ rendered' = rendered + 1
      BY <2>1, RenderedNext DEF RenderStep
    <3>2. Len(list) \in Nat
      BY SectionTypes DEF IInv
    <3> QED BY <3>1, <3>2
  <2>2. CASE SendResponse
    BY <2>2, SectionTypes DEF IInv, SendResponse
  <2> QED BY <2>1, <2>2
<1>2. TypeOK'
  BY <1>1, <1>6, <1>7 DEF IInv, TypeOK, SendResponse, RenderStep
<1>3. RequestSent'
  BY DEF IInv, RequestSent, SendResponse, RenderStep, Definitions
<1>4. Loaded'
  BY DEF IInv, Loaded, Resolved, SendResponse, RenderStep
<1>5. \A p \in ParamName : Provided(p)'
  BY ProvidedFrame DEF IInv, SendResponse, RenderStep
<1> QED BY <1>2, <1>3, <1>4, <1>5 DEF IInv

\* Every step preserves the invariant.
LEMMA NextIInv == IInv /\ [Next]_vars => IInv'
<1> SUFFICES ASSUME IInv, [Next]_vars PROVE IInv'
  OBVIOUS
<1>1. CASE UNCHANGED vars
  <2>1. \A p \in ParamName : Provided(p)'
    BY <1>1, ProvidedFrame DEF vars, IInv
  <2> QED BY <1>1, <2>1 DEF vars, runVars, loadVars, renderVars, IInv, TypeOK, RequestSent, Loaded,
         Resolved, Definitions
<1>2. CASE Next
  BY <1>2, ApplyOptionPreserves, SendRequestPreserves, LoadParamPreserves, RunPreserves
  DEF Next
<1> QED BY <1>1, <1>2

\* The invariant holds of every run.
THEOREM ParametersIInv == Spec => []IInv
BY InitIInv, NextIInv, PTL DEF Spec

-----------------------------------------------------------------------------
(* The theorems. *)

\* The state of the parameters keeps its types (TypeOK).
THEOREM ParametersTypeCorrect == Spec => []TypeOK
<1>1. IInv => TypeOK
  BY DEF IInv
<1> QED BY <1>1, ParametersIInv, PTL

\* However many options there are, the last one for a parameter wins over
\* cork.yml, that over the default, and that over the user (GivenValuesWin).
THEOREM GivenValuesWinHolds == Spec => []GivenValuesWin
<1>1. IInv => GivenValuesWin
  <2> SUFFICES ASSUME IInv, phase = "run", NEW p \in DOMAIN request
               PROVE  IF OptionsFor(p) # {}
                      THEN \E i \in OptionsFor(p) : /\ \A j \in OptionsFor(p) : j <= i
                                                    /\ resolved[p] = options[i][2]
                      ELSE IF file[p] # NoValue THEN resolved[p] = file[p]
                      ELSE IF params[p].default # NoValue THEN resolved[p] = params[p].default
                      ELSE resolved[p] \in Typed
    BY DEF GivenValuesWin
  <2>1. p \in ParamName /\ options \in Seq(ParamName \X Value)
    BY SectionsAssumption DEF IInv, TypeOK
  <2>2. applied = Len(options) /\ Provided(p) /\ Resolved(p)
    BY <2>1 DEF IInv, RequestSent, Loaded
  <2>3. AppliedFor(p) = OptionsFor(p)
    BY <2>2 DEF AppliedFor, OptionsFor
  <2>4. \A i \in OptionsFor(p) : options[i][2] # NoValue
    <3>1. \A i \in 1 .. Len(options) : options[i] \in ParamName \X Value
      BY <2>1
    <3>2. \A i \in 1 .. Len(options) : options[i][2] \in Value
      BY <3>1
    <3> QED BY <3>2, ValueAssumption DEF OptionsFor
  <2> QED BY <2>2, <2>3, <2>4 DEF Provided, Resolved
<1> QED BY <1>1, ParametersIInv, PTL

\* What a template looks up behind a condition is found without it: a parameter is
\* looked up by some step whatever the values are, an output is declared by a step
\* before.
Foreseen ==
  \A l \in StepLists : \A i \in 1 .. Len(l) :
    /\ \A given \in SUBSET ParamName : LooksUp(l[i], given) \subseteq ParamsOf(l, Len(l))
    /\ \A lookup \in l[i].hidden : \E j \in 1 .. i - 1 : lookup \in Declared(l[j])

\* If no condition of a template hides more than that, every parameter looked up
\* while the stage runs has been asked for, and every output looked up was declared
\* by a step before (EveryLookupAnswered).
THEOREM EveryLookupAnsweredHolds == Foreseen => (Spec => []EveryLookupAnswered)
<1> SUFFICES ASSUME Foreseen PROVE Spec => []EveryLookupAnswered
  OBVIOUS
<1>1. Init => EveryLookupAnswered
  BY DEF Init, EveryLookupAnswered
<1>2. IInv /\ EveryLookupAnswered /\ [Next]_vars => EveryLookupAnswered'
  <2> SUFFICES ASSUME IInv, EveryLookupAnswered, [Next]_vars PROVE EveryLookupAnswered'
    OBVIOUS
  <2>1. CASE RenderStep
    <3> DEFINE given == {p \in ParamName : resolved[p] \notin {NoValue, ""}}
               step  == list[rendered + 1]
    <3>0. rendered + 1 \in 1 .. Len(list)
      BY <2>1, RenderedNext
    <3>1. list \in StepLists /\ rendered + 1 \in 1 .. Len(list) /\ rendered \in Nat
      <4>1. rendered \in 0 .. Len(list) /\ Len(list) \in Nat
        BY SectionTypes DEF IInv
      <4>2. list \in StepLists
        BY DEF IInv, TypeOK
      <4>3. rendered \in Nat
        BY <4>1
      <4> QED BY <3>0, <4>2, <4>3
    <3>2. LooksUp(step, given) \subseteq DOMAIN request
      BY <2>1, <3>1 DEF Foreseen, RenderStep, IInv, RequestSent, Definitions
    <3>3. \A p \in DOMAIN request : resolved[p] # NoValue
      BY <2>1 DEF RenderStep, IInv, Loaded
    <3>4. missing' = {}
      BY <2>1, <3>2, <3>3 DEF RenderStep, EveryLookupAnswered
    <3>5. \A lookup \in step.reads \cup step.hidden :
            \E j \in 1 .. rendered : lookup \in Declared(list[j])
      <4>1. (rendered + 1) - 1 = rendered
        BY <3>1
      <4> QED BY <3>1, <4>1, ListsAssumption DEF Foreseen
    <3>6. early' = {}
      <4>1. PICK behind \in SUBSET step.hidden :
              early' = early \cup {lookup \in step.reads \cup behind :
                         \A j \in 1 .. rendered : lookup \notin Declared(list[j])}
        BY <2>1 DEF RenderStep
      <4> QED BY <3>5, <4>1 DEF EveryLookupAnswered
    <3> QED BY <3>4, <3>6 DEF EveryLookupAnswered
  <2>2. CASE UNCHANGED <<missing, early>>
    BY <2>2 DEF EveryLookupAnswered
  <2> QED
    BY <2>1, <2>2 DEF Next, vars, renderVars, ApplyOption, SendRequest, LoadParam,
                      SendResponse
<1> QED BY <1>1, <1>2, ParametersIInv, PTL DEF Spec
=============================================================================
