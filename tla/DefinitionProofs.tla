-------------------------- MODULE DefinitionProofs --------------------------
(***************************************************************************)
(* What Validate accepts and refuses, for every definition.                *)
(*                                                                         *)
(* What it accepts follows from the walk over whatever list ResolveSteps   *)
(* returns. What it refuses needs what resolveSteps computes, a recursion  *)
(* over the depth: what holds of every depth is proved by taking the first *)
(* depth it would fail at.                                                 *)
(***************************************************************************)
EXTENDS Definition, SequenceTheorems, FiniteSetTheorems, TLAPS

\* What walkSteps knows of the steps it walked.
Walk ==
  stage # NoStage =>
    /\ ResolveSteps(def.stages, stage) # {}
    /\ steps = ListSteps(stage)
    /\ ReadsAfterDeclared(steps, walked)
    /\ \A lookup \in availableOutputs : \E j \in 1 .. walked : lookup \in Declared(steps[j])
    /\ requiredUserParams = ParamsOf(steps, walked)

\* What is known of a stage that has been walked.
Accepted(s) ==
  /\ ResolveSteps(def.stages, s) # {}
  /\ ReadsAfterDeclared(ListSteps(s), Len(ListSteps(s)))
  /\ requiredUserParamsByStage[s] = ParamsOf(ListSteps(s), Len(ListSteps(s)))

Stages == \A s \in (DOMAIN def.stages) \ toWalk : Accepted(s)

IInv == TypeOK /\ Walk /\ Stages /\ (verdict = "valid" => toWalk = {})

\* The walk starts from nothing.
LEMMA InitIInv == Init => IInv
<1> SUFFICES ASSUME Init PROVE IInv
  OBVIOUS
<1>1. TypeOK
  BY DEF Init, TypeOK
<1>2. Walk /\ Stages /\ (verdict = "valid" => toWalk = {})
  BY DEF Init, Walk, Stages
<1> QED
  BY <1>1, <1>2 DEF IInv

\* Refusing a definition, or accepting it when no stage is left, keeps what is
\* known of its stages.
LEMMA RefusePreserves ==
  ASSUME IInv, NEW answer \in {"valid", "invalid", "panic"}, Refuse(answer),
         answer = "valid" => toWalk = {}
  PROVE  IInv'
<1>1. TypeOK'
  BY DEF IInv, TypeOK, Refuse, walkVars
<1>2. Walk' /\ Stages'
  BY DEF IInv, Walk, Stages, Accepted, ListSteps, Refuse, walkVars
<1> QED
  BY <1>1, <1>2 DEF IInv, Refuse

\* One more step walked: what it reads was declared by the steps before it.
LEMMA WalkStepPreserves ==
  ASSUME IInv, WalkStep
  PROVE  IInv'
<1> USE DEF IInv, WalkStep, Walking
<1> DEFINE step == steps[walked + 1]
<1>1. walked \in Nat /\ stage # NoStage /\ Walk
  BY DEF TypeOK
<1>2. TypeOK'
  BY DEF TypeOK
<1>3. Stages'
  BY DEF Stages, Accepted, ListSteps
<1>4. ReadsAfterDeclared(steps, walked + 1)
  <2> SUFFICES ASSUME NEW i \in 1 .. walked + 1, NEW lookup \in steps[i].reads
               PROVE  \E j \in 1 .. i - 1 : lookup \in Declared(steps[j])
    BY DEF ReadsAfterDeclared
  <2>1. CASE i \in 1 .. walked
    BY <1>1, <2>1 DEF Walk, ReadsAfterDeclared
  <2>2. CASE i = walked + 1
    <3>1. lookup \in availableOutputs
      BY <2>2
    <3>2. PICK j \in 1 .. walked : lookup \in Declared(steps[j])
      BY <1>1, <3>1 DEF Walk
    <3> QED
      BY <1>1, <2>2, <3>2
  <2> QED
    BY <1>1, <2>1, <2>2
<1>5. \A lookup \in availableOutputs' : \E j \in 1 .. walked + 1 : lookup \in Declared(steps[j])
  <2> SUFFICES ASSUME NEW lookup \in availableOutputs'
               PROVE  \E j \in 1 .. walked + 1 : lookup \in Declared(steps[j])
    OBVIOUS
  <2>1. CASE lookup \in availableOutputs
    <3>1. PICK j \in 1 .. walked : lookup \in Declared(steps[j])
      BY <1>1, <2>1 DEF Walk
    <3> QED
      BY <1>1, <3>1
  <2>2. CASE lookup \in Declared(step)
    BY <1>1, <2>2
  <2> QED
    BY <2>1, <2>2
<1>6. ParamsOf(steps, walked + 1) = requiredUserParams \cup LooksUp(step, {})
  <2>1. 1 .. walked + 1 = (1 .. walked) \cup {walked + 1}
    BY <1>1
  <2>2. requiredUserParams = UNION {LooksUp(steps[i], {}) : i \in 1 .. walked}
    BY <1>1 DEF Walk, ParamsOf
  <2> HIDE DEF IInv, WalkStep, Walking
  <2> QED
    BY <2>1, <2>2 DEF ParamsOf
<1>7. Walk'
  <2>1. /\ steps' = steps /\ stage' = stage /\ def' = def /\ walked' = walked + 1
        /\ requiredUserParams' = requiredUserParams \cup LooksUp(step, {})
    OBVIOUS
  <2>2. ResolveSteps(def.stages, stage)' = ResolveSteps(def.stages, stage)
    BY <2>1
  <2>3. ListSteps(stage)' = ListSteps(stage)
    BY <2>1 DEF ListSteps
  <2>4. ReadsAfterDeclared(steps, walked)'
    BY <1>4, <2>1
  <2> QED
    BY <1>1, <1>5, <1>6, <2>1, <2>2, <2>3, <2>4 DEF Walk
<1> QED
  BY <1>2, <1>3, <1>7

\* The end of a walk files what was learnt of the stage.
LEMMA EndWalkPreserves ==
  ASSUME IInv, EndWalk
  PROVE  IInv'
<1> USE DEF IInv, EndWalk, Walked
<1>1. /\ Walk /\ stage # NoStage /\ stage \in toWalk
      /\ stage \in DOMAIN def.stages
      /\ DOMAIN requiredUserParamsByStage = (DOMAIN def.stages) \ toWalk
  BY DEF TypeOK
<1>2. TypeOK'
  <2>1. (DOMAIN def.stages) \ toWalk' = ((DOMAIN def.stages) \ toWalk) \cup {stage}
    BY <1>1
  <2>2. requiredUserParamsByStage' \in [(DOMAIN def.stages) \ toWalk' -> SUBSET def.params]
    BY <1>1, <2>1 DEF TypeOK
  <2> QED
    BY <2>2 DEF TypeOK
<1>3. Walk'
  BY DEF Walk
<1>4. Stages'
  <2> SUFFICES ASSUME NEW s \in (DOMAIN def.stages) \ toWalk'
               PROVE  Accepted(s)'
    BY DEF Stages
  <2>1. /\ ListSteps(s)' = ListSteps(s)
        /\ ResolveSteps(def.stages, s)' = ResolveSteps(def.stages, s)
    BY DEF ListSteps
  <2>2. CASE s = stage
    BY <1>1, <2>1, <2>2 DEF Walk, Accepted
  <2>3. CASE s # stage
    <3>1. s \in (DOMAIN def.stages) \ toWalk /\ requiredUserParamsByStage'[s] = requiredUserParamsByStage[s]
      BY <1>1, <2>3
    <3>2. Accepted(s)
      BY <3>1 DEF Stages
    <3> QED
      BY <2>1, <3>1, <3>2 DEF Accepted
  <2> QED
    BY <2>2, <2>3
<1> QED
  BY <1>2, <1>3, <1>4

\* Every step of Validate preserves the invariant.
LEMMA NextIInv == IInv /\ [Next]_vars => IInv'
<1> SUFFICES ASSUME IInv, [Next]_vars PROVE IInv'
  OBVIOUS
<1>1. CASE RefuseVersion \/ (\E s \in StageName : RefuseStage(s)) \/ RefuseStep \/ RefuseParams
  BY <1>1, RefusePreserves DEF RefuseVersion, RefuseStage, RefuseStep, RefuseParams
<1>2. CASE PanicAtStep
  BY <1>2, RefusePreserves DEF PanicAtStep
<1>3. CASE Accept
  BY <1>3, RefusePreserves DEF Accept
<1>4. ASSUME NEW s \in StageName, BeginWalk(s) PROVE IInv'
  <2> USE <1>4 DEF IInv, BeginWalk
  <2>1. TypeOK'
    BY DEF TypeOK
  <2>2. Walk'
    <3>1. ListSteps(s)' = ListSteps(s) /\ ResolveSteps(def.stages, s)' = ResolveSteps(def.stages, s)
      BY DEF ListSteps
    <3>2. ReadsAfterDeclared(steps', 0) /\ ParamsOf(steps', 0) = {}
      BY DEF ReadsAfterDeclared, ParamsOf
    <3> QED
      BY <3>1, <3>2 DEF Walk
  <2>3. Stages'
    BY DEF Stages, Accepted, ListSteps
  <2> QED
    BY <2>1, <2>2, <2>3
<1>5. CASE WalkStep
  BY <1>5, WalkStepPreserves
<1>6. CASE EndWalk
  BY <1>6, EndWalkPreserves
<1>7. CASE UNCHANGED vars
  BY <1>7 DEF vars, walkVars, IInv, TypeOK, Walk, Stages, Accepted, ListSteps
<1> QED
  BY <1>1, <1>2, <1>3, <1>4, <1>5, <1>6, <1>7 DEF Next

\* The strengthened invariant holds of every load.
THEOREM DefinitionIInv == Spec => []IInv
<1> QED
  BY InitIInv, NextIInv, PTL DEF Spec

\* The walk keeps its types, whatever the definition (TypeOK).
THEOREM DefinitionTypeCorrect == Spec => []TypeOK
<1>1. IInv => TypeOK
  BY DEF IInv
<1> QED
  BY <1>1, DefinitionIInv, PTL

\* The outputs that the steps of an accepted definition look up whatever the
\* values are were each declared by a step before, in every list the steps are
\* part of (OutputsAvailable).
THEOREM OutputsAvailableHolds == Spec => []OutputsAvailable
<1>1. IInv => OutputsAvailable
  BY DEF IInv, Stages, Accepted, OutputsAvailable
<1> QED
  BY <1>1, DefinitionIInv, PTL

\* What RequiredUserParamsForStage answers is what the steps of the stage look
\* up, all of it defined (RequiredParamsCollected).
THEOREM RequiredParamsCollectedHolds == Spec => []RequiredParamsCollected
<1>1. IInv => RequiredParamsCollected
  BY DEF IInv, Stages, Accepted, RequiredParamsCollected, TypeOK
<1> QED
  BY <1>1, DefinitionIInv, PTL

\* What Finds makes of a name and an output of one part each.
LEMMA FindsUndotted ==
  ASSUME NEW n, NEW k
  PROVE  Finds(<<n>> \o <<k>>) = <<<<n>>, <<k>>>>
<1> DEFINE S == {n, k}
           c == <<n>> \o <<k>>
           p == <<n, k>>
<1>1. <<n>> \in Seq(S) /\ <<k>> \in Seq(S) /\ p \in Seq(S)
  OBVIOUS
<1>2. c = p
  <2>1. c \in Seq(S) /\ Len(c) = 2 /\ c[1] = n /\ c[2] = k
    BY <1>1, ConcatProperties
  <2>2. Len(p) = 2 /\ p[1] = n /\ p[2] = k
    OBVIOUS
  <2>3. \A i \in 1 .. Len(c) : c[i] = p[i]
    <3> HIDE DEF c, p
    <3> QED
      BY <2>1, <2>2
  <2>4. QED
    <3> HIDE DEF c, p, S
    <3> QED
      BY <1>1, <2>1, <2>2, <2>3, SeqEqual
<1>3. SubSeq(p, 1, 1) = <<n>> /\ SubSeq(p, 2, 2) = <<k>>
  <2>1. p[1] = n /\ p[2] = k
    OBVIOUS
  <2>2. \A i \in {1, 2} :
          LET q == SubSeq(p, i, i) IN q \in Seq(S) /\ Len(q) = 1 /\ q[1] = p[i]
    <3> HIDE DEF p, S
    <3>1. \A i \in {1, 2} : p[i] \in S
      BY <2>1 DEF S
    <3>2. QED
      BY <3>1, SubSeqProperties
  <2>3. \A q \in Seq(S), x \in S : Len(q) = 1 /\ q[1] = x => q = <<x>>
    <3> SUFFICES ASSUME NEW q \in Seq(S), NEW x \in S, Len(q) = 1, q[1] = x
                 PROVE  q = <<x>>
      OBVIOUS
    <3>1. <<x>> \in Seq(S) /\ Len(<<x>>) = 1 /\ <<x>>[1] = x
      OBVIOUS
    <3>2. \A i \in 1 .. Len(q) : q[i] = <<x>>[i]
      BY <3>1
    <3>3. QED
      BY <3>1, <3>2, SeqEqual
  <2>4. QED
    <3> HIDE DEF p
    <3>1. n \in S /\ k \in S
      OBVIOUS
    <3>2. QED
      BY <2>1, <2>2, <2>3, <3>1
<1>4. QED
  BY <1>2, <1>3 DEF Finds

\* Without dots, what validation found available is found when the stage runs
\* (LookupsFound).
THEOREM LookupsFoundHolds == Spec => []LookupsFound
<1>1. OutputsAvailable => LookupsFound
  <2>1. SUFFICES ASSUME OutputsAvailable, verdict = "valid",
                        NEW s \in DOMAIN def.stages,
                        NEW i \in 1 .. Len(ListSteps(s)),
                        NEW lookup \in ListSteps(s)[i].reads,
                        \A j \in 1 .. i - 1 : Undotted(ListSteps(s)[j])
                 PROVE  \E j \in 1 .. i - 1 : \E key \in ListSteps(s)[j].outputs :
                          Finds(lookup) = <<ListSteps(s)[j].name, key>>
    BY DEF LookupsFound
  <2>2. PICK j \in 1 .. i - 1 : lookup \in Declared(ListSteps(s)[j])
    BY <2>1 DEF OutputsAvailable, ReadsAfterDeclared
  <2>3. PICK key \in ListSteps(s)[j].outputs : lookup = ListSteps(s)[j].name \o key
    BY <2>2 DEF Declared
  <2>4. /\ ListSteps(s)[j].name = <<ListSteps(s)[j].name[1]>>
        /\ key = <<key[1]>>
    BY <2>1 DEF Undotted
  <2>5. Finds(lookup) = <<ListSteps(s)[j].name, key>>
    BY <2>3, <2>4, FindsUndotted
  <2>6. QED
    BY <2>5
<1>2. QED
  BY <1>1, OutputsAvailableHolds, PTL

-----------------------------------------------------------------------------
(* resolveSteps. Induction is over the calls left until it gives up: if a    *)
(* statement fails, it fails for a least number of them.                     *)

\* A set of numbers that is not empty has a least one.
LEMMA LeastNumber ==
  ASSUME NEW T, T \subseteq Nat, T # {}
  PROVE  \E n \in T : \A m \in T : n <= m
<1>1. PICK n \in T : \A m \in T : <<m, n>> \notin OpToRel(<, Nat)
  BY NatLessThanWellFounded, WFMin
<1>2. \A m \in T : ~(m < n)
  BY <1>1 DEF OpToRel
<1> QED BY <1>2

\* One depth of resolveSteps, given the next.
Layer(stages, resolved, depth) ==
  [s \in StageName \cup {NoStage} |->
     IF depth > MaxDepth \/ s \notin DOMAIN stages THEN {}
     ELSE ResolveBody(stages[s], resolved[depth + 1])]

Unrolled(stages, n) ==
  \E f : f = [depth \in MaxDepth + 1 - n .. MaxDepth + 1 |-> Layer(stages, f, depth)]

\* resolveSteps ends at every depth.
LEMMA ResolveUnrolled == ASSUME NEW stages PROVE Unrolled(stages, MaxDepth + 1)
<1> SUFFICES ASSUME ~Unrolled(stages, MaxDepth + 1) PROVE FALSE
  OBVIOUS
<1> DEFINE T == {n \in 0 .. MaxDepth + 1 : ~Unrolled(stages, n)}
<1>1. T \subseteq Nat /\ T # {}
  BY MaxDepthAssumption
<1>2. PICK n \in T : \A m \in T : n <= m
  <2> HIDE DEF T
  <2> QED BY <1>1, LeastNumber
<1>3. CASE n = 0
  <2> DEFINE f == [depth \in MaxDepth + 1 .. MaxDepth + 1 |->
                     [s \in StageName \cup {NoStage} |-> {}]]
  <2>1. \A depth \in MaxDepth + 1 .. MaxDepth + 1 :
          Layer(stages, f, depth) = [s \in StageName \cup {NoStage} |-> {}]
    BY MaxDepthAssumption DEF Layer
  <2>2. f = [depth \in MaxDepth + 1 - n .. MaxDepth + 1 |-> Layer(stages, f, depth)]
    BY <1>3, <2>1, MaxDepthAssumption
  <2> QED BY <2>2 DEF Unrolled
<1>4. CASE n # 0
  <2> DEFINE k == MaxDepth + 1 - n
  <2>1. n \in 1 .. MaxDepth + 1 /\ n - 1 \in 0 .. MaxDepth + 1 /\ n - 1 \notin T
    BY <1>2, <1>4, MaxDepthAssumption
  <2>2. PICK g : g = [depth \in k + 1 .. MaxDepth + 1 |-> Layer(stages, g, depth)]
    <3>1. MaxDepth + 1 - (n - 1) = k + 1
      BY <2>1, MaxDepthAssumption
    <3> QED BY <2>1, <3>1 DEF Unrolled
  <2> DEFINE f == [depth \in k .. MaxDepth + 1 |-> Layer(stages, g, depth)]
  <2>3. k \in 0 .. MaxDepth
    BY <2>1, MaxDepthAssumption
  <2>4. \A depth \in k + 1 .. MaxDepth + 1 : g[depth] = f[depth]
    <3> HIDE DEF k
    <3> QED BY <2>2, <2>3, MaxDepthAssumption
  <2>5. \A depth \in k .. MaxDepth + 1 : Layer(stages, g, depth) = Layer(stages, f, depth)
    <3> SUFFICES ASSUME NEW depth \in k .. MaxDepth + 1
                 PROVE  Layer(stages, g, depth) = Layer(stages, f, depth)
      OBVIOUS
    <3> HIDE DEF f, k
    <3>1. CASE depth > MaxDepth
      BY <3>1 DEF Layer
    <3>2. CASE depth + 1 \in k + 1 .. MaxDepth + 1
      BY <2>4, <3>2 DEF Layer
    <3> QED BY <2>3, <3>1, <3>2, MaxDepthAssumption
  <2>6. f = [depth \in k .. MaxDepth + 1 |-> Layer(stages, f, depth)]
    <3> HIDE DEF k
    <3> QED BY <2>5
  <2>7. Unrolled(stages, n)
    <3> HIDE DEF f
    <3> QED BY <2>6 DEF Unrolled
  <2> QED BY <1>2, <2>7
<1> QED BY <1>3, <1>4

\* So it is the function its definition says: every depth follows from the next.
LEMMA ResolvedAtDepth ==
  ASSUME NEW stages, NEW depth \in 0 .. MaxDepth + 1, NEW s \in StageName \cup {NoStage}
  PROVE  ResolvedAt(stages)[depth][s] =
           IF depth > MaxDepth \/ s \notin DOMAIN stages THEN {}
           ELSE ResolveBody(stages[s], ResolvedAt(stages)[depth + 1])
<1>1. \E f : f = [d \in 0 .. MaxDepth + 1 |-> Layer(stages, f, d)]
  <2>1. MaxDepth + 1 - (MaxDepth + 1) = 0
    BY MaxDepthAssumption
  <2> QED BY <2>1, ResolveUnrolled DEF Unrolled
<1>2. ResolvedAt(stages) = [d \in 0 .. MaxDepth + 1 |-> Layer(stages, ResolvedAt(stages), d)]
  BY <1>1 DEF ResolvedAt, Layer
<1>3. ResolvedAt(stages)[depth] = Layer(stages, ResolvedAt(stages), depth)
  BY <1>2
<1> QED BY <1>3 DEF Layer

\* A stage cannot be resolved because of one of its steps.
LEMMA ResolveBodyFails ==
  ASSUME NEW body, NEW deeper
  PROVE  ResolveBody(body, deeper) = {} <=>
           \E i \in 1 .. Len(body) :
             \/ body[i].type \notin StepTypes
             \/ body[i].type = "stage" /\ deeper[body[i].stage] = {}
BY DEF ResolveBody, StepTypes

\* What the proofs assume of the stages of a definition.
IsStages(stages) ==
  /\ DOMAIN stages \subseteq StageName /\ IsFiniteSet(DOMAIN stages)
  /\ \A s \in DOMAIN stages : stages[s] \in Seq(Step)

\* A stage called is one that a step calls.
LEMMA CallsFacts ==
  ASSUME NEW stages, IsStages(stages), NEW s \in DOMAIN stages, NEW t
  PROVE  t \in Calls(stages, s) <=>
           \E i \in 1 .. Len(stages[s]) : stages[s][i].type = "stage" /\ stages[s][i].stage = t
<1>1. stages[s] \in Seq(Step) /\ Range(stages[s]) = {stages[s][i] : i \in 1 .. Len(stages[s])}
  BY RangeEquality DEF IsStages
<1> QED BY <1>1 DEF Calls

\* Stages that call each other in a circle are resolved at no depth.
LEMMA CircleFails ==
  ASSUME NEW stages, IsStages(stages), NEW S \in SUBSET DOMAIN stages,
         \A s \in S : Calls(stages, s) \cap S # {},
         NEW depth \in 0 .. MaxDepth + 1, NEW s0 \in S
  PROVE  ResolvedAt(stages)[depth][s0] = {}
<1> DEFINE T == {n \in 0 .. MaxDepth + 1 :
                   \E s \in S : ResolvedAt(stages)[MaxDepth + 1 - n][s] # {}}
<1>1. SUFFICES T = {}
  <2> SUFFICES ASSUME ResolvedAt(stages)[depth][s0] # {} PROVE T # {}
    OBVIOUS
  <2>1. MaxDepth + 1 - depth \in 0 .. MaxDepth + 1 /\ MaxDepth + 1 - (MaxDepth + 1 - depth) = depth
    BY MaxDepthAssumption
  <2>2. MaxDepth + 1 - depth \in T
    BY <2>1
  <2> QED BY <2>2
<1>2. SUFFICES ASSUME T # {} PROVE FALSE
  OBVIOUS
<1>3. T \subseteq Nat
  OBVIOUS
<1>4. PICK n \in T : \A m \in T : n <= m
  <2> HIDE DEF T
  <2> QED BY <1>2, <1>3, LeastNumber
<1> DEFINE d == MaxDepth + 1 - n
<1>5. PICK s \in S : ResolvedAt(stages)[d][s] # {}
  BY <1>4
<1>6. d \in 0 .. MaxDepth + 1 /\ s \in DOMAIN stages /\ s \in StageName
  BY <1>4, MaxDepthAssumption DEF IsStages
<1>7. d <= MaxDepth /\ ResolvedAt(stages)[d][s] = ResolveBody(stages[s], ResolvedAt(stages)[d + 1])
  BY <1>5, <1>6, ResolvedAtDepth, MaxDepthAssumption
<1>8. PICK t \in S : t \in Calls(stages, s)
  OBVIOUS
<1>9. ResolvedAt(stages)[d + 1][t] = {}
  <2>1. n - 1 \in 0 .. MaxDepth + 1 /\ MaxDepth + 1 - (n - 1) = d + 1 /\ ~(n <= n - 1)
    BY <1>4, <1>6, <1>7, MaxDepthAssumption
  <2>2. n - 1 \notin T
    BY <1>4, <2>1
  <2> QED BY <2>1, <2>2
<1>10. PICK i \in 1 .. Len(stages[s]) : stages[s][i].type = "stage" /\ stages[s][i].stage = t
  <2> HIDE DEF T, d
  <2> QED BY <1>6, <1>8, CallsFacts
<1>11. ResolveBody(stages[s], ResolvedAt(stages)[d + 1]) = {}
  BY <1>9, <1>10, ResolveBodyFails
<1> QED BY <1>5, <1>7, <1>11

\* A step that is none, or one that calls a stage there is not, is an error at
\* once.
LEMMA FaultyFails ==
  ASSUME NEW stages, IsStages(stages), NEW s \in DOMAIN stages,
         NEW i \in 1 .. Len(stages[s]),
         \/ stages[s][i].type \notin StepTypes
         \/ stages[s][i].type = "stage" /\ stages[s][i].stage \notin DOMAIN stages
  PROVE  ResolveSteps(stages, s) = {}
<1>1. s \in StageName /\ 0 \in 0 .. MaxDepth + 1 /\ 1 \in 0 .. MaxDepth + 1
      /\ stages[s][i].stage \in StageName \cup {NoStage}
  <2>1. stages[s][i] \in Step
    BY DEF IsStages
  <2> QED BY <2>1, MaxDepthAssumption DEF IsStages, Step
<1>2. stages[s][i].stage \notin DOMAIN stages => ResolvedAt(stages)[1][stages[s][i].stage] = {}
  BY <1>1, ResolvedAtDepth
<1>3. ResolveBody(stages[s], ResolvedAt(stages)[1]) = {}
  BY <1>2, ResolveBodyFails
<1>4. ResolvedAt(stages)[0][s] = ResolveBody(stages[s], ResolvedAt(stages)[0 + 1])
  BY <1>1, ResolvedAtDepth, MaxDepthAssumption
<1> QED BY <1>3, <1>4 DEF ResolveSteps

\* Every step is one, and calls a stage there is if it calls one.
Callable(stages) ==
  \A s \in DOMAIN stages : \A i \in 1 .. Len(stages[s]) :
    /\ stages[s][i].type \in StepTypes
    /\ stages[s][i].type = "stage" => stages[s][i].stage \in DOMAIN stages

\* The stages resolveSteps gives up when it is called for them at a depth.
FailsAt(stages, depth) == {s \in DOMAIN stages : ResolvedAt(stages)[depth][s] = {}}

\* All of them at the last depth, and before it those that call one of those
\* of the next depth.
LEMMA FailsAtFacts ==
  ASSUME NEW stages, IsStages(stages), Callable(stages)
  PROVE  /\ FailsAt(stages, MaxDepth + 1) = DOMAIN stages
         /\ \A depth \in 0 .. MaxDepth, s \in DOMAIN stages :
              s \in FailsAt(stages, depth) <=>
                Calls(stages, s) \cap FailsAt(stages, depth + 1) # {}
<1>1. FailsAt(stages, MaxDepth + 1) = DOMAIN stages
  <2> SUFFICES ASSUME NEW s \in DOMAIN stages
               PROVE  ResolvedAt(stages)[MaxDepth + 1][s] = {}
    BY DEF FailsAt
  <2>1. MaxDepth + 1 \in 0 .. MaxDepth + 1 /\ MaxDepth + 1 > MaxDepth /\ s \in StageName
    BY MaxDepthAssumption DEF IsStages
  <2> QED BY <2>1, ResolvedAtDepth
<1>2. ASSUME NEW depth \in 0 .. MaxDepth, NEW s \in DOMAIN stages
      PROVE  s \in FailsAt(stages, depth) <=>
               Calls(stages, s) \cap FailsAt(stages, depth + 1) # {}
  <2>1. depth \in 0 .. MaxDepth + 1 /\ ~(depth > MaxDepth) /\ s \in StageName
    BY MaxDepthAssumption DEF IsStages
  <2>2. ResolvedAt(stages)[depth][s] = ResolveBody(stages[s], ResolvedAt(stages)[depth + 1])
    BY <2>1, ResolvedAtDepth
  <2>3. s \in FailsAt(stages, depth) <=>
          \E i \in 1 .. Len(stages[s]) :
            stages[s][i].type = "stage" /\ stages[s][i].stage \in FailsAt(stages, depth + 1)
    <3> DEFINE deeper == ResolvedAt(stages)[depth + 1]
    <3>1. s \in FailsAt(stages, depth) <=>
            \E i \in 1 .. Len(stages[s]) :
              \/ stages[s][i].type \notin StepTypes
              \/ stages[s][i].type = "stage" /\ deeper[stages[s][i].stage] = {}
      <4> HIDE DEF deeper
      <4>1. s \in FailsAt(stages, depth) <=> ResolveBody(stages[s], deeper) = {}
        BY <2>2 DEF FailsAt, deeper
      <4> QED BY <4>1, ResolveBodyFails
    <3>2. \A i \in 1 .. Len(stages[s]) : stages[s][i].type = "stage" =>
            (stages[s][i].stage \in FailsAt(stages, depth + 1) <=> deeper[stages[s][i].stage] = {})
      BY DEF FailsAt, Callable
    <3> HIDE DEF deeper
    <3> QED BY <3>1, <3>2 DEF Callable
  <2> QED BY <2>3, CallsFacts
<1> QED BY <1>1, <1>2

\* A stage that is given up at a depth is given up at the next.
LEMMA FailsDeeper ==
  ASSUME NEW stages, IsStages(stages), Callable(stages), NEW depth \in 0 .. MaxDepth
  PROVE  FailsAt(stages, depth) \subseteq FailsAt(stages, depth + 1)
<1> DEFINE T == {n \in 0 .. MaxDepth :
                   ~(FailsAt(stages, MaxDepth - n) \subseteq FailsAt(stages, MaxDepth - n + 1))}
<1>1. SUFFICES T = {}
  <2>1. MaxDepth - depth \in 0 .. MaxDepth /\ MaxDepth - (MaxDepth - depth) = depth
    BY MaxDepthAssumption
  <2>2. MaxDepth - depth \notin T
    OBVIOUS
  <2> QED BY <2>1, <2>2
<1>2. SUFFICES ASSUME T # {} PROVE FALSE
  OBVIOUS
<1>3. T \subseteq Nat
  OBVIOUS
<1>4. PICK n \in T : \A m \in T : n <= m
  <2> HIDE DEF T
  <2> QED BY <1>2, <1>3, LeastNumber
<1> DEFINE d == MaxDepth - n
<1>5. d \in 0 .. MaxDepth /\ n \in 0 .. MaxDepth
  BY <1>4, MaxDepthAssumption
<1>6. PICK s \in DOMAIN stages : s \in FailsAt(stages, d) /\ s \notin FailsAt(stages, d + 1)
  BY <1>4 DEF FailsAt
<1>7. d + 1 \in 0 .. MaxDepth /\ n - 1 \in 0 .. MaxDepth /\ MaxDepth - (n - 1) = d + 1
  <2>1. d # MaxDepth
    <3> HIDE DEF d, T
    <3> QED BY <1>6, FailsAtFacts
  <2> QED BY <1>5, <2>1, MaxDepthAssumption
<1>8. FailsAt(stages, d + 1) \subseteq FailsAt(stages, d + 1 + 1)
  <2>1. n - 1 \notin T
    BY <1>4, <1>5, <1>7
  <2> QED BY <1>7, <2>1
<1>9. /\ Calls(stages, s) \cap FailsAt(stages, d + 1) # {}
      /\ Calls(stages, s) \cap FailsAt(stages, d + 1 + 1) = {}
  <2> HIDE DEF d, T
  <2> QED BY <1>5, <1>6, <1>7, FailsAtFacts
<1> QED BY <1>8, <1>9

\* Without a circle fewer stages are given up at a depth than at the next, and
\* so none at the first if there are not more of them than depths.
LEMMA FewerFail ==
  ASSUME NEW stages, IsStages(stages), Callable(stages), ~Circular(stages),
         NEW depth \in 0 .. MaxDepth + 1, FailsAt(stages, depth) # {}
  PROVE  Cardinality(FailsAt(stages, depth)) + (MaxDepth + 1 - depth)
           <= Cardinality(DOMAIN stages)
<1> DEFINE Few(d) == FailsAt(stages, d) # {} =>
                       Cardinality(FailsAt(stages, d)) + (MaxDepth + 1 - d)
                         <= Cardinality(DOMAIN stages)
           T == {n \in 0 .. MaxDepth + 1 : ~Few(MaxDepth + 1 - n)}
<1>0. /\ Cardinality(DOMAIN stages) \in Nat
      /\ \A d : FailsAt(stages, d) \in SUBSET DOMAIN stages /\ IsFiniteSet(FailsAt(stages, d))
                /\ Cardinality(FailsAt(stages, d)) \in Nat
  <2>1. IsFiniteSet(DOMAIN stages) /\ \A d : FailsAt(stages, d) \in SUBSET DOMAIN stages
    BY DEF IsStages, FailsAt
  <2>2. \A d : IsFiniteSet(FailsAt(stages, d))
    BY <2>1, FS_Subset
  <2> QED BY <2>1, <2>2, FS_CardinalityType
<1>1. SUFFICES T = {}
  <2>1. MaxDepth + 1 - depth \in 0 .. MaxDepth + 1 /\ MaxDepth + 1 - (MaxDepth + 1 - depth) = depth
    BY MaxDepthAssumption
  <2>2. Few(depth)
    <3>1. MaxDepth + 1 - depth \notin T
      OBVIOUS
    <3> HIDE DEF Few
    <3> QED BY <2>1, <3>1
  <2> QED BY <2>2
<1>2. SUFFICES ASSUME T # {} PROVE FALSE
  OBVIOUS
<1>3. T \subseteq Nat
  OBVIOUS
<1>4. PICK n \in T : \A m \in T : n <= m
  <2> HIDE DEF T
  <2> QED BY <1>2, <1>3, LeastNumber
<1> DEFINE d == MaxDepth + 1 - n
<1>5. d \in 0 .. MaxDepth + 1 /\ n \in 0 .. MaxDepth + 1 /\ ~Few(d)
  BY <1>4, MaxDepthAssumption
<1>6. CASE d = MaxDepth + 1
  <2>1. FailsAt(stages, d) = DOMAIN stages
    BY <1>6, FailsAtFacts
  <2> QED BY <1>0, <1>5, <1>6, <2>1, MaxDepthAssumption
<1>7. CASE d \in 0 .. MaxDepth
  <2>1. n - 1 \in 0 .. MaxDepth + 1 /\ MaxDepth + 1 - (n - 1) = d + 1 /\ ~(n <= n - 1)
    BY <1>5, <1>7, MaxDepthAssumption
  <2>2. Few(d + 1)
    <3>1. n - 1 \notin T
      BY <1>4, <2>1
    <3> HIDE DEF Few, d
    <3> QED BY <2>1, <3>1
  <2>3. FailsAt(stages, d) \subseteq FailsAt(stages, d + 1)
    BY <1>7, FailsDeeper
  <2>4. FailsAt(stages, d) # FailsAt(stages, d + 1)
    <3> SUFFICES ASSUME FailsAt(stages, d) = FailsAt(stages, d + 1) PROVE FALSE
      OBVIOUS
    <3>1. \A s \in FailsAt(stages, d) : Calls(stages, s) \cap FailsAt(stages, d) # {}
      BY <1>0, <1>7, FailsAtFacts
    <3>2. FailsAt(stages, d) # {} /\ FailsAt(stages, d) \in SUBSET DOMAIN stages
      BY <1>0, <1>5
    <3> HIDE DEF d
    <3> QED BY <3>1, <3>2 DEF Circular
  <2>5. Cardinality(FailsAt(stages, d)) < Cardinality(FailsAt(stages, d + 1))
    <3> HIDE DEF d, T, Few
    <3>1. /\ Cardinality(FailsAt(stages, d)) <= Cardinality(FailsAt(stages, d + 1))
          /\ Cardinality(FailsAt(stages, d)) # Cardinality(FailsAt(stages, d + 1))
      BY <1>0, <2>3, <2>4, FS_Subset
    <3> QED BY <1>0, <3>1
  <2>6. FailsAt(stages, d) # {}
    BY <1>5
  <2> QED BY <1>0, <1>5, <1>7, <2>2, <2>3, <2>5, <2>6, MaxDepthAssumption
<1> QED BY <1>5, <1>6, <1>7, MaxDepthAssumption

-----------------------------------------------------------------------------
(* What the list of a stage holds. *)

\* The lists of a sequence joined one by one, up to the n-th.
Joined(lists, f, n) ==
  f = [i \in 1 .. n |-> IF i = 1 THEN lists[i] ELSE f[i - 1] \o lists[i]]

\* They can be joined up to any of them.
LEMMA JoinExists ==
  ASSUME NEW lists, NEW n \in Nat
  PROVE  \E f : Joined(lists, f, n)
<1> DEFINE T == {m \in Nat : ~\E f : Joined(lists, f, m)}
<1>1. SUFFICES ASSUME T # {} PROVE FALSE
  OBVIOUS
<1>2. T \subseteq Nat
  OBVIOUS
<1>3. PICK m \in T : \A k \in T : m <= k
  <2> HIDE DEF T
  <2> QED BY <1>1, <1>2, LeastNumber
<1>4. CASE m = 0
  <2> DEFINE f == [i \in 1 .. 0 |-> lists[i]]
  <2>1. Joined(lists, f, 0)
    BY DEF Joined
  <2> QED BY <1>3, <1>4, <2>1
<1>5. CASE m # 0
  <2>1. m \in Nat \ {0} /\ m - 1 \in Nat /\ m - 1 \notin T
    BY <1>3, <1>5
  <2>2. PICK g : Joined(lists, g, m - 1)
    BY <2>1
  <2> DEFINE f == [i \in 1 .. m |-> IF i = 1 THEN lists[i] ELSE g[i - 1] \o lists[i]]
  <2>3. \A i \in 1 .. m - 1 : g[i] = f[i]
    <3>1. \A i \in 1 .. m - 1 : g[i] = (IF i = 1 THEN lists[i] ELSE g[i - 1] \o lists[i])
      <4> HIDE DEF T
      <4> QED BY <2>2 DEF Joined
    <3>2. \A i \in 1 .. m - 1 : i \in 1 .. m
      BY <2>1
    <3> QED BY <3>1, <3>2
  <2>4. \A i \in 1 .. m : i # 1 => i - 1 \in 1 .. m - 1
    BY <2>1
  <2>5. f = [i \in 1 .. m |-> IF i = 1 THEN lists[i] ELSE f[i - 1] \o lists[i]]
    <3> DEFINE e(i) == IF i = 1 THEN lists[i] ELSE g[i - 1] \o lists[i]
               h(i) == IF i = 1 THEN lists[i] ELSE f[i - 1] \o lists[i]
    <3>1. \A i \in 1 .. m : e(i) = h(i)
      <4> SUFFICES ASSUME NEW i \in 1 .. m, i # 1 PROVE g[i - 1] = f[i - 1]
        OBVIOUS
      <4> HIDE DEF f
      <4> QED BY <2>3, <2>4
    <3>2. f = [i \in 1 .. m |-> e(i)]
      OBVIOUS
    <3> HIDE DEF e, h, f
    <3>3. f = [i \in 1 .. m |-> h(i)]
      BY <3>1, <3>2
    <3> QED BY <3>3 DEF h
  <2>6. Joined(lists, f, m)
    <3> HIDE DEF f
    <3> QED BY <2>5 DEF Joined
  <2> QED BY <1>3, <2>6
<1> QED BY <1>4, <1>5

\* Joined so, they hold what each of them holds.
LEMMA JoinedHolds ==
  ASSUME NEW S, NEW lists \in Seq(Seq(S)), NEW f, Joined(lists, f, Len(lists)),
         NEW i0 \in 1 .. Len(lists)
  PROVE  /\ f[i0] \in Seq(S)
         /\ \A x : x \in Range(f[i0]) <=> \E j \in 1 .. i0 : x \in Range(lists[j])
<1> DEFINE n == Len(lists)
           Good(i) == /\ f[i] \in Seq(S)
                      /\ \A x : x \in Range(f[i]) <=> \E j \in 1 .. i : x \in Range(lists[j])
           T == {i \in 1 .. n : ~Good(i)}
<1>1. SUFFICES ASSUME T # {} PROVE FALSE
  OBVIOUS
<1>2. T \subseteq Nat
  OBVIOUS
<1>3. PICK i \in T : \A k \in T : i <= k
  <2> HIDE DEF T
  <2> QED BY <1>1, <1>2, LeastNumber
<1>0. n \in Nat /\ \A j \in 1 .. n : lists[j] \in Seq(S)
  BY LenProperties, ElementOfSeq
<1>4. i \in 1 .. n /\ f[i] = (IF i = 1 THEN lists[i] ELSE f[i - 1] \o lists[i])
  BY <1>3 DEF Joined
<1>5. CASE i = 1
  <2>1. f[i] = lists[1] /\ lists[1] \in Seq(S) /\ 1 .. i = {1}
    BY <1>0, <1>4, <1>5
  <2>2. Good(i)
    <3> HIDE DEF T
    <3> QED BY <2>1
  <2> QED BY <1>3, <2>2
<1>6. CASE i # 1
  <2>1. i - 1 \in 1 .. n /\ i - 1 \notin T /\ 1 .. i = (1 .. i - 1) \cup {i} /\ i \in 1 .. n
    <3>1. i - 1 \in 1 .. n /\ ~(i <= i - 1) /\ 1 .. i = (1 .. i - 1) \cup {i} /\ i \in 1 .. n
      BY <1>4, <1>6
    <3> QED BY <1>3, <3>1
  <2>2. Good(i - 1)
    <3> HIDE DEF Good
    <3> QED BY <2>1
  <2>3. f[i] = f[i - 1] \o lists[i] /\ f[i - 1] \in Seq(S) /\ lists[i] \in Seq(S)
    BY <1>0, <1>4, <1>6, <2>2
  <2>4. f[i] \in Seq(S) /\ Range(f[i]) = Range(f[i - 1]) \cup Range(lists[i])
    BY <2>3, ConcatProperties, RangeConcatenation
  <2>5. Good(i)
    <3> HIDE DEF T
    <3> QED BY <2>1, <2>2, <2>4
  <2> QED BY <1>3, <2>5
<1> QED BY <1>5, <1>6

\* FlattenSeq loses nothing and adds nothing.
LEMMA FlattenHolds ==
  ASSUME NEW S, NEW lists \in Seq(Seq(S))
  PROVE  /\ FlattenSeq(lists) \in Seq(S)
         /\ \A x : x \in Range(FlattenSeq(lists)) <=>
                     \E j \in 1 .. Len(lists) : x \in Range(lists[j])
<1>1. CASE Len(lists) = 0
  <2>1. FlattenSeq(lists) = << >> /\ lists = << >>
    BY <1>1, EmptySeq DEF FlattenSeq
  <2>2. Range(<< >>) = {}
    BY DEF Range
  <2> QED BY <1>1, <2>1, <2>2, EmptySeq
<1>2. CASE Len(lists) # 0
  <2> DEFINE n == Len(lists)
  <2>1. n \in Nat \ {0} /\ n \in 1 .. n /\ \A i \in 1 .. n : lists[i] \in Seq(S)
    BY <1>2, LenProperties, ElementOfSeq
  <2> DEFINE f == CHOOSE flatten : Joined(lists, flatten, n)
  <2>2. Joined(lists, f, n)
    <3>1. \E g : Joined(lists, g, n)
      BY <2>1, JoinExists
    <3> QED BY <3>1
  <2>3. FlattenSeq(lists) = f[n]
    BY <1>2 DEF FlattenSeq, Joined
  <2>4. f[n] \in Seq(S) /\ \A x : x \in Range(f[n]) <=> \E j \in 1 .. n : x \in Range(lists[j])
    <3> HIDE DEF f
    <3> QED BY <2>1, <2>2, JoinedHolds
  <2> HIDE DEF f
  <2> QED BY <2>2, <2>3, <2>4
<1> QED BY <1>1, <1>2

\* The list made of a body: the steps of it that call no stage, and else only
\* steps of the stages called.
LEMMA ResolveBodyHolds ==
  ASSUME NEW S, NEW body \in Seq(Step), NEW deeper, NEW list \in ResolveBody(body, deeper),
         \A i \in 1 .. Len(body) :
           IF body[i].type = "stage" THEN deeper[body[i].stage] \subseteq Seq(S)
           ELSE body[i] \in S
  PROVE  /\ list \in Seq(S)
         /\ \A i \in 1 .. Len(body) : body[i].type # "stage" => body[i] \in Range(list)
<1> DEFINE part(i) == IF body[i].type \notin StepTypes THEN {}
                      ELSE IF body[i].type = "stage" THEN deeper[body[i].stage]
                      ELSE {<<body[i]>>}
           parts == [i \in 1 .. Len(body) |-> part(i)]
           lists == [i \in 1 .. Len(body) |-> CHOOSE p \in part(i) : TRUE]
<1>1. \A i \in 1 .. Len(body) : part(i) # {}
  BY ResolveBodyFails
<1>2. list = FlattenSeq(lists)
  <2>1. [i \in DOMAIN parts |-> CHOOSE p \in parts[i] : TRUE] = lists
    OBVIOUS
  <2>2. \A i \in DOMAIN parts : parts[i] # {}
    BY <1>1
  <2>3. ResolveBody(body, deeper) =
          {FlattenSeq([i \in DOMAIN parts |-> CHOOSE p \in parts[i] : TRUE])}
    BY <2>2 DEF ResolveBody
  <2> HIDE DEF lists, parts, part
  <2> QED BY <2>1, <2>3
<1>3. \A i \in 1 .. Len(body) :
        /\ lists[i] \in part(i) /\ lists[i] \in Seq(S)
        /\ body[i].type # "stage" => lists[i] = <<body[i]>>
  <2> SUFFICES ASSUME NEW i \in 1 .. Len(body)
               PROVE  /\ lists[i] \in part(i) /\ lists[i] \in Seq(S)
                      /\ body[i].type # "stage" => lists[i] = <<body[i]>>
    OBVIOUS
  <2>1. lists[i] \in part(i)
    <3> HIDE DEF part
    <3> QED BY <1>1
  <2>2. body[i].type \in StepTypes
    BY <1>1
  <2> HIDE DEF lists
  <2>3. CASE body[i].type = "stage"
    BY <2>1, <2>2, <2>3
  <2>4. CASE body[i].type # "stage"
    <3>1. lists[i] = <<body[i]>> /\ body[i] \in S
      BY <2>1, <2>2, <2>4
    <3> QED BY <2>1, <2>4, <3>1
  <2> QED BY <2>3, <2>4
<1>4. lists \in Seq(Seq(S)) /\ Len(lists) = Len(body)
  <2> HIDE DEF part
  <2>1. \A i \in 1 .. Len(body) : (CHOOSE p \in part(i) : TRUE) \in Seq(S)
    BY <1>3
  <2> QED BY <2>1
<1> HIDE DEF lists, part
<1>5. /\ list \in Seq(S)
      /\ \A x : x \in Range(list) <=> \E j \in 1 .. Len(lists) : x \in Range(lists[j])
  BY <1>2, <1>4, FlattenHolds
<1>6. ASSUME NEW i \in 1 .. Len(body), body[i].type # "stage"
      PROVE  body[i] \in Range(list)
  <2>1. body[i] \in Range(<<body[i]>>)
    BY DEF Range
  <2> QED BY <1>3, <1>4, <1>5, <1>6, <2>1
<1> QED BY <1>5, <1>6

\* The steps of the stages that call no stage.
Plain(stages) ==
  {step \in Step : step.type # "stage" /\ \E s \in DOMAIN stages : step \in Range(stages[s])}

\* What is resolved is made of them, at every depth.
LEMMA ResolvedIsPlain ==
  ASSUME NEW stages, IsStages(stages), NEW depth \in 0 .. MaxDepth + 1,
         NEW s0 \in StageName \cup {NoStage}
  PROVE  ResolvedAt(stages)[depth][s0] \subseteq Seq(Plain(stages))
<1> DEFINE Made(d) == \A s \in StageName \cup {NoStage} :
                        ResolvedAt(stages)[d][s] \subseteq Seq(Plain(stages))
           T == {n \in 0 .. MaxDepth + 1 : ~Made(MaxDepth + 1 - n)}
<1>1. SUFFICES T = {}
  <2>1. MaxDepth + 1 - depth \in 0 .. MaxDepth + 1 /\ MaxDepth + 1 - (MaxDepth + 1 - depth) = depth
    BY MaxDepthAssumption
  <2>2. Made(depth)
    <3>1. MaxDepth + 1 - depth \notin T
      OBVIOUS
    <3> HIDE DEF Made
    <3> QED BY <2>1, <3>1
  <2> QED BY <2>2
<1>2. SUFFICES ASSUME T # {} PROVE FALSE
  OBVIOUS
<1>3. T \subseteq Nat
  OBVIOUS
<1>4. PICK n \in T : \A m \in T : n <= m
  <2> HIDE DEF T
  <2> QED BY <1>2, <1>3, LeastNumber
<1> DEFINE d == MaxDepth + 1 - n
<1>5. d \in 0 .. MaxDepth + 1 /\ n \in 0 .. MaxDepth + 1 /\ ~Made(d)
  BY <1>4, MaxDepthAssumption
<1>6. PICK s \in StageName \cup {NoStage} : ~(ResolvedAt(stages)[d][s] \subseteq Seq(Plain(stages)))
  BY <1>5
<1>7. /\ s \in DOMAIN stages /\ d \in 0 .. MaxDepth
      /\ ResolvedAt(stages)[d][s] = ResolveBody(stages[s], ResolvedAt(stages)[d + 1])
  <2> HIDE DEF T, Made
  <2>1. ResolvedAt(stages)[d][s] = IF d > MaxDepth \/ s \notin DOMAIN stages THEN {}
                                   ELSE ResolveBody(stages[s], ResolvedAt(stages)[d + 1])
    <3> HIDE DEF d
    <3> QED BY <1>5, ResolvedAtDepth
  <2>2. ResolvedAt(stages)[d][s] # {}
    BY <1>6
  <2> QED BY <1>5, <2>1, <2>2, MaxDepthAssumption
<1>8. Made(d + 1)
  <2>1. n - 1 \in 0 .. MaxDepth + 1 /\ MaxDepth + 1 - (n - 1) = d + 1 /\ ~(n <= n - 1)
    BY <1>5, <1>7, MaxDepthAssumption
  <2>2. n - 1 \notin T
    BY <1>4, <2>1
  <2> HIDE DEF Made, d
  <2> QED BY <2>1, <2>2
<1>9. \A i \in 1 .. Len(stages[s]) :
        IF stages[s][i].type = "stage"
        THEN ResolvedAt(stages)[d + 1][stages[s][i].stage] \subseteq Seq(Plain(stages))
        ELSE stages[s][i] \in Plain(stages)
  <2> SUFFICES ASSUME NEW i \in 1 .. Len(stages[s])
               PROVE  IF stages[s][i].type = "stage"
                      THEN ResolvedAt(stages)[d + 1][stages[s][i].stage] \subseteq Seq(Plain(stages))
                      ELSE stages[s][i] \in Plain(stages)
    OBVIOUS
  <2>1. stages[s][i] \in Step /\ stages[s][i] \in Range(stages[s])
    BY <1>7, RangeEquality DEF IsStages
  <2>2. stages[s][i].stage \in StageName \cup {NoStage}
    BY <2>1 DEF Step
  <2> QED BY <1>7, <1>8, <2>1, <2>2 DEF Plain
<1>10. stages[s] \in Seq(Step)
  BY <1>7 DEF IsStages
<1>11. \A list \in ResolveBody(stages[s], ResolvedAt(stages)[d + 1]) : list \in Seq(Plain(stages))
  <2> HIDE DEF d, T, Made
  <2> QED BY <1>9, <1>10, ResolveBodyHolds
<1> QED BY <1>6, <1>7, <1>11

\* A list that ListSteps returns has only such steps, and those of its stage.
LEMMA ListHolds ==
  ASSUME NEW stages, IsStages(stages), NEW s \in DOMAIN stages,
         NEW list \in ResolveSteps(stages, s)
  PROVE  /\ list \in Seq(Plain(stages))
         /\ \A i \in 1 .. Len(stages[s]) : stages[s][i].type # "stage" => stages[s][i] \in Range(list)
<1>1. /\ 0 \in 0 .. MaxDepth + 1 /\ 1 \in 0 .. MaxDepth + 1 /\ s \in StageName \cup {NoStage}
      /\ stages[s] \in Seq(Step)
  BY MaxDepthAssumption DEF IsStages
<1>2. list \in Seq(Plain(stages))
  BY <1>1, ResolvedIsPlain DEF ResolveSteps
<1>3. list \in ResolveBody(stages[s], ResolvedAt(stages)[1])
  <2>1. ResolvedAt(stages)[0][s] = ResolveBody(stages[s], ResolvedAt(stages)[0 + 1])
    BY <1>1, ResolvedAtDepth, MaxDepthAssumption
  <2> QED BY <2>1 DEF ResolveSteps
<1>4. \A i \in 1 .. Len(stages[s]) :
        IF stages[s][i].type = "stage"
        THEN ResolvedAt(stages)[1][stages[s][i].stage] \subseteq Seq(Plain(stages))
        ELSE stages[s][i] \in Plain(stages)
  <2> SUFFICES ASSUME NEW i \in 1 .. Len(stages[s])
               PROVE  IF stages[s][i].type = "stage"
                      THEN ResolvedAt(stages)[1][stages[s][i].stage] \subseteq Seq(Plain(stages))
                      ELSE stages[s][i] \in Plain(stages)
    OBVIOUS
  <2>1. stages[s][i] \in Step /\ stages[s][i] \in Range(stages[s])
    BY <1>1, RangeEquality
  <2>2. stages[s][i].stage \in StageName \cup {NoStage}
    BY <2>1 DEF Step
  <2>3. ResolvedAt(stages)[1][stages[s][i].stage] \subseteq Seq(Plain(stages))
    BY <1>1, <2>2, ResolvedIsPlain
  <2> QED BY <2>1, <2>3 DEF Plain
<1> QED BY <1>1, <1>2, <1>3, <1>4, ResolveBodyHolds

-----------------------------------------------------------------------------
(* The verdict. *)

\* What walkSteps remembers is what the steps walked say, no less.
Seen ==
  stage # NoStage =>
    /\ def.version = 1
    /\ \A name \in usedStepNames : \E j \in 1 .. walked : steps[j].name = name
    /\ \A j \in 1 .. walked : /\ steps[j].name \in usedStepNames
                              /\ Declared(steps[j]) \subseteq availableOutputs
                              /\ ~steps[j].malformed
    /\ \A i, j \in 1 .. walked : i # j /\ steps[i].name = steps[j].name => steps[i].name = NoName

NamesTwice(list) ==
  \E i, j \in 1 .. Len(list) : i # j /\ list[i].name = list[j].name /\ list[i].name # NoName

\* What else is known of a stage that has been walked.
Passed(s) ==
  /\ ~NamesTwice(ListSteps(s))
  /\ \A i \in 1 .. Len(ListSteps(s)) : ~ListSteps(s)[i].malformed
  /\ ParamsOf(ListSteps(s), Len(ListSteps(s))) \subseteq def.params

\* Why a stage is refused.
Failing(s) ==
  \/ ResolveSteps(def.stages, s) = {}
  \/ /\ ResolveSteps(def.stages, s) # {}
     /\ \/ Confused(ListSteps(s))
        \/ \E i \in 1 .. Len(ListSteps(s)) : ListSteps(s)[i].malformed
        \/ ~(ParamsOf(ListSteps(s), Len(ListSteps(s))) \subseteq def.params)

Judged ==
  /\ verdict = "valid" => def.version = 1
  /\ verdict = "invalid" => def.version # 1 \/ \E s \in DOMAIN def.stages : Failing(s)

VInv == Seen /\ (\A s \in (DOMAIN def.stages) \ toWalk : Passed(s)) /\ Judged

\* The stages of a definition are stages, and what is walked is a list of steps.
LEMMA WalkFacts ==
  ASSUME IInv
  PROVE  /\ IsStages(def.stages)
         /\ stage # NoStage => /\ stage \in DOMAIN def.stages
                               /\ steps \in Seq(Step) /\ steps = ListSteps(stage)
                               /\ Len(steps) \in Nat
                               /\ ResolveSteps(def.stages, stage) # {}
         /\ walked \in Nat
<1>1. IsStages(def.stages)
  BY DefinitionsAssumption DEF IInv, TypeOK, IsStages
<1>2. walked \in Nat /\ (stage # NoStage => stage \in DOMAIN def.stages)
  BY DEF IInv, TypeOK
<1>3. ASSUME stage # NoStage
      PROVE  /\ steps \in Seq(Step) /\ steps = ListSteps(stage) /\ Len(steps) \in Nat
             /\ ResolveSteps(def.stages, stage) # {}
  <2>1. ResolveSteps(def.stages, stage) # {} /\ steps = ListSteps(stage)
    BY <1>3 DEF IInv, Walk
  <2>2. steps \in ResolveSteps(def.stages, stage)
    BY <2>1 DEF ListSteps
  <2>3. steps \in Seq(Plain(def.stages))
    BY <1>1, <1>2, <1>3, <2>2, ListHolds
  <2>4. Plain(def.stages) \subseteq Step
    BY DEF Plain
  <2>5. steps \in Seq(Step)
    BY <2>3, <2>4, SeqMonotonic
  <2> QED BY <2>1, <2>5, LenProperties
<1> QED BY <1>1, <1>2, <1>3

\* The walk remembers what it has seen.
LEMMA NextSeen == IInv /\ Seen /\ [Next]_vars => Seen'
<1> SUFFICES ASSUME IInv, Seen, [Next]_vars PROVE Seen'
  OBVIOUS
<1>1. ASSUME NEW answer \in {"valid", "invalid", "panic"}, Refuse(answer) PROVE Seen'
  BY <1>1 DEF Refuse, walkVars, Seen
<1>2. ASSUME NEW s \in StageName, BeginWalk(s) PROVE Seen'
  BY <1>2 DEF BeginWalk, Seen
<1>3. CASE WalkStep
  <2>1. /\ stage # NoStage /\ walked \in Nat /\ walked' = walked + 1 /\ steps' = steps
        /\ def' = def /\ stage' = stage
    BY <1>3, WalkFacts DEF WalkStep, Walking
  <2> DEFINE step == steps[walked + 1]
  <2>2. /\ step.name = NoName \/ step.name \notin usedStepNames
        /\ ~step.malformed
        /\ usedStepNames' = usedStepNames \cup {step.name}
        /\ availableOutputs' = availableOutputs \cup Declared(step)
    BY <1>3 DEF WalkStep, NameTaken
  <2>3. \A j \in 1 .. walked + 1 : j \in 1 .. walked \/ j = walked + 1
    BY <2>1
  <2>4. \A j \in 1 .. walked : j \in 1 .. walked + 1 /\ walked + 1 \in 1 .. walked + 1
    BY <2>1
  <2>5. walked + 1 \in 1 .. walked + 1
    BY <2>1
  <2>6. \A name \in usedStepNames' : \E j \in 1 .. walked + 1 : steps[j].name = name
    BY <2>1, <2>2, <2>4, <2>5 DEF Seen
  <2>7. \A j \in 1 .. walked + 1 : /\ steps[j].name \in usedStepNames'
                                   /\ Declared(steps[j]) \subseteq availableOutputs'
                                   /\ ~steps[j].malformed
    BY <2>1, <2>2, <2>3 DEF Seen
  <2>8. ASSUME NEW i \in 1 .. walked + 1, NEW j \in 1 .. walked + 1, i # j,
               steps[i].name = steps[j].name
        PROVE  steps[i].name = NoName
    BY <2>1, <2>2, <2>3, <2>8 DEF Seen
  <2> QED BY <2>1, <2>6, <2>7, <2>8 DEF Seen
<1>4. CASE EndWalk
  BY <1>4 DEF EndWalk, Seen
<1>5. CASE UNCHANGED vars
  BY <1>5 DEF vars, walkVars, Seen
<1>6. CASE RefuseVersion \/ (\E s \in StageName : RefuseStage(s)) \/ RefuseStep \/ PanicAtStep
           \/ RefuseParams \/ Accept
  BY <1>1, <1>6 DEF RefuseVersion, RefuseStage, RefuseStep, PanicAtStep, RefuseParams, Accept
<1> QED BY <1>2, <1>3, <1>4, <1>5, <1>6 DEF Next

\* A refusal has its reason in the stage at hand.
LEMMA RefusedStageFails ==
  ASSUME IInv, Seen, NEW s \in StageName, RefuseStage(s) \/ RefuseStep \/ RefuseParams
  PROVE  \E x \in DOMAIN def.stages : Failing(x)
<1>1. CASE RefuseStage(s)
  BY <1>1 DEF RefuseStage, Failing, IInv, TypeOK
<1>2. CASE RefuseStep
  <2>1. /\ stage # NoStage /\ walked < Len(steps)
        /\ LET step == steps[walked + 1] IN
             \/ step.name # NoName /\ step.name \in usedStepNames
             \/ step.malformed
             \/ ~(step.reads \subseteq availableOutputs)
    BY <1>2 DEF RefuseStep, Walking, NameTaken
  <2>2. /\ stage \in DOMAIN def.stages /\ walked \in Nat /\ Len(steps) \in Nat
        /\ steps = ListSteps(stage) /\ ResolveSteps(def.stages, stage) # {}
    BY <2>1, WalkFacts
  <2>3. /\ walked + 1 \in 1 .. Len(steps)
        /\ \A j \in 1 .. walked : j \in 1 .. Len(steps) /\ j # walked + 1
    BY <2>1, <2>2
  <2>4. CASE steps[walked + 1].name # NoName /\ steps[walked + 1].name \in usedStepNames
    <3>1. PICK j \in 1 .. walked : steps[j].name = steps[walked + 1].name
      BY <2>1, <2>4 DEF Seen
    <3>2. Confused(steps)
      BY <2>3, <2>4, <3>1 DEF Confused
    <3> QED BY <2>2, <3>2 DEF Failing
  <2>5. CASE steps[walked + 1].malformed
    BY <2>2, <2>3, <2>5 DEF Failing
  <2>6. CASE ~(steps[walked + 1].reads \subseteq availableOutputs)
    <3>1. PICK lookup \in steps[walked + 1].reads : lookup \notin availableOutputs
      BY <2>6
    <3>2. \A j \in 1 .. walked + 1 - 1 : lookup \notin Declared(steps[j])
      BY <2>1, <2>2, <3>1 DEF Seen
    <3>3. ~ReadsAfterDeclared(steps, Len(steps))
      <4>1. ~ \E j \in 1 .. (walked + 1) - 1 : lookup \in Declared(steps[j])
        BY <2>2, <3>2
      <4> QED BY <2>3, <3>1, <4>1 DEF ReadsAfterDeclared
    <3> QED BY <2>2, <3>3 DEF Failing, Confused
  <2> QED BY <2>1, <2>4, <2>5, <2>6
<1>3. CASE RefuseParams
  <2>1. stage # NoStage /\ walked = Len(steps) /\ ~(requiredUserParams \subseteq def.params)
    BY <1>3 DEF RefuseParams, Walked
  <2>2. /\ stage \in DOMAIN def.stages /\ ResolveSteps(def.stages, stage) # {}
        /\ requiredUserParams = ParamsOf(ListSteps(stage), Len(ListSteps(stage)))
    BY <2>1 DEF IInv, Walk, TypeOK
  <2> QED BY <2>1, <2>2 DEF Failing
<1> QED BY <1>1, <1>2, <1>3

\* Each step of Validate decides only what the definition says.
LEMMA NextVInv == IInv /\ VInv /\ [Next]_vars => VInv'
<1> SUFFICES ASSUME IInv, VInv, [Next]_vars PROVE VInv'
  OBVIOUS
<1>1. Seen'
  BY NextSeen DEF VInv
<1>2. ASSUME NEW answer, Refuse(answer),
             answer = "valid" => def.version = 1,
             answer = "invalid" => def.version # 1 \/ \E s \in DOMAIN def.stages : Failing(s)
      PROVE  VInv'
  BY <1>1, <1>2 DEF Refuse, walkVars, VInv, Passed, ListSteps, Judged, Failing
<1>3. CASE RefuseVersion
  BY <1>2, <1>3 DEF RefuseVersion
<1>4. ASSUME NEW s \in StageName, RefuseStage(s) PROVE VInv'
  <2>1. Seen /\ Refuse("invalid")
    BY <1>4 DEF VInv, RefuseStage
  <2> QED BY <1>2, <1>4, <2>1, RefusedStageFails
<1>5. CASE RefuseStep \/ RefuseParams
  <2>1. Seen /\ Refuse("invalid") /\ stage # NoStage
    BY <1>5 DEF VInv, RefuseStep, RefuseParams, Walking, Walked
  <2>2. stage \in StageName
    BY <2>1, WalkFacts DEF IsStages
  <2> QED BY <1>2, <1>5, <2>1, <2>2, RefusedStageFails
<1>6. CASE PanicAtStep
  BY <1>2, <1>6 DEF PanicAtStep
<1>7. CASE Accept
  BY <1>2, <1>7 DEF Accept
<1>8. CASE WalkStep \/ (\E s \in StageName : BeginWalk(s)) \/ UNCHANGED vars
  <2>1. def' = def /\ toWalk' = toWalk /\ verdict' = verdict
    BY <1>8 DEF WalkStep, BeginWalk, vars, walkVars
  <2> QED BY <1>1, <2>1 DEF VInv, Passed, ListSteps, Judged, Failing
<1>9. CASE EndWalk
  <2>1. /\ def' = def /\ toWalk' = toWalk \ {stage} /\ verdict' = verdict /\ stage # NoStage
        /\ walked = Len(steps) /\ requiredUserParams \subseteq def.params
    BY <1>9 DEF EndWalk, Walked
  <2>2. steps = ListSteps(stage) /\ requiredUserParams = ParamsOf(steps, walked)
    BY <2>1 DEF IInv, Walk
  <2>3. Passed(stage)
    BY <2>1, <2>2 DEF VInv, Seen, Passed, NamesTwice
  <2>4. \A s \in (DOMAIN def.stages) \ toWalk' : Passed(s)
    BY <2>1, <2>3 DEF VInv
  <2> QED BY <1>1, <2>1, <2>4 DEF VInv, Passed, ListSteps, Judged, Failing
<1> QED BY <1>3, <1>4, <1>5, <1>6, <1>7, <1>8, <1>9 DEF Next

\* What Validate decides is decided by the definition, whatever the order of
\* its stages: it accepts only what passes, and refuses only what fails.
THEOREM VerdictInvariant == Spec => []VInv
<1>1. Init => VInv
  <2> SUFFICES ASSUME Init PROVE VInv
    OBVIOUS
  <2>1. Seen /\ Judged /\ (DOMAIN def.stages) \ toWalk = {}
    BY DEF Init, Seen, Judged
  <2> QED BY <2>1 DEF VInv
<1> QED BY <1>1, NextVInv, DefinitionIInv, PTL DEF Spec

\* A definition is refused exactly for what is wrong with it (RefusedForCause),
\* for every definition and every MaxDepth.
THEOREM RefusedForCauseHolds == Spec => []RefusedForCause
<1>1. IInv /\ VInv => RefusedForCause
  <2> SUFFICES ASSUME IInv, VInv PROVE RefusedForCause
    OBVIOUS
  <2> DEFINE stages == def.stages
  <2>0. IsStages(stages)
    BY WalkFacts
  <2>1. ASSUME verdict = "valid" PROVE ~Wrong
    <3>1. \A s \in DOMAIN stages : ResolveSteps(stages, s) # {} /\ Passed(s)
                                   /\ ReadsAfterDeclared(ListSteps(s), Len(ListSteps(s)))
      BY <2>1 DEF IInv, VInv, Stages, Accepted
    <3>2. def.version = 1
      BY <2>1 DEF VInv, Judged
    <3>3. ~Circular(stages)
      <4> SUFFICES ASSUME NEW S \in SUBSET DOMAIN stages, S # {},
                          \A s \in S : Calls(stages, s) \cap S # {}
                   PROVE  FALSE
        BY DEF Circular
      <4>1. PICK s \in S : TRUE
        OBVIOUS
      <4>2. 0 \in 0 .. MaxDepth + 1
        BY MaxDepthAssumption
      <4>3. ResolveSteps(stages, s) = {}
        BY <2>0, <4>2, CircleFails DEF ResolveSteps
      <4> QED BY <3>1, <4>3
    <3>4. ASSUME NEW s \in DOMAIN stages, Faulty(stages, s) PROVE FALSE
      <4>1. stages[s] \in Seq(Step) /\ Range(stages[s]) = {stages[s][i] : i \in 1 .. Len(stages[s])}
        BY <2>0, RangeEquality DEF IsStages
      <4>2. PICK i \in 1 .. Len(stages[s]) :
              \/ stages[s][i].type \notin StepTypes
              \/ stages[s][i].type = "stage" /\ stages[s][i].stage \notin DOMAIN stages
              \/ stages[s][i].type # "stage" /\ stages[s][i].malformed
        BY <3>4, <4>1 DEF Faulty
      <4>3. stages[s][i].type # "stage" /\ stages[s][i].malformed
        BY <2>0, <3>1, <4>2, FaultyFails
      <4>4. ListSteps(s) \in ResolveSteps(stages, s)
        BY <3>1 DEF ListSteps
      <4>5. ListSteps(s) \in Seq(Plain(stages)) /\ stages[s][i] \in Range(ListSteps(s))
        BY <2>0, <4>3, <4>4, ListHolds
      <4>6. PICK j \in 1 .. Len(ListSteps(s)) : ListSteps(s)[j] = stages[s][i]
        BY <4>5, RangeEquality
      <4> QED BY <3>1, <4>3, <4>6 DEF Passed
    <3>5. \A s \in DOMAIN stages : ~Confused(ListSteps(s))
      BY <3>1 DEF Confused, Passed, NamesTwice
    <3> QED BY <3>1, <3>2, <3>3, <3>4, <3>5 DEF Wrong, Passed
  <2>2. ASSUME verdict = "invalid", ~Wrong PROVE Cardinality(DOMAIN stages) > MaxDepth + 1
    <3>1. PICK s \in DOMAIN stages : Failing(s)
      BY <2>2 DEF VInv, Judged, Wrong
    <3>2. \A x \in DOMAIN stages : ~Faulty(stages, x)
      BY <2>2 DEF Wrong
    <3>3. ResolveSteps(stages, s) = {}
      <4> SUFFICES ASSUME ResolveSteps(stages, s) # {} PROVE FALSE
        OBVIOUS
      <4>1. PICK i \in 1 .. Len(ListSteps(s)) : ListSteps(s)[i].malformed
        BY <2>2, <3>1 DEF Failing, Wrong
      <4>2. ListSteps(s) \in ResolveSteps(stages, s)
        BY DEF ListSteps
      <4>3. ListSteps(s) \in Seq(Plain(stages))
        BY <2>0, <4>2, ListHolds
      <4>4. ListSteps(s)[i] \in Plain(stages)
        BY <4>3, ElementOfSeq
      <4> QED BY <3>2, <4>1, <4>4 DEF Plain, Faulty
    <3>4. Callable(stages)
      <4> SUFFICES ASSUME NEW x \in DOMAIN stages, NEW i \in 1 .. Len(stages[x])
                   PROVE  /\ stages[x][i].type \in StepTypes
                          /\ stages[x][i].type = "stage" => stages[x][i].stage \in DOMAIN stages
        BY DEF Callable
      <4>1. stages[x] \in Seq(Step) /\ Range(stages[x]) = {stages[x][j] : j \in 1 .. Len(stages[x])}
        BY <2>0, RangeEquality DEF IsStages
      <4>2. stages[x][i] \in Range(stages[x])
        BY <4>1
      <4> QED BY <3>2, <4>2 DEF Faulty
    <3>5. ~Circular(stages)
      BY <2>2 DEF Wrong
    <3>6. s \in FailsAt(stages, 0) /\ 0 \in 0 .. MaxDepth + 1
      BY <3>3, MaxDepthAssumption DEF FailsAt, ResolveSteps
    <3>7. Cardinality(FailsAt(stages, 0)) + (MaxDepth + 1 - 0) <= Cardinality(DOMAIN stages)
      BY <2>0, <3>4, <3>5, <3>6, FewerFail
    <3>8. Cardinality(FailsAt(stages, 0)) \in Nat \ {0} /\ Cardinality(DOMAIN stages) \in Nat
      <4>1. IsFiniteSet(DOMAIN stages) /\ FailsAt(stages, 0) \in SUBSET DOMAIN stages
        BY <2>0 DEF IsStages, FailsAt
      <4>2. IsFiniteSet(FailsAt(stages, 0))
        BY <4>1, FS_Subset
      <4> QED BY <3>6, <4>1, <4>2, FS_CardinalityType, FS_EmptySet
    <3> QED BY <3>7, <3>8, MaxDepthAssumption
  <2> QED BY <2>1, <2>2 DEF RefusedForCause
<1> QED BY <1>1, DefinitionIInv, VerdictInvariant, PTL
=============================================================================
