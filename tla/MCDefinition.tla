---------------------------- MODULE MCDefinition ----------------------------
(***************************************************************************)
(* Definitions to load: every assignment of a few bodies to three stages,  *)
(* so that stages call each other in every way, in circles too.            *)
(***************************************************************************)
EXTENDS Definition
LOCAL INSTANCE Graphs

AStep(type, name, callee, outs, params, reads) ==
  [type |-> type, name |-> name, stage |-> callee, outputs |-> outs, params |-> params,
   reads |-> reads, guarded |-> {}, hidden |-> {}, malformed |-> FALSE]

Call(s)           == AStep("stage", NoName, s, {}, {}, {})
Make(name)        == AStep("command", name, NoStage, {<<"out">>}, {"p"}, {})
Use(name, lookup) == AStep("command", name, NoStage, {}, {}, {lookup})
Export(lookup)    == AStep("export", NoName, NoStage, {}, {"q"}, {lookup})

StageNames == {"default", "build", "test"}
Names      == {NoName, <<"a">>, <<"b">>, <<"a", "b">>}
Keys       == {<<"out">>}
Lookups    == {<<"a", "out">>, <<"b", "out">>, <<"a", "b", "out">>, <<"a">>}

Definition1(version, params, stages) ==
  [version |-> version, params |-> params, stages |-> stages]

\* Bodies that call, make, use and export.
Bodies ==
  { <<>>, << Call("build") >>, << Call("test"), Call("build") >>,
    << Make(<<"a">>) >>, << Call("test"), Use(<<"b">>, <<"a", "out">>) >>,
    << Make(<<"b">>), Call("build"), Export(<<"b", "out">>) >> }

Odd(body) == Definition1(1, {"p", "q"}, [s \in {"default"} |-> body])

\* One definition for every other way to be refused or accepted.
Oddities ==
  { Definition1(0, {}, <<>>), Definition1(2, {}, <<>>), Definition1(1, {}, <<>>),
    Definition1(1, {"p"}, [s \in {"build"} |-> <<Make(<<"a">>), Export(<<"a", "out">>)>>]),
    Odd(<< Call("unknown") >>), Odd(<< Call(NoStage) >>),
    Odd(<< AStep("other", <<"a">>, NoStage, {}, {}, {}) >>),
    Odd(<< [Make(<<"a">>) EXCEPT !.malformed = TRUE] >>),
    Odd(<< Use(<<"a">>, <<"a">>) >>),
    Odd(<< Make(<<"a", "b">>), Use(<<"b">>, <<"a", "b", "out">>) >>),
    Odd(<< [Make(<<"a">>) EXCEPT !.guarded = {<<"p", "q">>}] >>),
    Odd(<< [Make(<<"a">>) EXCEPT !.hidden = {<<"b", "out">>}], Make(<<"b">>) >>),
    Definition1(1, {"p"}, [s \in {"default", "build"} |->
      IF s = "build" THEN <<Make(<<"a">>)>> ELSE <<[Call("build") EXCEPT !.malformed = TRUE]>>]),
    Definition1(1, {"p"}, [s \in StageNames \cup {"unknown"} |->
      CASE s = "default" -> <<Call("build")>> [] s = "build" -> <<Call("test")>>
        [] s = "test" -> <<Call("unknown")>>  [] OTHER -> <<Make(<<"a">>)>>]) }

Defs == {Definition1(1, {"p", "q"}, stages) : stages \in [StageNames -> Bodies]} \cup Oddities

-----------------------------------------------------------------------------
(* The stages as a graph, without resolveSteps. *)

CallGraph(stages) ==
  [node |-> DOMAIN stages,
   edge |-> {e \in (DOMAIN stages) \X (DOMAIN stages) : e[2] \in Calls(stages, e[1])}]

\* Circular is what it is in the graph of the calls: a way from a stage back to
\* itself.
ASSUME CircularInTheGraph ==
  \A d \in Defs :
    LET calls == CallGraph(d.stages)
    IN Circular(d.stages) <=> \E e \in calls.edge : ConnectionsIn(calls)[e[2], e[1]]
=============================================================================
