-------------------------- MODULE MCStageExecution --------------------------
(***************************************************************************)
(* The stages the runs of StageExecution execute.                          *)
(***************************************************************************)
EXTENDS StageExecution, TLC

CONSTANTS v, w, empty   \* values: of a file, the same escaped, and the empty string

CommandStep(name, outs, script) ==
  [type |-> "command", name |-> name, outputs |-> outs, runnable |-> TRUE,
   script |-> script, variable |-> "V", ref |-> <<"a", "out">>]

ExportStep(variable, name) ==
  [type |-> "export", name |-> "x", outputs |-> {}, runnable |-> TRUE,
   script |-> <<>>, variable |-> variable, ref |-> <<name, "out">>]

\* A command that prints and asks, and one that comes after it.
Dialogue ==
  [dialogue |-> << CommandStep("a", {"out"}, <<"print", "ask">>),
                   CommandStep("b", {}, <<"ask">>) >>]

\* The shapes a stage may fail in: steps without a runner, an export, none.
Refusals ==
  [container |-> << CommandStep("a", {"out"}, <<"print">>),
                    [CommandStep("b", {}, <<>>) EXCEPT !.type = "container"] >>,
   missing   |-> << [CommandStep("a", {}, <<>>) EXCEPT !.runnable = FALSE] >>,
   exported  |-> << CommandStep("a", {"out"}, <<"print">>), ExportStep("V", "a") >>,
   nothing   |-> << >>]

\* Two commands with an output of the same name, exported twice; two commands
\* without a name, here "x", of which the last one's output is exported; and an
\* export before the step that declares its output.
Exports ==
  [once  |-> << CommandStep("a", {"out"}, <<>>), CommandStep("b", {"out"}, <<>>),
                ExportStep("V", "a"), ExportStep("W", "b") >>,
   twice |-> << CommandStep("a", {"out"}, <<"print">>), CommandStep("b", {"out"}, <<>>),
                ExportStep("V", "b"), ExportStep("V", "a") >>,
   unnamed |-> << CommandStep("x", {"out"}, <<>>), CommandStep("x", {"out"}, <<>>),
                  ExportStep("V", "x") >>,
   hidden  |-> << ExportStep("V", "a"), CommandStep("a", {"out"}, <<>>) >>]

AllStages == Dialogue @@ Refusals @@ Exports

\* w is what the template engine makes of v.
EscapeFn == [x \in {v, w, empty} |-> IF x = v THEN w ELSE x]

EscapeOne == [x \in {empty} |-> x]
=============================================================================
