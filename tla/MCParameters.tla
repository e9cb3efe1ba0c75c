---------------------------- MODULE MCParameters ----------------------------
(***************************************************************************)
(* Two parameters, given and defined in every way.                         *)
(***************************************************************************)
EXTENDS Parameters

CONSTANTS fileValue, optionValue, defaultValue

Names   == {<<"a">>, <<"b">>}
Keys    == {<<"out">>, <<"log">>}
Lookups == {<<"a", "out">>, <<"a", "log">>}

Command(looks, guards) ==
  [type |-> "command", name |-> <<"a">>, stage |-> NoStage, outputs |-> Keys,
   params |-> looks, reads |-> {}, guarded |-> guards, hidden |-> {}, malformed |-> FALSE]

Use == [Command({"q"}, {}) EXCEPT !.name = <<"b">>, !.outputs = {},
                                  !.reads = {<<"a", "out">>}, !.hidden = {<<"a", "log">>}]

\* Templates that look up q behind a test of p, and elsewhere too, and an output
\* behind a condition that is declared.
Lists == { << Command({"p"}, {}), Use >>,
           << Command({"q"}, {<<"p", "q">>}) >>, << >> }

\* A template that looks up q, and an output of a later step, behind a test of p,
\* and nowhere else.
GuardedLists ==
  { << [Command({}, {<<"p", "q">>}) EXCEPT !.name = <<"b">>, !.hidden = {<<"a", "out">>}],
       Command({}, {}) >> }

Values == {fileValue, optionValue, defaultValue, ""}

Sections == [ParamName -> [default : {defaultValue, NoValue}, sensitive : BOOLEAN]]

Files == [ParamName -> {fileValue, NoValue}]

Options == {<<>>} \cup {<<o>> : o \in ParamName \X {optionValue, ""}}
             \cup {<<<<"p", optionValue>>, <<"p", "">>>>}
=============================================================================
