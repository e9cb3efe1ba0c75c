------------------------- MODULE MCServerLifecycle -------------------------
(***************************************************************************)
(* Containers for ServerLifecycle: every state of the user's keys, every   *)
(* startup hook, and the ways the environment file goes missing.           *)
(***************************************************************************)
EXTENDS ServerLifecycle

Executable == [kind |-> "regular", owner |-> Root, group |-> Root, exec |-> {"user"}]

Plain ==
  [key |-> "open", pub |-> "whole", agent |-> FALSE, same |-> TRUE,
   env |-> [n \in Name |-> IF n = "CORK_PORT" THEN "11900" ELSE Empty], vars |-> Name,
   moved |-> FALSE, valid |-> TRUE, hook |-> Executable, succeeds |-> TRUE]

Keys ==
  {[Plain EXCEPT !.key = k, !.pub = f, !.agent = a] :
     k \in {"absent", "locked", "open"}, f \in PubFile, a \in BOOLEAN}

Boxes ==
  Keys
  \cup {[Plain EXCEPT !.hook = f, !.succeeds = ok] : f \in File, ok \in BOOLEAN}
  \cup { [Plain EXCEPT !.vars = {NoOne}], [Plain EXCEPT !.vars = {"CORK_PORT"}],
         [Plain EXCEPT !.moved = TRUE], [Plain EXCEPT !.valid = FALSE],
         [Plain EXCEPT !.same = FALSE] }
=============================================================================
