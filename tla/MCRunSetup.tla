----------------------------- MODULE MCRunSetup -----------------------------
(***************************************************************************)
(* Hosts for RunSetup: an image of the registry "own", with every sort of  *)
(* docker configuration. The name of "other" contains the characters of    *)
(* the host in order, that of "far" does not.                              *)
(***************************************************************************)
EXTENDS RunSetup, TLC

CONSTANTS p1, p2

Registries == {"own", "other", "far"}
Matches    == {<<"host", "own">>, <<"host", "other">>}

File(auths, good) == [json |-> TRUE, auths |-> auths, keys |-> {"auths"}, good |-> good]
OldFile(keys)     == [json |-> TRUE, auths |-> {}, keys |-> keys, good |-> keys]
EmptyObject       == OldFile({})
EmptyAuths        == File({}, {})
Garbage           == [json |-> FALSE, auths |-> {}, keys |-> {}, good |-> {}]

Machine(files, opens) ==
  [host |-> "host", present |-> FALSE, force |-> FALSE, files |-> files, opens |-> opens]

Public  == Registries \cup {Anonymous}
Private == {"own"}

Machines ==
  { \* the image is there, or is to be pulled anyway
    [Machine(<< >>, Public) EXCEPT !.present = TRUE],
    [Machine(<<File({"own"}, {"own"})>>, Private) EXCEPT !.present = TRUE, !.force = TRUE],
    \* no credential, for a public and for a private image
    Machine(<< >>, Public), Machine(<<Garbage, EmptyAuths>>, Private),
    \* a file without any entry: not even a public image
    Machine(<<EmptyObject>>, Public),
    \* several keys match, or none
    Machine(<<File(Registries, Registries)>>, Private),
    Machine(<<File({"other", "far"}, Registries)>>, {"far"}),
    Machine(<<File({"far"}, Registries)>>, {"far"}),
    \* one bad entry loses the file, and the next one is read
    Machine(<<File({"own", "far"}, {"own"}), OldFile({"own"})>>, Private),
    Machine(<<File({"own"}, {"own"}), OldFile({"far"})>>, Private),
    \* the key that opens the registry is in a file that is lost, or comes too late
    Machine(<<File({"own", "far"}, {"own"}), OldFile({"far"})>>, Private),
    Machine(<<OldFile({"far"}), File({"own"}, {"own"})>>, Private) }
=============================================================================
