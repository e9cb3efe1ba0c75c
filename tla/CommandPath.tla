---------------------------- MODULE CommandPath ----------------------------
(***************************************************************************)
(* Which commands, and which startup hook, the server accepts.             *)
(*                                                                         *)
(*   server/executor/command.go   CheckCommandPath, LoadCommand            *)
(*                                                                         *)
(* os.Stat follows symbolic links, so the mode never has ModeSymlink and   *)
(* CheckCommandPath never calls itself: a file is what a link leads to.    *)
(***************************************************************************)

CONSTANT User   \* owners and groups of files

Root == "root"

\* A permission bit is one of who may execute the file.
File == [kind : {"absent", "loop", "dir", "regular"}, owner : User, group : User,
         exec : SUBSET {"user", "group", "other"}]

\* Faulty variant of CheckCommandPath: the owner's word is enough.
CheckOwnerOnly(f) ==
  /\ f.kind = "regular"
  /\ "other" \in f.exec \/ f.owner = Root \/ f.group = Root

\* The server runs as root, in the ssh session of root.
CheckCommandPath(f) ==
  /\ f.kind = "regular"
  /\ \/ "other" \in f.exec
     \/ /\ f.owner = Root \/ f.group = Root
        /\ f.exec \cap {"user", "group"} # {}

\* What the kernel lets root execute.
RootCanExec(f) == f.kind = "regular" /\ f.exec # {}
=============================================================================
