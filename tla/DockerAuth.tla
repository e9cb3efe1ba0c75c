----------------------------- MODULE DockerAuth -----------------------------
(***************************************************************************)
(* The credentials a cork process tries for an image.                      *)
(*                                                                         *)
(*   utils/dockerutils/auth.go       the docker configuration              *)
(*   utils/dockerutils/commander.go  NarrowAuthSearch, TryImagePull        *)
(*                                                                         *)
(* A credential is named by the registry it is for.                        *)
(***************************************************************************)
EXTENDS Naturals, Sequences

CONSTANTS
  Registry,   \* the keys of a docker configuration
  Host,       \* what an image name has before its first slash
  Section,    \* keys of a configuration that are no registries, like "auths"
  Fuzzy       \* <<host, key>> when the characters of host occur in key, in order

Anonymous == "anonymous"

ASSUME AuthAssumption ==
  /\ Anonymous \notin Registry
  /\ Registry \cap Section = {}
  /\ Fuzzy \subseteq Host \X Registry

\* A configuration file: whether it is JSON, the keys of its "auths" section,
\* its own keys, and the keys whose credential can be made out (it decodes, or
\* the credential helper has it).
ConfigFile ==
  [json : BOOLEAN, auths : SUBSET Registry, keys : SUBSET (Registry \cup Section),
   good : SUBSET Registry]

\* parseDockerConfig: a file without an entry under "auths" is taken for one in
\* the old format, whose entries are its own keys.
Entries(file) == IF file.auths # {} THEN file.auths ELSE file.keys

\* NewAuthConfigurations: a single bad entry loses the file.
Loads(file) == file.json /\ Entries(file) \subseteq file.good

\* Faulty variant of Loaded: the last file that loads is taken.
LoadedLast(files) ==
  {Entries(files[i]) : i \in {k \in DOMAIN files :
     Loads(files[k]) /\ \A j \in DOMAIN files : Loads(files[j]) => j <= k}}

\* NewAuthConfigurationsFromDockerCfg: the entries of the first of the files
\* that loads; no element when none does.
Loaded(files) ==
  {Entries(files[i]) : i \in {k \in DOMAIN files :
     Loads(files[k]) /\ \A j \in DOMAIN files : Loads(files[j]) => k <= j}}

\* NarrowAuthSearch. A key that has "http://host" in it has host in it: the
\* second search finds what the first one found.
Narrow(host, keys) == {key \in keys : <<host, key>> \in Fuzzy}

\* What TryImagePull tries, in the order of a Go map.
Candidates(host, files) ==
  IF Loaded(files) = {} THEN {Anonymous}
  ELSE LET keys == CHOOSE k \in Loaded(files) : TRUE IN
         IF Narrow(host, keys) # {} THEN Narrow(host, keys) ELSE keys
=============================================================================
