SPECIFICATION Spec
CONSTANTS
  p1 = p1  p2 = p2
  Cork = {p1, p2}
  Port = {1, 2, 3}
  Registry <- Registries
  Host = {"host"}
  Section = {"auths"}
  Fuzzy <- Matches
  Hosts <- Machines
  Faults = {"disk", "docker", "death", "ssh"}
INVARIANTS TypeOK CacheIsShared ReachesItsOwnContainer 
PROPERTIES MetadataIsStable PullGivesUpForCause
CHECK_DEADLOCK FALSE
