\* A partition patched in place.
SPECIFICATION Spec
CONSTANTS
  Items <- MCItems
  Locations <- MCLocations
  Partitions <- MCPartitions
  Src <- MCSrc
  Tgt <- MCTgt
  Script <- WithFota
  Checks = {}
  Asserted <- MCItems
INVARIANT Recoverable
