\* Two files, patched by calls that are not asserted.
SPECIFICATION Spec
CONSTANTS
  Items <- MCItems
  Locations <- MCLocations
  Partitions <- MCPartitions
  Src <- MCSrc
  Tgt <- MCTgt
  Script <- TwoFiles
  Checks = {}
  Asserted = {}
INVARIANT Recoverable
