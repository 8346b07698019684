\* Two files, checked before they are patched.
SPECIFICATION FairSpec
CONSTANTS
  Items <- MCItems
  Locations <- MCLocations
  Partitions <- MCPartitions
  Src <- MCSrc
  Tgt <- MCTgt
  Script <- TwoFiles
  Checks = {"app", "lib2"}
  Asserted <- MCItems
PROPERTY Completes
