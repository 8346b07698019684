\* A script with no partition in place, in which every call that uses the copy
\* is asserted but the last; the updater that runs it; the patch formats.
SPECIFICATION ToolsSpec
CONSTANTS
  Items <- MCItems
  Locations <- MCLocations
  Partitions <- MCPartitions
  Src <- MCSrc
  Tgt <- MCTgt
  Script <- NoFota
  Checks = {"boot"}
  Asserted = {"app", "lib", "boot"}
  ByteRange = 2
  MaxOld = 4
  MaxNew = 5
  Slack = 1
  ImgPairs <- MCImgPairs
  Bonuses <- MCBonuses
  RawMax = 1
  Stmts <- MCStmts
  MaxStmts = 3
  PipeMax = 1
  BarLen = 3
  ScriptFiles = {"f", "g"}
  Backed = {"g"}
  HashItems = {"a", "b", "c", "d", "e"}
  HashOf <- MCHashOf
  MaxTable = 8
  ZipEntries <- MCZipEntries
  ZipDirs <- MCZipDirs
  MaxEntries = 3
  MaxZipFaults = 1
INVARIANTS Recoverable IInv RunInv NothingAfterAbort CheckedIsPatchable TabInv ZipInv SuccessMeansPatched DiffInv ImgInv
PROPERTIES ScriptCompletes BarForward InstallEnds
CHECK_DEADLOCK FALSE
