\* The package alone: what mzExtractRecursive returns.
SPECIFICATION ZipSpec
CONSTANTS
  Stmts <- MCStmts
  MaxStmts = 3
  PipeMax = 1
  BarLen = 3
  ScriptFiles = {"f", "g"}
  Backed = {"g"}
  HashItems = {"a", "b", "c", "d", "e"}
  HashOf <- MCHashOf
  MaxTable = 8
  ZipEntries <- MCZipEntries
  ZipDirs <- MCZipDirs
  MaxEntries = 2
  MaxZipFaults = 1
INVARIANT ExtractTold
CHECK_DEADLOCK FALSE
