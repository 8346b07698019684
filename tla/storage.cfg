SPECIFICATION Spec
CONSTANTS
  BackupOrder <- MCBackupOrder
  RestoreOrder <- MCRestoreOrder
  Group <- MCGroup
  RawParts = {"boot"}
  Sought = {"data"}
  Swept = {"data"}
  Optional = {"secure"}
  Formats = {"tar", "dup"}
  MaxChunks = 1
  MaxChecked = 4
  MaxFaults = 1
  MaxRestores = 2
  Contents = {a, b}
  Backups = {b1, b2, b3}
  Newer = {b3}
  NBlocks = 5
  EraseSize = 2
  Lengths = {0, 1, 4, 5}
  Pieces = {1, 3, 4}
  MaxBad = 2
  MaxFails = 2
  Kind <- MCKind
  Holder <- MCHolder
  VoldManaged = {"ext"}
  DataLike = {"data"}
  ScanLines = 1
SYMMETRY Symmetry
INVARIANTS NandroidInv DedupeInv BackupReadsImage VolInv
PROPERTIES WritesStream MediaKept
CHECK_DEADLOCK FALSE
