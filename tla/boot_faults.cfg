\* BCB reads and writes fail, and a power loss in a BCB write erases it.
SPECIFICATION Spec
CONSTANTS
  Requests <- FewRequests
  HasDatadata = TRUE
  Mtd = TRUE
  BcbFaults = TRUE
  BcbTears = TRUE
INVARIANTS HeaderLast
