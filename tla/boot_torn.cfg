\* An MTD page is erased before it is written.
SPECIFICATION Spec
CONSTANTS
  Requests <- FewRequests
  HasDatadata = FALSE
  Mtd = TRUE
  BcbFaults = FALSE
  BcbTears = TRUE
INVARIANT MainSystemWhole
