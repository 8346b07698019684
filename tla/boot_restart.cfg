\* No BCB faults: what the protocol guarantees across power losses.
SPECIFICATION FairSpec
CONSTANTS
  Requests <- MCRequests
  HasDatadata = FALSE
  Mtd = TRUE
  BcbFaults = FALSE
  BcbTears = FALSE
INVARIANTS MainSystemWhole Restartable FlashImageWhole IntentDelivered IInv
PROPERTIES RetiredStaysRetired CommandRetired
