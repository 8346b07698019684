SPECIFICATION Spec
CONSTANTS
  MaxSess = 2
  MaxSocks = 2
  MaxData = 2
  FdBuf = 1
  MaxCnxn = 2
  MaxHost = 5
INVARIANTS SocketInv StreamInv
CHECK_DEADLOCK FALSE
PROPERTIES NoStall Reconnects
