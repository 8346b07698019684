\* The threads of recovery: the client of vold, and the menus with a sideload.
SPECIFICATION ThreadsSpec
CONSTANTS
  sd0 = sd0
  sd1 = sd1
  Volumes = {sd0, sd1}
  MaxEvents = 1
  VoldCrashes = TRUE
  volup = volup
  power = power
  Keys = {volup, power}
  Repeatable = {volup}
  RepeatEnabled = TRUE
  KernelRepeats = TRUE
  QueueMax = 8
  MaxPresses = 2
  Cancel = Cancel
  Timeout = Timeout
  Refresh = Refresh
INVARIANTS VoldInv ListInStep WriterNeverShutOut SideloadInv
PROPERTIES CleanReboot ConnectedCommandReturns NoPhantomKey SideloadReturns
