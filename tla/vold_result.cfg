SPECIFICATION Spec
CONSTANTS
  sd0 = sd0
  sd1 = sd1
  Volumes = {sd0, sd1}
  MaxEvents = 1
  VoldCrashes = FALSE
INVARIANT ResultIsOwn
