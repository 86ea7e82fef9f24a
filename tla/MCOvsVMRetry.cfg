CONSTANTS
  OwnDHCP = TRUE
  MaxCrash = 0
SPECIFICATION Spec
INVARIANT AttachedVMIsWired
