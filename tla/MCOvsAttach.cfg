CONSTANTS
  OwnDHCP = TRUE
  MaxCrash = 2
SPECIFICATION FairSpec
INVARIANT TypeOK
INVARIANT AttachedIsWired
INVARIANT DetachedLeavesNothing
INVARIANT ServerHasRecord
PROPERTY AttachConverges
PROPERTY KeepsContract
