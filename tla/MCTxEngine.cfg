CONSTANTS
  Retries = 2
  MaxArm7 = 3
  MaxArm9 = 3
SPECIFICATION FairSpec
INVARIANTS TypeOK NoneLost
PROPERTIES Undisturbed Drains
