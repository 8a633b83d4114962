CONSTANTS
  Header = 1
  Extra = 2
  MaxFragments = 3
  PatchSlots = 2
  MaxSticky = 1
  Sizes = {1, 2}
  Counts = {2, 3}
  Patchable = {0, 1}
  MaxTables = 2
  MaxPatches = 2
  MaxBeacons = 2
SPECIFICATION FairSpec
INVARIANTS CurrentFragment LatestPatchSent
PROPERTY FragmentsCycle
