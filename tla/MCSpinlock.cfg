SPECIFICATION FairSpec
INVARIANTS MutualExclusion ConsistentCopy NoOrphanLock
PROPERTIES SomeoneEnters
