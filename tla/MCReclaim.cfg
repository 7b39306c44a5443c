\* SnapshotGc: one reader, three snapshots, an owned and a registry element; starting a cleanup
\* thread may fail.  ZoneVersions: a secondary zone, one sender, two versions.
SPECIFICATION MCFairSpec
CONSTANTS
  r1 = r1 s1 = s1 o1 = o1 z1 = z1
  Readers = {r1} Owned = {o1} Registry = {z1} MaxSnap = 3 Senders = {s1}
INVARIANTS NoUseAfterFree ElementsIntact
PROPERTIES RetiredIsFreed VersionIsFreed
CHECK_DEADLOCK FALSE
