\* Two runs under weak fairness of their own steps, or one and more changes.
SPECIFICATION FairSpec
CONSTANTS
  p1 = p1  p2 = p2
  safe = safe  unsafe = unsafe
  good = good  other = other  bad = bad
  ino1 = ino1  ino2 = ino2
  None = None  Absent = Absent  EmptyDir = EmptyDir  ForeignObject = ForeignObject
  Procs <- MCProcs
  Infos <- MCInfos
  SafeInfos <- MCSafeInfos
  Data <- MCData
  GoodData <- MCGoodData
  NMembers = 2
  Downloads <- MCDownloads
  Inodes <- MCInodes
  MaxChanges = 3
CONSTRAINT MCBounds
INVARIANTS TypeOK PublishedIsValidated ManifestDescribesArchive
PROPERTIES NothingOfValueReplaced Publishes RunsEnd
