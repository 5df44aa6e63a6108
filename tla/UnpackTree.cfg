\* Three starts of the command over a release nested as deep as allowed, or deeper.
SPECIFICATION Spec
CONSTANTS
  Archives <- MCArchives
  Kind <- MCKind
  Holders <- MCHolders
  Rank <- MCRank
  Release = "release"
  OldManifest = OldManifest
  MaxZipDepth = 2
  MaxRuns = 3
INVARIANTS ManifestMeansComplete NestingIsLimited
PROPERTIES NothingTakenBack
